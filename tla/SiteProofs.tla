------------------------------- MODULE SiteProofs -------------------------------
(***************************************************************************)
(* What the pages that poll keep true in whatever order their requests are *)
(* answered, for every number of visits, clicks, requests and bots.        *)
(*                                                                         *)
(* A late continuation writes only to the visit whose request it was: what *)
(* a page shows depends on the requests of its own visit (Addressed).  The *)
(* ids in its rows are right until one is given out again (Snapshot), and  *)
(* the newest of the lists it shows or may get is right, or says that a    *)
(* bot is connecting, or another is on its way (Right).                    *)
(***************************************************************************)
EXTENDS Site, FiniteSetTheorems, WellFoundedInduction, TLAPS

States == {"sent", "ok", "failed", "lost"}

IsInst(x) ==
    x \in [page : {x.page}, ticker : BOOLEAN, has : BOOLEAN, shown : {x.shown},
           at : Nat, newest : Nat, excused : BOOLEAN, failed : BOOLEAN]

IsCall(c, k) ==
    c \in [n : 1 .. MaxCalls, visit : 1 .. k, kind : {c.kind}, arg : {c.arg},
           state : States, res : {c.res}, at : Nat]

\* Visits and requests are records of their kind; pages still to come do nothing.
Shape ==
    /\ cur \in Visit /\ time \in Nat /\ clicks \in Nat
    /\ inst = [i \in Visit |-> inst[i]]
    /\ \A i \in Visit : /\ IsInst(inst[i]) /\ inst[i].at <= inst[i].newest
                        /\ inst[i].ticker => i <= cur
    /\ \A c \in calls : IsCall(c, cur)
    /\ IsFiniteSet(calls) /\ \A c, d \in calls : c.n = d.n => c = d

\* A request is one of those its page makes; the login does not poll.
Fits(c, x) ==
    /\ c.kind = "login" <=> x.page = "home"
    /\ c.kind \in BotKind => x.page = "bots"
    /\ c.kind \in TreeKind => x.page = "server"

Addressed ==
    /\ \A c \in calls : Fits(c, inst[c.visit])
    /\ \A i \in Visit : inst[i].page = "home" => ~inst[i].ticker

\* hasConnectingBots is true of the list that is shown, and then the ticker runs.
Watched ==
    inst[cur].page = "bots" /\ inst[cur].shown # None =>
        /\ inst[cur].has <=> Connecting(inst[cur].shown)
        /\ inst[cur].has => inst[cur].ticker

USE DEF server, vars

-----------------------------------------------------------------------------
(* Pages and requests *)

LEMMA PageIs ==
    ASSUME NEW page
    PROVE  /\ IsInst(Page(page)) /\ Page(page).page = page
           /\ Page(page).ticker <=> page \in {"overview", "server"}
           /\ page = "home" => Page(page).shown = FALSE
           /\ page # "home" => Page(page).shown = None
           /\ Page(page).newest = 0 /\ Page(page).at = 0 /\ Page(page).at <= Page(page).newest
           /\ Page(page).excused <=> page # "home"
           /\ IsInst(Blank) /\ ~Blank.ticker /\ Blank.at <= Blank.newest
<1> DEFINE t == page \in {"overview", "server"}
           e == page # "home"
           h == IF page = "home" THEN FALSE ELSE None
<1>1. t \in BOOLEAN /\ e \in BOOLEAN
    OBVIOUS
<1>2. Page(page) = [Blank EXCEPT !.page = page, !.ticker = t, !.shown = h, !.excused = e]
    BY Zenon DEF Page
<1> HIDE DEF t, e, h
<1>3. IsInst(Blank) /\ ~Blank.ticker /\ Blank.at <= Blank.newest
    BY DEF Blank, IsInst
<1>4. Page(page) = [page |-> page, ticker |-> t, has |-> FALSE, shown |-> h, at |-> 0, newest |-> 0,
                    excused |-> e, failed |-> FALSE]
    BY <1>2 DEF Blank
<1>5. IsInst(Page(page))
    BY <1>1, <1>4 DEF IsInst
<1>6. /\ Page(page).page = page /\ Page(page).ticker = t /\ Page(page).shown = h
      /\ Page(page).newest = 0 /\ Page(page).at = 0 /\ Page(page).excused = e
    BY <1>4
<1>7. Page(page).at <= Page(page).newest
    BY <1>6
<1>8. (page = "home" => h = FALSE) /\ (page # "home" => h = None)
    BY DEF h
<1>9. (t <=> page \in {"overview", "server"}) /\ (e <=> page # "home")
    BY DEF t, e
<1> QED BY Zenon, <1>3, <1>5, <1>6, <1>7, <1>8, <1>9

LEMMA LeftIs ==
    ASSUME NEW x, IsInst(x)
    PROVE  /\ IsInst(Left(x)) /\ Left(x).page = x.page /\ ~Left(x).ticker
           /\ Left(x).at <= Left(x).newest
<1> DEFINE p == x.page
           h == x.has
<1>0. Left(x) = [Blank EXCEPT !.page = p, !.has = h]
    BY DEF Left
<1>2. h \in BOOLEAN /\ p = x.page
    BY DEF IsInst
<1> HIDE DEF p, h
<1>1. Left(x) = [page |-> p, ticker |-> FALSE, has |-> h, shown |-> None, at |-> 0, newest |-> 0,
                 excused |-> TRUE, failed |-> FALSE]
    BY <1>0 DEF Blank
<1>3. /\ Left(x).page = p /\ Left(x).ticker = FALSE /\ Left(x).at = 0 /\ Left(x).newest = 0
      /\ Left(x).shown = None
    BY <1>1
<1>4. IsInst(Left(x))
    BY <1>1, <1>2 DEF IsInst
<1>5. Left(x).at <= Left(x).newest
    BY <1>3
<1> QED BY <1>2, <1>3, <1>4, <1>5

\* A number for one more request is free.
LEMMA FreeIs ==
    ASSUME Cardinality(calls) < MaxCalls, IsFiniteSet(calls)
    PROVE  Free \in 1 .. MaxCalls /\ \A c \in calls : c.n # Free
<1>1. \E n \in 1 .. MaxCalls : \A c \in calls : c.n # n
    <2> SUFFICES ASSUME \A n \in 1 .. MaxCalls : \E c \in calls : c.n = n
                 PROVE  FALSE
        OBVIOUS
    <2> DEFINE by == [n \in 1 .. MaxCalls |-> CHOOSE c \in calls : c.n = n]
    <2>1. by \in [1 .. MaxCalls -> calls] /\ \A n \in 1 .. MaxCalls : by[n].n = n
        OBVIOUS
    <2>2. IsFiniteSet(1 .. MaxCalls) /\ Cardinality(1 .. MaxCalls) = MaxCalls
        BY FS_Interval, SiteAssumption
    <2>3. \E m, n \in 1 .. MaxCalls : m # n /\ by[m] = by[n]
        <3> HIDE DEF by
        <3> QED BY <2>1, <2>2, FS_PigeonHole
    <2> QED BY <2>1, <2>3
<1> QED BY <1>1 DEF Free
-----------------------------------------------------------------------------
(* The continuations: each writes to the visit of its request and no other *)

\* What an answer makes of its visit.
LEMMA ToldIs ==
    ASSUME Shape, NEW c \in calls
    PROVE  LET x == inst[c.visit]
               y == Told(c)
           IN  /\ IsInst(y) /\ y.at <= y.newest
               /\ y.page = x.page /\ y.ticker = x.ticker /\ y.has = x.has
               /\ y.shown = IF c.visit = cur THEN c.res ELSE x.shown
<1> DEFINE x == inst[c.visit]
           w == IF c.at > x.newest THEN c.at ELSE x.newest
           e == IF c.at = time /\ Of(c.visit) = {c} THEN FALSE ELSE x.excused \/ c.at < x.newest
<1>1. c.visit \in Visit /\ c.at \in Nat
    BY SiteAssumption DEF Shape, IsCall, Visit
<1>2. IsInst(x) /\ x.at <= x.newest
    BY <1>1 DEF Shape
<1>3. CASE c.visit # cur
    BY <1>2, <1>3 DEF Told
<1>4. CASE c.visit = cur
    <2>1. Told(c) = [x EXCEPT !.shown = c.res, !.at = c.at, !.newest = w, !.excused = e]
        BY Zenon, <1>4 DEF Told
    <2>2. w \in Nat /\ c.at <= w
        BY <1>1, <1>2 DEF IsInst
    <2>3. e \in BOOLEAN
        BY <1>2 DEF IsInst
    <2> HIDE DEF w, e
    <2> QED BY <1>1, <1>2, <1>4, <2>1, <2>2, <2>3 DEF IsInst
<1> QED BY <1>3, <1>4

\* What the continuation of the list of bots makes of its visit.
LEMMA BotsDoneIs ==
    ASSUME Shape, NEW c \in calls, BotsDone(c)
    PROVE  LET x == inst[c.visit]
               y == inst'[c.visit]
           IN  /\ \A i \in Visit : i # c.visit => inst'[i] = inst[i]
               /\ inst' = [i \in Visit |-> inst'[i]]
               /\ IsInst(y) /\ y.at <= y.newest /\ y.page = x.page
               /\ c.state = "ok" =>
                     /\ y.has <=> Connecting(c.res)
                     /\ y.shown = IF c.visit = cur THEN c.res ELSE x.shown
                     /\ y.has => y.ticker
               /\ c.state # "ok" =>
                     /\ y.has = x.has /\ y.shown = x.shown
                     /\ x.ticker /\ x.has => y.ticker
<1> DEFINE i == c.visit
           x == inst[i]
           ok == c.state = "ok"
           has == IF ok THEN Connecting(c.res) ELSE x.has
           z == IF ok THEN Told(c) ELSE x
           t == (z.ticker \/ (ok /\ has)) /\ (has \/ c.kind # "tick")
<1>1. i \in Visit
    BY SiteAssumption DEF Shape, IsCall, Visit
<1>2. IsInst(x) /\ x.at <= x.newest
    BY <1>1 DEF Shape
<1>3. inst' = [inst EXCEPT ![i] = [z EXCEPT !.has = has, !.ticker = t]]
    BY Zenon DEF BotsDone
<1>4. /\ IsInst(z) /\ z.at <= z.newest /\ z.page = x.page
      /\ z.shown = IF ok /\ i = cur THEN c.res ELSE x.shown
      /\ z.ticker = x.ticker
    BY <1>2, ToldIs
<1>5. has \in BOOLEAN
    BY <1>2 DEF IsInst, Connecting
<1>6. t \in BOOLEAN
    OBVIOUS
<1>7. (ok => (has <=> Connecting(c.res)) /\ (has => t)) /\ (~ok => has = x.has /\ (x.ticker /\ has => t))
    BY <1>4
<1> HIDE DEF z, has, t
<1>8. inst'[i] = [z EXCEPT !.has = has, !.ticker = t] /\ \A j \in Visit : j # i => inst'[j] = inst[j]
    BY <1>1, <1>3 DEF Shape
<1>9. inst' = [j \in Visit |-> inst'[j]]
    BY <1>3 DEF Shape
<1>10. /\ IsInst(inst'[i]) /\ inst'[i].at <= inst'[i].newest /\ inst'[i].page = x.page
       /\ inst'[i].has = has /\ inst'[i].ticker = t /\ inst'[i].shown = z.shown
    BY <1>4, <1>5, <1>6, <1>8 DEF IsInst
<1> QED BY <1>4, <1>5, <1>6, <1>7, <1>8, <1>9, <1>10

LEMMA OverviewDoneIs ==
    ASSUME Shape, NEW c \in calls, OverviewDone(c)
    PROVE  LET x == inst[c.visit]
               y == inst'[c.visit]
           IN  /\ \A i \in Visit : i # c.visit => inst'[i] = inst[i]
               /\ inst' = [i \in Visit |-> inst'[i]]
               /\ IsInst(y) /\ y.at <= y.newest /\ y.page = x.page /\ x.page = "overview"
<1> DEFINE t == c.state = "ok"
<1>1. c.visit \in Visit
    BY SiteAssumption DEF Shape, IsCall, Visit
<1>2. IsInst(inst[c.visit]) /\ inst[c.visit].at <= inst[c.visit].newest
    BY <1>1 DEF Shape
<1>3. inst' = [inst EXCEPT ![c.visit].ticker = t]
    BY Zenon DEF OverviewDone
<1>4. t \in BOOLEAN
    OBVIOUS
<1>5. inst[c.visit].page = "overview"
    BY DEF OverviewDone
<1> HIDE DEF t
<1> QED BY <1>1, <1>2, <1>3, <1>4, <1>5 DEF Shape, IsInst

LEMMA TreeDoneIs ==
    ASSUME Shape, NEW c \in calls, TreeDone(c)
    PROVE  LET x == inst[c.visit]
               y == inst'[c.visit]
           IN  /\ \A i \in Visit : i # c.visit => inst'[i] = inst[i]
               /\ inst' = [i \in Visit |-> inst'[i]]
               /\ IsInst(y) /\ y.at <= y.newest /\ y.page = x.page /\ x.page = "server"
<1> DEFINE z == Told(c)
<1>1. c.visit \in Visit
    BY SiteAssumption DEF Shape, IsCall, Visit
<1>2. IsInst(inst[c.visit]) /\ inst[c.visit].at <= inst[c.visit].newest
    BY <1>1 DEF Shape
<1>3. IsInst(z) /\ z.at <= z.newest /\ z.page = inst[c.visit].page
    BY ToldIs
<1>4. inst[c.visit].page = "server"
    BY DEF TreeDone
<1>5. \/ inst' = [inst EXCEPT ![c.visit] = z]
      \/ inst' = [inst EXCEPT ![c.visit] = [inst[c.visit] EXCEPT !.ticker = FALSE, !.failed = TRUE]]
    BY DEF TreeDone
<1> HIDE DEF z
<1>6. inst'[c.visit] \in {z, [inst[c.visit] EXCEPT !.ticker = FALSE, !.failed = TRUE]}
    BY <1>1, <1>5 DEF Shape
<1>7. IsInst(inst'[c.visit]) /\ inst'[c.visit].at <= inst'[c.visit].newest
      /\ inst'[c.visit].page = inst[c.visit].page
    BY <1>2, <1>3, <1>6 DEF IsInst
<1>8. /\ \A i \in Visit : i # c.visit => inst'[i] = inst[i]
      /\ inst' = [i \in Visit |-> inst'[i]]
    BY <1>1, <1>5 DEF Shape
<1> QED BY <1>4, <1>7, <1>8

LEMMA CommandDoneIs ==
    ASSUME Shape, Addressed, NEW c \in calls, CommandDone(c)
    PROVE  LET x == inst[c.visit]
               y == inst'[c.visit]
           IN  /\ \A i \in Visit : i # c.visit => inst'[i] = inst[i]
               /\ inst' = [i \in Visit |-> inst'[i]]
               /\ IsInst(y) /\ y.at <= y.newest /\ y.page = x.page /\ x.page \in {"bots", "server"}
               /\ y.has = x.has /\ y.shown = x.shown /\ (x.ticker => y.ticker)
<1>1. c.visit \in Visit
    BY SiteAssumption DEF Shape, IsCall, Visit
<1>2. IsInst(inst[c.visit]) /\ inst[c.visit].at <= inst[c.visit].newest
    BY <1>1 DEF Shape
<1>3. inst[c.visit].page \in {"bots", "server"}
    BY DEF CommandDone, Addressed, Fits
<1>4. \/ inst' = [inst EXCEPT ![c.visit].ticker = TRUE, ![c.visit].failed = FALSE]
      \/ inst' = inst
    BY DEF CommandDone
<1>5. /\ \A i \in Visit : i # c.visit => inst'[i] = inst[i]
      /\ inst' = [i \in Visit |-> inst'[i]]
    BY <1>1, <1>4 DEF Shape
<1>6. inst'[c.visit] \in {inst[c.visit], [inst[c.visit] EXCEPT !.ticker = TRUE, !.failed = FALSE]}
    BY <1>1, <1>4 DEF Shape
<1> QED BY <1>2, <1>3, <1>5, <1>6 DEF IsInst

LEMMA LoginDoneIs ==
    ASSUME Shape, Addressed, NEW c \in calls, LoginDone(c)
    PROVE  LET x == inst[c.visit]
               y == inst'[c.visit]
           IN  /\ \A i \in Visit : i # c.visit => inst'[i] = inst[i]
               /\ inst' = [i \in Visit |-> inst'[i]]
               /\ IsInst(y) /\ y.at <= y.newest /\ y.page = x.page /\ x.page = "home"
               /\ y.ticker = x.ticker
               /\ y.shown <=> c.state = "ok"
               /\ y.shown \in BOOLEAN
               /\ y.newest = IF c.at > x.newest THEN c.at ELSE x.newest
               /\ y.excused <=> c.at < x.newest \/ c.state = "lost"
<1> DEFINE x == inst[c.visit]
           h == c.state = "ok"
           e == c.at < x.newest \/ c.state = "lost"
           w == IF c.at > x.newest THEN c.at ELSE x.newest
<1>1. c.visit \in Visit /\ c.at \in Nat
    BY SiteAssumption DEF Shape, IsCall, Visit
<1>2. IsInst(x) /\ x.at <= x.newest
    BY <1>1 DEF Shape
<1>3. x.page = "home"
    BY DEF LoginDone, Addressed, Fits
<1>4. inst' = [inst EXCEPT ![c.visit] = [x EXCEPT !.shown = h, !.newest = w, !.excused = e]]
    BY Zenon DEF LoginDone
<1>5. h \in BOOLEAN /\ e \in BOOLEAN
    OBVIOUS
<1>6. w \in Nat /\ x.at <= w
    BY <1>1, <1>2 DEF IsInst
<1> HIDE DEF h, e, w, x
<1>7. inst'[c.visit] = [x EXCEPT !.shown = h, !.newest = w, !.excused = e]
    BY <1>1, <1>4 DEF Shape
<1>8. /\ \A i \in Visit : i # c.visit => inst'[i] = inst[i]
      /\ inst' = [i \in Visit |-> inst'[i]]
    BY <1>1, <1>4 DEF Shape
<1>9. LET y == inst'[c.visit]
      IN  /\ IsInst(y) /\ y.at <= y.newest /\ y.page = x.page /\ y.ticker = x.ticker
          /\ y.shown = h /\ y.newest = w /\ y.excused = e
    BY <1>2, <1>5, <1>6, <1>7 DEF IsInst
<1> QED BY <1>3, <1>5, <1>8, <1>9 DEF h, e, w, x

\* All of them: page and kind of a visit stay, a refresh follows a command.
LEMMA ResumeIs ==
    ASSUME Shape, Addressed, NEW c \in calls, Resume(c)
    PROVE  LET x == inst[c.visit]
               y == inst'[c.visit]
           IN  /\ \A i \in Visit : i # c.visit => inst'[i] = inst[i]
               /\ inst' = [i \in Visit |-> inst'[i]]
               /\ IsInst(y) /\ y.at <= y.newest /\ y.page = x.page
               /\ x.page = "home" => y.ticker = x.ticker
               /\ \/ calls' = calls \ {c}
                  \/ /\ calls' = (calls \ {c}) \cup {Request(c.n, c.visit, "refresh", None)}
                     /\ x.page \in {"bots", "server"}
<1>1. CASE BotsDone(c)
    BY <1>1, BotsDoneIs DEF BotsDone, Done
<1>2. CASE OverviewDone(c)
    BY <1>2, OverviewDoneIs DEF OverviewDone, Done
<1>3. CASE TreeDone(c)
    BY <1>3, TreeDoneIs DEF TreeDone, Done
<1>4. CASE CommandDone(c)
    BY <1>4, CommandDoneIs DEF CommandDone, Done, AskNext
<1>5. CASE LoginDone(c)
    BY <1>5, LoginDoneIs DEF LoginDone, Done
<1> QED BY <1>1, <1>2, <1>3, <1>4, <1>5 DEF Resume

-----------------------------------------------------------------------------
(* The server: it changes a request, and at most excuses what is shown *)

\* Every visit is what it was, but for an excuse.
Alike ==
    /\ inst' = [i \in Visit |-> inst'[i]]
    /\ \A i \in Visit :
          LET x == inst[i]
              y == inst'[i]
          IN  /\ IsInst(y) /\ y.page = x.page /\ y.ticker = x.ticker /\ y.has = x.has
              /\ y.shown = x.shown /\ y.at = x.at /\ y.newest = x.newest
              /\ y.excused = x.excused \/ y.excused

\* The answer to the request c.
Became(c, d) ==
    /\ calls' = (calls \ {c}) \cup {d}
    /\ IsCall(d, cur) /\ d.n = c.n /\ d.visit = c.visit /\ d.kind = c.kind /\ d.arg = c.arg
    /\ c.kind = "login" => /\ d.at = c.at
                           /\ d.state = "ok" => c.arg \in Good
                           /\ d.state = "failed" => c.arg \notin Good

LEMMA SameIsAlike ==
    ASSUME Shape, UNCHANGED inst
    PROVE  Alike
    BY DEF Shape, Alike

LEMMA SurprisedIsAlike ==
    ASSUME Shape, NEW i, inst' = Surprised(i)
    PROVE  Alike
<1>1. \A j \in Visit : inst'[j] = inst[j] \/ inst'[j] = [inst[j] EXCEPT !.excused = TRUE]
    BY DEF Surprised
<1>2. inst' = [j \in Visit |-> inst'[j]]
    BY DEF Surprised
<1>3. \A j \in Visit : IsInst(inst[j])
    BY DEF Shape
<1>4. ASSUME NEW j \in Visit
      PROVE  LET x == inst[j]
                 y == inst'[j]
             IN  /\ IsInst(y) /\ y.page = x.page /\ y.ticker = x.ticker /\ y.has = x.has
                 /\ y.shown = x.shown /\ y.at = x.at /\ y.newest = x.newest
                 /\ y.excused = x.excused \/ y.excused
    <2>1. CASE inst'[j] = inst[j]
        BY <1>3, <2>1
    <2>2. CASE inst'[j] = [inst[j] EXCEPT !.excused = TRUE]
        BY <1>3, <2>2 DEF IsInst
    <2> QED BY <1>1, <2>1, <2>2
<1> QED BY <1>2, <1>4 DEF Alike

LEMMA BecomesTime ==
    ASSUME Shape, NEW b, NEW t, Becomes(b, t)
    PROVE  time' \in Nat
    BY DEF Shape, Becomes

LEMMA ServeIs ==
    ASSUME Shape, NEW c \in calls, Serve(c)
    PROVE  /\ Alike /\ time' \in Nat /\ UNCHANGED <<auth, cur, clicks>>
           /\ \E d : Became(c, d)
<1>1. IsCall(c, cur)
    BY DEF Shape
<1>2. CASE Refused(c) /\ Answered(c, [c EXCEPT !.state = "failed"]) /\ UNCHANGED <<server, hit, inst>>
    <2>1. Became(c, [c EXCEPT !.state = "failed"])
        BY <1>1, <1>2 DEF Became, Answered, IsCall, States, Refused
    <2> QED BY <1>2, <2>1, SameIsAlike DEF Serve, Shape
<1>3. CASE ~Refused(c) /\ Becomes(BotsAfter(c), TreeAfter(c))
    <2>1. time' \in Nat
        BY <1>3, BecomesTime
    <2>2. Alike
        BY <1>3, SameIsAlike, SurprisedIsAlike DEF Serve
    <2>3. PICK r, a : /\ calls' = (calls \ {c}) \cup {[c EXCEPT !.state = "ok", !.res = r, !.at = a]}
                      /\ a \in Nat /\ (c.kind = "login" => a = c.at)
        <3> DEFINE r == IF c.kind \notin {"refresh", "tick"} THEN None
                        ELSE CASE inst[c.visit].page = "bots"   -> bots
                               [] inst[c.visit].page = "server" -> tree
                               [] OTHER                         -> None
                   a == IF c.kind = "login" THEN c.at ELSE time'
        <3>1. calls' = (calls \ {c}) \cup {[c EXCEPT !.state = "ok", !.res = r, !.at = a]}
            BY Zenon, <1>3 DEF Serve, Answered
        <3>2. a \in Nat /\ (c.kind = "login" => a = c.at)
            BY <1>1, <2>1 DEF IsCall
        <3> HIDE DEF r, a
        <3> QED BY <3>1, <3>2
    <2>4. Became(c, [c EXCEPT !.state = "ok", !.res = r, !.at = a])
        BY <1>1, <1>3, <2>3 DEF Became, IsCall, States, Refused
    <2> QED BY <2>1, <2>2, <2>4 DEF Serve
<1> QED BY <1>2, <1>3 DEF Serve

LEMMA FailIs ==
    ASSUME Shape, NEW c \in calls, Fail(c)
    PROVE  /\ Alike /\ time' \in Nat /\ UNCHANGED <<auth, cur, clicks>>
           /\ \E d : Became(c, d)
           /\ \A i \in Visit : inst'[i].excused
<1>1. IsCall(c, cur)
    BY DEF Shape
<1>2. Alike /\ \A i \in Visit : inst'[i].excused
    <2>1. inst' = Surprised(0)
        BY DEF Fail
    <2>2. \A i \in Visit : inst'[i] = [inst[i] EXCEPT !.excused = TRUE]
        BY <2>1, SiteAssumption DEF Surprised, Visit
    <2> QED BY <2>1, <2>2, SurprisedIsAlike DEF Shape, IsInst
<1>3. time' \in Nat
    BY BecomesTime DEF Fail, Shape
<1>4. Became(c, [c EXCEPT !.state = "lost"])
    BY <1>1 DEF Fail, Answered, Became, IsCall, States
<1> QED BY <1>2, <1>3, <1>4 DEF Fail, Trouble

-----------------------------------------------------------------------------
(* Shape, Addressed and Watched are inductive *)

Inv == Shape /\ Addressed /\ Watched

LEMMA RequestIs ==
    ASSUME NEW n, NEW i, NEW kind, NEW arg
    PROVE  LET c == Request(n, i, kind, arg)
           IN  /\ c.n = n /\ c.visit = i /\ c.kind = kind /\ c.arg = arg /\ c.state = "sent" /\ c.at = 0
               /\ \A k : n \in 1 .. MaxCalls /\ i \in 1 .. k => IsCall(c, k)
    BY DEF Request, IsCall, States

\* A request is added to the requests C, which has its number free.
LEMMA CallsShape ==
    ASSUME Shape, NEW C \in SUBSET calls, NEW d, NEW k \in {cur, cur + 1}, IsCall(d, k),
           calls' = C \cup {d}, \A c \in C : c.n # d.n
    PROVE  /\ \A c \in calls' : IsCall(c, k)
           /\ IsFiniteSet(calls') /\ \A c, e \in calls' : c.n = e.n => c = e
<1>1. \A c \in C : IsCall(c, k)
    BY DEF Shape, IsCall, Visit
<1>2. IsFiniteSet(calls')
    BY FS_Subset, FS_AddElement DEF Shape
<1> QED BY <1>1, <1>2 DEF Shape

LEMMA AskIs ==
    ASSUME Shape, NEW k \in {cur, cur + 1}, NEW i \in 1 .. k, NEW kind, NEW arg, Ask(i, kind, arg)
    PROVE  /\ \A c \in calls' : IsCall(c, k)
           /\ IsFiniteSet(calls') /\ \A c, e \in calls' : c.n = e.n => c = e
           /\ \A c \in calls' : c \in calls \/ c = Request(Free, i, kind, arg)
           /\ \A c \in calls' : c \in calls \/ (c.visit = i /\ c.kind = kind)
<1> DEFINE d == Request(Free, i, kind, arg)
<1>1. Free \in 1 .. MaxCalls /\ \A c \in calls : c.n # Free
    BY FreeIs DEF Shape, Ask
<1>2. d.n = Free /\ d.visit = i /\ d.kind = kind /\ IsCall(d, k)
    BY <1>1, RequestIs
<1>3. calls' = calls \cup {d}
    BY DEF Ask
<1> HIDE DEF d
<1>4. calls \in SUBSET calls /\ \A c \in calls : c.n # d.n
    BY <1>1, <1>2
<1>5. /\ \A c \in calls' : IsCall(c, k)
      /\ IsFiniteSet(calls') /\ \A c, e \in calls' : c.n = e.n => c = e
    BY <1>2, <1>3, <1>4, CallsShape
<1>6. \A c \in calls' : c \in calls \/ (c.visit = i /\ c.kind = kind)
    BY <1>2, <1>3
<1>7. \A c \in calls' : c \in calls \/ c = Request(Free, i, kind, arg)
    BY Zenon, <1>3 DEF d
<1> QED BY Zenon, <1>5, <1>6, <1>7

LEMMA InitInv == Init => Inv
<1> SUFFICES ASSUME Init PROVE Inv
    OBVIOUS
<1>1. PICK page \in First :
         /\ inst = [i \in Visit |-> IF i = 1 THEN Page(page) ELSE Blank]
         /\ calls = IF page \in {"bots", "server"} THEN {Request(1, 1, "refresh", None)}
                     ELSE IF page = "home" /\ auth # Anonymous THEN {Request(1, 1, "login", auth)}
                     ELSE {}
    BY DEF Init
<1>2. cur = 1 /\ 1 \in Visit /\ 1 \in 1 .. MaxCalls /\ 1 \in 1 .. cur
    BY SiteAssumption DEF Init, Visit
<1>3. Shape
    <2>1. inst = [i \in Visit |-> inst[i]] /\ \A i \in Visit : inst[i] = IF i = 1 THEN Page(page) ELSE Blank
        BY <1>1
    <2>2. ASSUME NEW i \in Visit
          PROVE  IsInst(inst[i]) /\ inst[i].at <= inst[i].newest /\ (inst[i].ticker => i <= cur)
        <3>1. CASE i = 1
            <4>1. inst[i] = Page(page) /\ i <= cur
                BY <1>2, <2>1, <3>1
            <4>2. IsInst(Page(page)) /\ Page(page).at <= Page(page).newest
                BY PageIs
            <4> QED BY <4>1, <4>2
        <3>2. CASE i # 1
            <4>1. inst[i] = Blank
                BY <2>1, <3>2
            <4>2. IsInst(Blank) /\ ~Blank.ticker /\ Blank.at <= Blank.newest
                BY PageIs
            <4> QED BY <4>1, <4>2
        <3> QED BY <3>1, <3>2
    <2>3. \A c \in calls : IsCall(c, cur)
        BY <1>1, <1>2, RequestIs
    <2>4. IsFiniteSet(calls) /\ \A c, d \in calls : c = d
        BY <1>1, FS_Singleton, FS_EmptySet
    <2> QED BY <1>2, <2>1, <2>2, <2>3, <2>4, SiteAssumption DEF Init, Shape
<1>4. inst[1].page = page /\ (page = "home" => ~inst[1].ticker) /\ (page = "bots" => inst[1].shown = None)
    BY <1>1, <1>2, PageIs
<1>5. Addressed
    <2>1. \A c \in calls : Fits(c, inst[c.visit])
        BY <1>1, <1>4, RequestIs DEF Fits, BotKind, TreeKind
    <2>2. \A i \in Visit : i # 1 => ~inst[i].ticker
        BY <1>1, PageIs
    <2> QED BY <1>4, <2>1, <2>2 DEF Addressed
<1> QED BY <1>2, <1>3, <1>4, <1>5 DEF Inv, Watched

\* The request a page begins with.
Asked(c, i, page) == /\ c.visit = i /\ c.kind \notin BotKind \cup TreeKind
                     /\ c.kind = "login" <=> page = "home"

LEMMA OpenInv ==
    ASSUME Inv, NEW page \in Later, Open(page)
    PROVE  Inv'
<1> DEFINE v == cur + 1
<1>1. cur' = v /\ v \in Visit /\ cur \in Visit /\ v # cur /\ v \in 1 .. v /\ cur \in Nat
    BY SiteAssumption DEF Open, Inv, Shape, Visit
<1>2. /\ inst' = [i \in Visit |-> inst'[i]]
      /\ inst'[v] = Page(page) /\ inst'[cur] = Left(inst[cur])
      /\ \A i \in Visit : i \notin {v, cur} => inst'[i] = inst[i]
    BY <1>1 DEF Open, Inv, Shape
<1>3. \A i \in Visit : IsInst(inst[i]) /\ inst[i].at <= inst[i].newest /\ (inst[i].ticker => i <= cur)
    BY DEF Inv, Shape
<1>4. /\ \A i \in Visit : IsInst(inst'[i]) /\ inst'[i].at <= inst'[i].newest /\ (inst'[i].ticker => i <= v)
      /\ inst'[v].page = page /\ (page = "home" => ~inst'[v].ticker)
      /\ page = "bots" => inst'[v].shown = None
      /\ \A i \in Visit : i # v => inst'[i].page = inst[i].page /\ (inst'[i].ticker => inst[i].ticker)
    <2>1. ASSUME NEW i \in Visit, i \notin {v, cur}
          PROVE  /\ IsInst(inst'[i]) /\ inst'[i].at <= inst'[i].newest /\ (inst'[i].ticker => i <= v)
                 /\ inst'[i].page = inst[i].page /\ (inst'[i].ticker => inst[i].ticker)
        BY <1>1, <1>2, <1>3, <2>1 DEF Visit
    <2>2. /\ IsInst(inst'[cur]) /\ inst'[cur].at <= inst'[cur].newest /\ ~inst'[cur].ticker
          /\ inst'[cur].page = inst[cur].page
        <3>1. IsInst(inst[cur]) /\ inst'[cur] = Left(inst[cur])
            BY <1>1, <1>2, <1>3
        <3> QED BY <3>1, LeftIs
    <2>3. /\ IsInst(inst'[v]) /\ inst'[v].at <= inst'[v].newest
          /\ inst'[v].page = page /\ (page = "home" => ~inst'[v].ticker)
          /\ page = "bots" => inst'[v].shown = None
        BY <1>2, PageIs
    <2>4. ASSUME NEW i \in Visit
          PROVE  IsInst(inst'[i]) /\ inst'[i].at <= inst'[i].newest /\ (inst'[i].ticker => i <= v)
        BY <1>1, <2>1, <2>2, <2>3
    <2>5. ASSUME NEW i \in Visit, i # v
          PROVE  inst'[i].page = inst[i].page /\ (inst'[i].ticker => inst[i].ticker)
        BY <1>1, <2>1, <2>2, <2>5
    <2> QED BY <2>3, <2>4, <2>5
<1>5. /\ \A c \in calls' : IsCall(c, v)
      /\ IsFiniteSet(calls') /\ \A c, e \in calls' : c.n = e.n => c = e
      /\ \A c \in calls' : c \in calls \/ Asked(c, v, page)
    <2>1. CASE UNCHANGED calls
        <3>1. \A c \in calls : IsCall(c, cur)
            BY DEF Inv, Shape
        <3>2. \A c \in calls : IsCall(c, v)
            <4> TAKE c \in calls
            <4>1. IsCall(c, cur)
                BY <3>1
            <4> HIDE DEF v
            <4>2. 1 .. cur \subseteq 1 .. v
                BY <1>1 DEF v
            <4> QED BY <4>1, <4>2 DEF IsCall
        <3>3. IsFiniteSet(calls) /\ \A c, e \in calls : c.n = e.n => c = e
            BY DEF Inv, Shape
        <3> HIDE DEF v
        <3> QED BY Zenon, <2>1, <3>2, <3>3
    <2>2. ASSUME NEW kind, NEW arg, Ask(v, kind, arg), kind \in {"refresh", "login"},
                 kind = "login" <=> page = "home"
          PROVE  /\ \A c \in calls' : IsCall(c, v)
                 /\ IsFiniteSet(calls') /\ \A c, e \in calls' : c.n = e.n => c = e
                 /\ \A c \in calls' : c \in calls \/ Asked(c, v, page)
        <3>1. kind \notin BotKind \cup TreeKind
            BY <2>2 DEF BotKind, TreeKind
        <3>2. Shape /\ v \in {cur, cur + 1}
            BY DEF Inv
        <3> HIDE DEF v
        <3>3. /\ \A c \in calls' : IsCall(c, v)
              /\ IsFiniteSet(calls') /\ \A c, e \in calls' : c.n = e.n => c = e
              /\ \A c \in calls' : c \in calls \/ (c.visit = v /\ c.kind = kind)
            BY <1>1, <2>2, <3>2, AskIs
        <3>4. \A c \in calls' : c \in calls \/ Asked(c, v, page)
            BY <2>2, <3>1, <3>3 DEF Asked
        <3> QED BY Zenon, <3>3, <3>4
    <2>3. \/ UNCHANGED calls
          \/ page \in {"bots", "server"} /\ Ask(v, "refresh", None)
          \/ page = "home" /\ Ask(v, "login", auth)
        BY DEF Open
    <2> QED BY <2>1, <2>2, <2>3
<1>6. Shape'
    BY <1>1, <1>2, <1>4, <1>5 DEF Inv, Shape, Open, Visit
<1>7. Addressed'
    <2>1. ASSUME NEW c \in calls' PROVE Fits(c, inst'[c.visit])
        <3>1. CASE c \in calls
            <4>1. c.visit \in Visit /\ c.visit # v
                <5>1. c.visit \in 1 .. cur
                    BY <3>1 DEF Inv, Shape, IsCall
                <5> QED BY <1>1, <5>1, SiteAssumption DEF Visit
            <4>2. Fits(c, inst[c.visit])
                BY <3>1 DEF Inv, Addressed
            <4>3. inst'[c.visit].page = inst[c.visit].page
                BY <1>4, <4>1
            <4> QED BY <4>2, <4>3 DEF Fits
        <3>2. CASE c \notin calls
            <4>1. Asked(c, v, page)
                BY <1>5, <3>2
            <4>2. inst'[c.visit].page = page
                BY <1>4, <4>1 DEF Asked
            <4> QED BY <4>1, <4>2 DEF Fits, Asked
        <3> QED BY <3>1, <3>2
    <2>2. \A i \in Visit : inst'[i].page = "home" => ~inst'[i].ticker
        BY <1>1, <1>4 DEF Inv, Addressed
    <2> QED BY <2>1, <2>2 DEF Addressed
<1>8. Watched'
    BY <1>1, <1>2, <1>4, PageIs DEF Watched
<1> QED BY <1>6, <1>7, <1>8 DEF Inv

\* The pages stay as they are, and one of them makes a request.
LEMMA MoreInv ==
    ASSUME Inv, UNCHANGED <<inst, cur, time>>, clicks' \in Nat, NEW d, calls' = calls \cup {d},
           IsCall(d, cur), \A c \in calls : c.n # d.n, Fits(d, inst[d.visit])
    PROVE  Inv'
<1>1. calls \in SUBSET calls /\ cur \in {cur, cur + 1}
    OBVIOUS
<1>2. /\ \A c \in calls' : IsCall(c, cur)
      /\ IsFiniteSet(calls') /\ \A c, e \in calls' : c.n = e.n => c = e
    BY <1>1, CallsShape DEF Inv
<1>3. Shape'
    BY <1>2 DEF Inv, Shape
<1>4. Addressed'
    BY DEF Inv, Addressed
<1>5. Watched'
    BY DEF Inv, Watched, Connecting
<1> QED BY <1>3, <1>4, <1>5 DEF Inv

LEMMA AskInv ==
    ASSUME Inv, UNCHANGED <<inst, cur, time>>, clicks' \in Nat, NEW i \in 1 .. cur, NEW kind, NEW arg,
           Ask(i, kind, arg), kind # "login", inst[i].page # "home",
           kind \in BotKind => inst[i].page = "bots", kind \in TreeKind => inst[i].page = "server"
    PROVE  Inv'
<1> DEFINE d == Request(Free, i, kind, arg)
<1>1. Free \in 1 .. MaxCalls /\ \A c \in calls : c.n # Free
    BY FreeIs DEF Inv, Shape, Ask
<1>2. d.n = Free /\ d.visit = i /\ d.kind = kind /\ IsCall(d, cur)
    BY <1>1, RequestIs
<1>3. calls' = calls \cup {d}
    BY DEF Ask
<1> HIDE DEF d
<1>4. Fits(d, inst[d.visit])
    BY <1>2 DEF Fits
<1> QED BY <1>1, <1>2, <1>3, <1>4, MoreInv

LEMMA TickInv ==
    ASSUME Inv, NEW i \in Visit, Tick(i)
    PROVE  Inv'
<1>1. i \in 1 .. cur /\ inst[i].page # "home" /\ IsInst(inst[i])
    BY SiteAssumption DEF Tick, Inv, Shape, Addressed, Visit
<1>2. UNCHANGED <<cur, time, clicks>> /\ clicks' \in Nat
    BY DEF Tick, Inv, Shape
<1>3. CASE Ask(i, "tick", None) /\ UNCHANGED inst
    <2>1. "tick" \notin BotKind \cup TreeKind
        BY DEF BotKind, TreeKind
    <2> QED BY <1>1, <1>2, <1>3, <2>1, AskInv
<1>4. CASE /\ inst[i].page = "bots" /\ ~inst[i].has
           /\ inst' = [inst EXCEPT ![i].ticker = FALSE] /\ UNCHANGED calls
    <2>1. /\ inst' = [j \in Visit |-> inst'[j]] /\ \A j \in Visit : j # i => inst'[j] = inst[j]
          /\ inst'[i] = [inst[i] EXCEPT !.ticker = FALSE]
        BY <1>4 DEF Inv, Shape
    <2>2. /\ IsInst(inst'[i]) /\ inst'[i].page = inst[i].page /\ inst'[i].has = inst[i].has
          /\ inst'[i].at = inst[i].at /\ inst'[i].newest = inst[i].newest
          /\ inst'[i].shown = inst[i].shown /\ ~inst'[i].ticker
        BY <1>1, <2>1 DEF IsInst
    <2>3. \A j \in Visit : /\ IsInst(inst'[j]) /\ inst'[j].at <= inst'[j].newest
                           /\ inst'[j].ticker => j <= cur
        BY <2>1, <2>2 DEF Inv, Shape
    <2>4. Shape'
        BY <1>2, <1>4, <2>1, <2>3 DEF Inv, Shape
    <2>5. \A j \in Visit : inst'[j].page = inst[j].page /\ (inst'[j].ticker => inst[j].ticker)
        BY <2>1, <2>2
    <2>6. \A c \in calls : c.visit \in Visit
        BY SiteAssumption DEF Inv, Shape, IsCall, Visit
    <2>7. Addressed'
        BY <1>4, <2>5, <2>6 DEF Inv, Addressed, Fits
    <2>8. Watched'
        <3>1. CASE i = cur
            BY <1>2, <1>4, <2>2, <3>1 DEF Inv, Watched, Connecting
        <3>2. CASE i # cur
            <4>1. inst'[cur] = inst[cur]
                BY <2>1, <3>2 DEF Inv, Shape
            <4> QED BY <1>2, <4>1 DEF Inv, Watched, Connecting
        <3> QED BY <3>1, <3>2
    <2> QED BY <2>4, <2>7, <2>8 DEF Inv
<1> QED BY <1>3, <1>4 DEF Tick

LEMMA TypeInv ==
    ASSUME Inv, NEW cred \in Cred, Type(cred)
    PROVE  Inv'
<1> DEFINE q == Request(Free, cur, "login", cred)
           d == [q EXCEPT !.at = clicks']
<1>1. Free \in 1 .. MaxCalls /\ \A c \in calls : c.n # Free
    BY FreeIs DEF Inv, Shape, Type
<1>2. clicks' = clicks + 1 /\ clicks' \in Nat /\ inst[cur].page = "home" /\ cur \in 1 .. cur
      /\ UNCHANGED <<inst, cur, time>>
    BY SiteAssumption DEF Type, Click, Inv, Shape, Visit
<1>3. calls' = calls \cup {d}
    BY Zenon DEF Type
<1>4. q.n = Free /\ q.visit = cur /\ q.kind = "login" /\ IsCall(q, cur)
    BY <1>1, <1>2, RequestIs
<1> HIDE DEF q
<1>5. d.n = Free /\ d.visit = cur /\ d.kind = "login" /\ IsCall(d, cur)
    BY <1>2, <1>4 DEF IsCall
<1> HIDE DEF d
<1>6. Fits(d, inst[d.visit])
    BY <1>2, <1>5 DEF Fits, BotKind, TreeKind
<1> QED BY <1>1, <1>2, <1>3, <1>5, <1>6, MoreInv

LEMMA ClickInv ==
    ASSUME Inv, \/ \E kind \in BotKind, b \in Bot : BotClick(kind, b)
                \/ \E kind \in TreeKind, ch \in Channel : TreeClick(kind, ch)
    PROVE  Inv'
<1>1. PICK kind, arg : /\ Ask(cur, kind, arg) /\ clicks' = clicks + 1 /\ UNCHANGED <<inst, cur, time>>
                       /\ \/ kind \in BotKind /\ inst[cur].page = "bots"
                          \/ kind \in TreeKind /\ inst[cur].page = "server"
    <2>1. CASE \E kind \in BotKind, b \in Bot : BotClick(kind, b)
        BY Zenon, <2>1 DEF BotClick, Click
    <2>2. CASE \E kind \in TreeKind, ch \in Channel : TreeClick(kind, ch)
        BY Zenon, <2>2 DEF TreeClick, Click
    <2> QED BY <2>1, <2>2
<1>2. clicks' \in Nat /\ cur \in 1 .. cur
    BY <1>1, SiteAssumption DEF Inv, Shape, Visit
<1>3. kind # "login" /\ inst[cur].page # "home"
      /\ (kind \in BotKind => inst[cur].page = "bots") /\ (kind \in TreeKind => inst[cur].page = "server")
    BY <1>1 DEF BotKind, TreeKind
<1> QED BY <1>1, <1>2, <1>3, AskInv

\* A visit that only gained an excuse is watched as before.
LEMMA AlikeWatched ==
    ASSUME Inv, Alike, UNCHANGED cur
    PROVE  Watched'
<1>1. LET x == inst[cur]
          y == inst'[cur]
      IN  y.page = x.page /\ y.shown = x.shown /\ y.has = x.has /\ y.ticker = x.ticker
    BY DEF Alike, Inv, Shape
<1> QED BY <1>1 DEF Inv, Watched, Connecting

LEMMA AnswerInv ==
    ASSUME Inv, Alike, UNCHANGED <<cur, clicks>>, time' \in Nat, NEW c \in calls, NEW d, Became(c, d)
    PROVE  Inv'
<1>1. calls \ {c} \in SUBSET calls /\ cur \in {cur, cur + 1}
    OBVIOUS
<1>2. /\ calls' = (calls \ {c}) \cup {d} /\ IsCall(d, cur)
      /\ d.n = c.n /\ d.visit = c.visit /\ d.kind = c.kind
    BY DEF Became
<1>3. \A e \in calls \ {c} : e.n # d.n
    BY <1>2 DEF Inv, Shape
<1>4. /\ \A e \in calls' : IsCall(e, cur)
      /\ IsFiniteSet(calls') /\ \A e, f \in calls' : e.n = f.n => e = f
    BY <1>1, <1>2, <1>3, CallsShape DEF Inv
<1>5. \A i \in Visit : /\ IsInst(inst'[i]) /\ inst'[i].at <= inst'[i].newest
                       /\ inst'[i].page = inst[i].page /\ inst'[i].ticker = inst[i].ticker
    BY DEF Inv, Shape, Alike
<1>6. Shape'
    BY <1>4, <1>5 DEF Inv, Shape, Alike
<1>7. Addressed'
    <2>1. ASSUME NEW e \in calls'
          PROVE  Fits(e, inst'[e.visit])
        <3>1. PICK f \in calls : e.visit = f.visit /\ e.kind = f.kind
            BY <1>2
        <3>2. f.visit \in Visit
            BY SiteAssumption DEF Inv, Shape, IsCall, Visit
        <3>3. Fits(f, inst[f.visit]) /\ inst'[f.visit].page = inst[f.visit].page
            BY <1>5, <3>2 DEF Inv, Addressed
        <3> QED BY <3>1, <3>3 DEF Fits
    <2> QED BY <1>5, <2>1 DEF Inv, Addressed
<1> QED BY <1>6, <1>7, AlikeWatched DEF Inv

LEMMA ResumeInv ==
    ASSUME Inv, NEW c \in calls, Resume(c)
    PROVE  Inv'
<1> DEFINE x == inst[c.visit]
           y == inst'[c.visit]
           d == Request(c.n, c.visit, "refresh", None)
<1>1. c.visit \in Visit /\ c.visit \in 1 .. cur /\ c.n \in 1 .. MaxCalls
    BY SiteAssumption DEF Inv, Shape, IsCall, Visit
<1>2. UNCHANGED <<cur, clicks, time>>
    BY DEF Resume
<1>3. /\ \A i \in Visit : i # c.visit => inst'[i] = inst[i]
      /\ inst' = [i \in Visit |-> inst'[i]]
      /\ IsInst(y) /\ y.at <= y.newest /\ y.page = x.page
      /\ x.page = "home" => y.ticker = x.ticker
      /\ \/ calls' = calls \ {c}
         \/ calls' = (calls \ {c}) \cup {d} /\ x.page \in {"bots", "server"}
    BY ResumeIs DEF Inv
<1>4. d.n = c.n /\ d.visit = c.visit /\ d.kind = "refresh" /\ IsCall(d, cur)
    BY <1>1, RequestIs
<1> HIDE DEF d
<1>5. /\ \A e \in calls' : IsCall(e, cur)
      /\ IsFiniteSet(calls') /\ \A e, f \in calls' : e.n = f.n => e = f
    <2>1. CASE calls' = calls \ {c}
        BY <2>1, FS_RemoveElement DEF Inv, Shape
    <2>2. CASE calls' = (calls \ {c}) \cup {d}
        <3>1. calls \ {c} \in SUBSET calls /\ cur \in {cur, cur + 1}
            OBVIOUS
        <3>2. \A e \in calls \ {c} : e.n # d.n
            BY <1>4 DEF Inv, Shape
        <3> QED BY <1>4, <2>2, <3>1, <3>2, CallsShape DEF Inv
    <2> QED BY <1>3, <2>1, <2>2
<1>6. Shape'
    <2>1. \A i \in Visit : /\ IsInst(inst'[i]) /\ inst'[i].at <= inst'[i].newest
                           /\ inst'[i].ticker => i <= cur
        <3> TAKE i \in Visit
        <3>1. CASE i = c.visit
            BY <1>1, <1>3, <3>1, SiteAssumption DEF Inv, Shape, Visit
        <3>2. CASE i # c.visit
            BY <1>3, <3>2 DEF Inv, Shape
        <3> QED BY <3>1, <3>2
    <2> QED BY <1>2, <1>3, <1>5, <2>1 DEF Inv, Shape
<1>7. Addressed'
    <2>1. \A i \in Visit : inst'[i].page = inst[i].page
        BY <1>1, <1>3
    <2>2. \A i \in Visit : inst'[i].page = "home" => ~inst'[i].ticker
        BY <1>3, <2>1 DEF Inv, Addressed
    <2>3. ASSUME NEW e \in calls'
          PROVE  Fits(e, inst'[e.visit])
        <3>1. CASE e \in calls
            <4>1. e.visit \in Visit /\ Fits(e, inst[e.visit])
                BY <3>1, SiteAssumption DEF Inv, Shape, Addressed, IsCall, Visit
            <4> QED BY <2>1, <4>1 DEF Fits
        <3>2. CASE e \notin calls
            <4>1. e.kind = "refresh" /\ e.visit = c.visit /\ x.page \in {"bots", "server"}
                BY <1>3, <1>4, <3>2
            <4> QED BY <1>3, <4>1 DEF Fits, BotKind, TreeKind
        <3> QED BY <3>1, <3>2
    <2> QED BY <2>2, <2>3 DEF Addressed
<1>8. Watched'
    <2>1. CASE c.visit # cur
        <3>1. inst'[cur] = inst[cur]
            BY <1>3, <2>1 DEF Inv, Shape
        <3> QED BY <1>2, <3>1 DEF Inv, Watched, Connecting
    <2>2. CASE c.visit = cur /\ x.page # "bots"
        BY <1>2, <1>3, <2>2 DEF Watched
    <2>3. CASE c.visit = cur /\ BotsDone(c)
        <3>1. /\ c.state = "ok" => /\ y.has <=> Connecting(c.res)
                                   /\ y.shown = c.res
                                   /\ y.has => y.ticker
              /\ c.state # "ok" => /\ y.has = x.has /\ y.shown = x.shown
                                   /\ x.ticker /\ x.has => y.ticker
            BY <2>3, BotsDoneIs DEF Inv
        <3>2. CASE c.state = "ok"
            BY <1>2, <2>3, <3>1, <3>2 DEF Watched, Connecting
        <3>3. CASE c.state # "ok"
            BY <1>2, <1>3, <2>3, <3>1, <3>3 DEF Inv, Watched, Connecting
        <3> QED BY <3>2, <3>3
    <2>4. CASE c.visit = cur /\ x.page = "bots" /\ CommandDone(c)
        <3>1. y.has = x.has /\ y.shown = x.shown /\ (x.ticker => y.ticker)
            BY <2>4, CommandDoneIs DEF Inv
        <3> QED BY <1>2, <1>3, <2>4, <3>1 DEF Inv, Watched, Connecting
    <2>5. x.page = "bots" => BotsDone(c) \/ CommandDone(c)
        BY DEF Resume, OverviewDone, TreeDone, LoginDone, Inv, Addressed, Fits
    <2> QED BY <2>1, <2>2, <2>3, <2>4, <2>5
<1> QED BY <1>6, <1>7, <1>8 DEF Inv

LEMMA StepInv ==
    ASSUME Inv, [Next]_vars
    PROVE  Inv'
<1>1. CASE User
    BY <1>1, OpenInv, TypeInv, ClickInv DEF User
<1>2. CASE \E i \in Visit : Tick(i)
    BY <1>2, TickInv
<1>3. ASSUME NEW c \in calls, Serve(c) PROVE Inv'
    BY <1>3, ServeIs, AnswerInv DEF Inv
<1>4. ASSUME NEW c \in calls, Fail(c) PROVE Inv'
    BY <1>4, FailIs, AnswerInv DEF Inv
<1>5. ASSUME NEW c \in calls, Resume(c) PROVE Inv'
    BY <1>5, ResumeInv
<1>6. ASSUME Alike, UNCHANGED <<calls, cur, clicks>>, time' \in Nat PROVE Inv'
    <2>1. Shape'
        <3>1. \A i \in Visit : /\ IsInst(inst'[i]) /\ inst'[i].at <= inst'[i].newest
                               /\ inst'[i].ticker => i <= cur
            BY <1>6 DEF Inv, Shape, Alike
        <3> QED BY <1>6, <3>1 DEF Inv, Shape, Alike
    <2>2. Addressed'
        <3>1. \A c \in calls : c.visit \in Visit
            BY SiteAssumption DEF Inv, Shape, IsCall, Visit
        <3> QED BY <1>6, <3>1 DEF Inv, Addressed, Alike, Fits
    <2> QED BY <1>6, <2>1, <2>2, AlikeWatched DEF Inv
<1>7. CASE \E b \in Bot : Resolve(b)
    BY <1>6, <1>7, SameIsAlike, BecomesTime DEF Resolve, Inv
<1>8. CASE Foreign
    <2>1. Alike
        BY <1>8, SurprisedIsAlike DEF Foreign, Inv
    <2>2. time' \in Nat
        BY Zenon, <1>8, BecomesTime DEF Foreign, Inv
    <2> QED BY <1>6, <1>8, <2>1, <2>2 DEF Foreign, Trouble
<1>9. CASE UNCHANGED vars
    BY <1>6, <1>9, SameIsAlike DEF Inv, Shape
<1> QED BY <1>1, <1>2, <1>3, <1>4, <1>5, <1>7, <1>8, <1>9 DEF Next

\* A list of bots that shows one connecting is polled, whatever the order in
\* which the requests are answered, fail, and their continuations run.
THEOREM Polled == Spec => []ConnectingIsPolled
<1>1. Inv => ConnectingIsPolled
    BY DEF Inv, Watched, ConnectingIsPolled
<1> QED BY <1>1, InitInv, StepInv, PTL DEF Spec

-----------------------------------------------------------------------------
(* The login: the last try decides, or there is an excuse *)

\* The server answers a try for what it is.
Answers ==
    \A c \in calls : c.kind = "login" => /\ c.state = "ok" => c.arg \in Good
                                         /\ c.state = "failed" => c.arg \notin Good

\* The try c, of the login in force, is the last of its page.
Latest(c) ==
    /\ c.visit = cur /\ c.arg = auth /\ inst[cur].newest <= c.at
    /\ \A d \in calls : d.visit = cur /\ d # c => d.at < c.at

\* The last try has been answered, or has been overtaken by none.
Settled ==
    /\ ~inst[cur].excused => inst[cur].shown \in BOOLEAN /\ (inst[cur].shown <=> auth \in Good)
    /\ \A c \in calls : c.visit = cur => c.at < inst[cur].newest

Tried ==
    inst[cur].page = "home" =>
        /\ inst[cur].newest <= clicks /\ \A c \in calls : c.visit = cur => c.at <= clicks
        /\ Settled \/ \E c \in calls : Latest(c)

LoginInv == Inv /\ Answers /\ Tried

LEMMA InitLogin == Init => LoginInv
<1> SUFFICES ASSUME Init PROVE LoginInv
    OBVIOUS
<1>1. Inv
    BY InitInv
<1>2. PICK page \in First :
         /\ inst = [i \in Visit |-> IF i = 1 THEN Page(page) ELSE Blank]
         /\ auth \in IF page = "home" THEN Cred \cup {Anonymous} ELSE {Anonymous}
         /\ calls = IF page \in {"bots", "server"} THEN {Request(1, 1, "refresh", None)}
                     ELSE IF page = "home" /\ auth # Anonymous THEN {Request(1, 1, "login", auth)}
                     ELSE {}
    BY DEF Init
<1>3. cur = 1 /\ 1 \in Visit /\ inst[1] = Page(page) /\ clicks = 0
    BY <1>2, SiteAssumption DEF Init, Visit
<1>4. /\ inst[1].page = page /\ inst[1].newest = 0
      /\ page = "home" => inst[1].shown = FALSE
    <2>1. /\ Page(page).page = page /\ Page(page).newest = 0
          /\ page = "home" => Page(page).shown = FALSE
        BY PageIs
    <2> QED BY <1>3, <2>1
<1>5. \A c \in calls : c.state = "sent" /\ c.at = 0 /\ c.visit = 1
    BY <1>2, RequestIs
<1>6. Answers
    BY <1>5 DEF Answers
<1>7. Tried
    <2>1. CASE page = "home" /\ auth # Anonymous
        <3> DEFINE d == Request(1, 1, "login", auth)
        <3>1. calls = {d} /\ d.arg = auth /\ d.visit = 1 /\ d.at = 0
            BY <1>2, <2>1, RequestIs
        <3>2. inst[1].newest = 0
            BY <1>4
        <3> HIDE DEF d
        <3> QED BY <1>3, <3>1, <3>2 DEF Tried, Latest
    <2>2. CASE page = "home" /\ auth = Anonymous
        <3>1. calls = {}
            BY <1>2, <2>2
        <3>2. inst[1].newest = 0 /\ inst[1].shown = FALSE
            BY <1>4, <2>2
        <3>3. auth \notin Good
            BY <2>2, SiteAssumption
        <3>4. inst[1].shown \in BOOLEAN /\ (inst[1].shown <=> auth \in Good)
            BY Zenon, <3>2, <3>3
        <3>5. Settled
            BY Zenon, <1>3, <3>1, <3>4 DEF Settled
        <3> QED BY <1>3, <3>1, <3>2, <3>5 DEF Tried
    <2>3. CASE page # "home"
        <3>1. inst[1].page # "home"
            BY <1>4, <2>3
        <3> QED BY <1>3, <3>1 DEF Tried
    <2> QED BY <2>1, <2>2, <2>3
<1> QED BY <1>1, <1>6, <1>7 DEF LoginInv

\* Steps that leave the requests of the open page alone.
LEMMA OthersTried ==
    ASSUME Tried, UNCHANGED <<cur, auth, clicks>>, inst'[cur].page = inst[cur].page,
           inst[cur].page = "home" =>
              /\ inst'[cur].newest = inst[cur].newest /\ inst'[cur].shown = inst[cur].shown
              /\ inst[cur].excused => inst'[cur].excused
              /\ \A c : c \in calls' /\ c.visit = cur <=> c \in calls /\ c.visit = cur
    PROVE  Tried'
<1> SUFFICES ASSUME inst[cur].page = "home"
             PROVE  Tried'
    BY DEF Tried
<1>1. ASSUME Settled PROVE Settled'
    BY <1>1 DEF Settled
<1>2. ASSUME NEW c \in calls, Latest(c) PROVE c \in calls' /\ Latest(c)'
    BY <1>2 DEF Latest
<1> QED BY <1>1, <1>2 DEF Tried

\* The server answers the request c, or it is lost.
LEMMA AnswerLogin ==
    ASSUME LoginInv, Alike, UNCHANGED <<cur, auth, clicks>>, NEW c \in calls, NEW d, Became(c, d)
    PROVE  Answers' /\ Tried'
<1>1. /\ calls' = (calls \ {c}) \cup {d}
      /\ d.n = c.n /\ d.visit = c.visit /\ d.kind = c.kind /\ d.arg = c.arg
      /\ c.kind = "login" => /\ d.at = c.at
                             /\ d.state = "ok" => c.arg \in Good
                             /\ d.state = "failed" => c.arg \notin Good
    BY DEF Became
<1>2. Answers'
    BY <1>1 DEF LoginInv, Answers
<1> SUFFICES Tried'
    BY <1>2
<1>3. /\ inst'[cur].page = inst[cur].page
      /\ inst'[cur].newest = inst[cur].newest /\ inst'[cur].shown = inst[cur].shown
      /\ inst[cur].excused => inst'[cur].excused
    BY DEF LoginInv, Inv, Shape, Alike
<1>4. CASE c.visit # cur
    BY <1>1, <1>3, <1>4, OthersTried DEF LoginInv
<1>5. CASE inst[cur].page # "home"
    BY <1>3, <1>5 DEF Tried
<1>6. CASE c.visit = cur /\ inst[cur].page = "home"
    <2>1. d.at = c.at
        BY <1>1, <1>6 DEF LoginInv, Inv, Addressed, Fits
    <2>2. ASSUME Settled PROVE Settled'
        BY <1>1, <1>3, <2>1, <2>2 DEF Settled
    <2>3. ASSUME NEW e \in calls, Latest(e) PROVE \E f \in calls' : Latest(f)'
        <3> DEFINE f == IF e = c THEN d ELSE e
        <3>1. f \in calls' /\ f.at = e.at /\ f.visit = e.visit /\ f.arg = e.arg
            BY <1>1, <2>1
        <3>2. ASSUME NEW g \in calls', g.visit = cur, g # f PROVE g.at < f.at
            BY <1>1, <2>1, <2>3, <3>1, <3>2 DEF Latest
        <3> HIDE DEF f
        <3>3. Latest(f)'
            BY <1>3, <2>3, <3>1, <3>2 DEF Latest
        <3> QED BY <3>1, <3>3
    <2> QED BY <1>1, <1>3, <1>6, <2>1, <2>2, <2>3 DEF LoginInv, Tried
<1> QED BY <1>4, <1>5, <1>6

LEMMA ResumeLogin ==
    ASSUME LoginInv, NEW c \in calls, Resume(c)
    PROVE  Answers' /\ Tried'
<1> DEFINE x == inst[cur]
           y == inst'[cur]
           d == Request(c.n, c.visit, "refresh", None)
<1>1. UNCHANGED <<cur, auth, clicks>> /\ c.state # "sent" /\ cur \in Visit
    BY DEF Resume, LoginInv, Inv, Shape
<1>2. /\ \A i \in Visit : i # c.visit => inst'[i] = inst[i]
      /\ inst'[c.visit].page = inst[c.visit].page
      /\ \/ calls' = calls \ {c}
         \/ calls' = (calls \ {c}) \cup {d} /\ inst[c.visit].page \in {"bots", "server"}
    BY ResumeIs DEF LoginInv, Inv
<1>3. d.visit = c.visit /\ d.kind = "refresh"
    BY RequestIs
<1> HIDE DEF d
<1>4. Answers'
    BY <1>2, <1>3 DEF LoginInv, Answers
<1> SUFFICES Tried'
    BY <1>4
<1>5. y.page = x.page
    BY <1>1, <1>2
<1>6. CASE x.page # "home"
    BY <1>1, <1>5, <1>6 DEF Tried
<1>7. CASE c.visit # cur
    <2>1. inst'[cur] = inst[cur]
        BY <1>1, <1>2, <1>7
    <2>2. \A e : e \in calls' /\ e.visit = cur <=> e \in calls /\ e.visit = cur
        BY <1>2, <1>3, <1>7
    <2> QED BY <1>1, <2>1, <2>2, OthersTried DEF LoginInv
<1>8. CASE c.visit = cur /\ x.page = "home"
    <2>1. c.kind = "login" /\ calls' = calls \ {c} /\ c.at \in Nat /\ c.state \in States
        BY <1>2, <1>8 DEF LoginInv, Inv, Addressed, Fits, Shape, IsCall
    <2>2. LoginDone(c)
        BY <1>8, <2>1 DEF Resume, BotsDone, OverviewDone, TreeDone, CommandDone, BotKind, TreeKind
    <2>3. /\ y.shown <=> c.state = "ok"
          /\ y.shown \in BOOLEAN
          /\ y.newest = IF c.at > x.newest THEN c.at ELSE x.newest
          /\ y.excused <=> c.at < x.newest \/ c.state = "lost"
        BY <1>8, <2>2, LoginDoneIs DEF LoginInv, Inv
    <2>4. /\ x.newest \in Nat /\ clicks \in Nat /\ \A e \in calls : e.at \in Nat
          /\ x.newest <= clicks /\ \A e \in calls : e.visit = cur => e.at <= clicks
        BY <1>1, <1>8 DEF LoginInv, Inv, Shape, IsInst, IsCall, Tried
    <2>5. y.newest <= clicks /\ \A e \in calls' : e.visit = cur => e.at <= clicks
        BY <1>8, <2>1, <2>3, <2>4
    <2>6. ASSUME Settled PROVE Settled'
        BY <1>1, <1>8, <2>1, <2>3, <2>4, <2>6 DEF Settled
    <2>7. ASSUME Latest(c) PROVE Settled'
        <3>1. y.newest = c.at /\ (y.excused <=> c.state = "lost") /\ c.arg = auth
            BY <2>1, <2>3, <2>4, <2>7 DEF Latest
        <3>2. ~y.excused => (y.shown <=> auth \in Good)
            BY <1>1, <2>1, <2>3, <3>1 DEF LoginInv, Answers, States
        <3>3. \A e \in calls' : e.visit = cur => e.at < y.newest
            BY <2>1, <2>7, <3>1 DEF Latest
        <3> QED BY <1>1, <2>3, <3>2, <3>3 DEF Settled
    <2>8. ASSUME NEW e \in calls, e # c, Latest(e) PROVE e \in calls' /\ Latest(e)'
        <3>1. c.at < e.at /\ x.newest <= e.at /\ e.visit = cur /\ e.arg = auth
            BY <1>8, <2>8 DEF Latest
        <3>2. y.newest <= e.at
            BY <2>1, <2>3, <2>4, <3>1
        <3> QED BY <1>1, <2>1, <2>8, <3>1, <3>2 DEF Latest
    <2>9. Settled \/ \E e \in calls : Latest(e)
        BY <1>8 DEF LoginInv, Tried
    <2>10. Settled' \/ \E e \in calls' : Latest(e)'
        BY <2>6, <2>7, <2>8, <2>9
    <2> QED BY <1>1, <2>5, <2>10 DEF Tried
<1> QED BY <1>6, <1>7, <1>8

LEMMA OpenLogin ==
    ASSUME LoginInv, NEW page \in Later, Open(page)
    PROVE  Answers' /\ Tried'
<1> DEFINE v == cur + 1
           d == Request(Free, v, "login", auth)
<1>1. cur' = v /\ v \in Visit /\ UNCHANGED <<auth, clicks>>
      /\ clicks \in Nat /\ \A c \in calls : c.visit # v
    <2>1. \A c \in calls : c.visit \in 1 .. cur
        BY DEF LoginInv, Inv, Shape, IsCall
    <2> QED BY <2>1, SiteAssumption DEF Open, LoginInv, Inv, Shape, Visit
<1>2. inst'[v] = Page(page)
    BY <1>1 DEF Open, LoginInv, Inv, Shape
<1>3. /\ inst'[v].page = page /\ inst'[v].newest = 0
      /\ page = "home" => inst'[v].shown = FALSE
    <2>1. /\ Page(page).page = page /\ Page(page).newest = 0
          /\ page = "home" => Page(page).shown = FALSE
        BY PageIs
    <2> QED BY <1>2, <2>1
<1>4. d.visit = v /\ d.arg = auth /\ d.at = 0 /\ d.state = "sent"
    BY RequestIs
<1>5. \A c \in calls' : c \in calls \/ c.state = "sent"
    <2>1. ASSUME NEW kind, NEW arg, Ask(v, kind, arg)
          PROVE  \A c \in calls' : c \in calls \/ c.state = "sent"
        BY <2>1, RequestIs DEF Ask
    <2> QED BY <2>1 DEF Open
<1>6. Answers'
    BY <1>5 DEF LoginInv, Answers
<1>7. Tried'
    <2>1. CASE page = "home" /\ auth # Anonymous
        <3>1. calls' = calls \cup {d}
            BY <2>1 DEF Open, Ask
        <3> HIDE DEF d, v
        <3>2. \A c \in calls' : c.visit = v => c = d
            BY <1>1, <3>1
        <3>3. ASSUME NEW e \in calls', e = d PROVE Latest(e)'
            BY <1>1, <1>3, <1>4, <3>2, <3>3 DEF Latest
        <3>4. \E e \in calls' : Latest(e)'
            BY <3>1, <3>3
        <3>5. \A c \in calls' : c.visit = v => c.at <= clicks
            BY <1>1, <1>4, <3>2
        <3> QED BY <1>1, <1>3, <3>4, <3>5 DEF Tried
    <2>2. CASE page = "home" /\ auth = Anonymous
        <3>1. calls' = calls
            BY <2>2 DEF Open
        <3>2. auth' \notin Good
            BY <1>1, <2>2, SiteAssumption
        <3>3. inst'[v].shown \in BOOLEAN /\ (inst'[v].shown <=> auth' \in Good)
            BY Zenon, <1>3, <2>2, <3>2
        <3>4. \A c \in calls' : c.visit # v
            BY <1>1, <3>1
        <3> HIDE DEF v
        <3>5. Settled'
            BY Zenon, <1>1, <3>3, <3>4 DEF Settled
        <3> QED BY <1>1, <1>3, <3>4, <3>5 DEF Tried
    <2>3. CASE page # "home"
        BY <1>1, <1>3, <2>3 DEF Tried
    <2> QED BY <2>1, <2>2, <2>3
<1> QED BY <1>6, <1>7

\* A new login is tried with a number of its own, above those of the tries before.
LEMMA TypeLogin ==
    ASSUME LoginInv, NEW cred \in Cred, Type(cred)
    PROVE  Answers' /\ Tried'
<1> DEFINE q == Request(Free, cur, "login", cred)
           d == [q EXCEPT !.at = clicks']
<1>1. /\ clicks' = clicks + 1 /\ clicks \in Nat /\ auth' = cred
      /\ UNCHANGED <<cur, inst>> /\ inst[cur].page = "home"
    BY DEF Type, Click, LoginInv, Inv, Shape
<1>2. calls' = calls \cup {d}
    BY Zenon DEF Type
<1>3. d.visit = cur /\ d.arg = cred /\ d.state = "sent" /\ d.at = clicks'
    BY DEF Request
<1> HIDE DEF d
<1>4. Answers'
    BY <1>2, <1>3 DEF LoginInv, Answers
<1>5. /\ inst[cur].newest <= clicks /\ inst[cur].newest \in Nat
      /\ \A c \in calls : c.at \in Nat /\ (c.visit = cur => c.at <= clicks)
    BY <1>1 DEF LoginInv, Tried, Inv, Shape, IsInst, IsCall
<1>6. ASSUME NEW e \in calls', e = d PROVE Latest(e)'
    BY <1>1, <1>2, <1>3, <1>5, <1>6 DEF Latest
<1>7. \E e \in calls' : Latest(e)'
    BY <1>2, <1>6
<1>8. inst'[cur].newest <= clicks' /\ \A c \in calls' : c.visit = cur => c.at <= clicks'
    BY <1>1, <1>2, <1>3, <1>5
<1> QED BY <1>1, <1>4, <1>7, <1>8 DEF Tried

\* The other requests a page makes are not tries.
LEMMA AskLogin ==
    ASSUME LoginInv, NEW i \in Visit, NEW kind, NEW arg, Ask(i, kind, arg),
           UNCHANGED <<inst, cur, auth>>, kind # "login", inst[i].page # "home",
           UNCHANGED clicks \/ inst[cur].page # "home"
    PROVE  Answers' /\ Tried'
<1> DEFINE d == Request(Free, i, kind, arg)
<1>1. calls' = calls \cup {d} /\ d.kind = kind /\ d.visit = i
    BY RequestIs DEF Ask
<1> HIDE DEF d
<1>2. Answers'
    BY <1>1 DEF LoginInv, Answers
<1> SUFFICES Tried'
    BY <1>2
<1>3. CASE inst[cur].page # "home"
    BY <1>3 DEF Tried
<1>4. CASE inst[cur].page = "home" /\ UNCHANGED clicks
    <2>1. \A e : e \in calls' /\ e.visit = cur <=> e \in calls /\ e.visit = cur
        BY <1>1, <1>4
    <2> QED BY <1>4, <2>1, OthersTried DEF LoginInv
<1> QED BY <1>3, <1>4

LEMMA StepLogin ==
    ASSUME LoginInv, [Next]_vars
    PROVE  LoginInv'
<1> SUFFICES Answers' /\ Tried'
    BY StepInv DEF LoginInv
<1>1. CASE \E page \in Later : Open(page)
    BY <1>1, OpenLogin
<1>2. CASE \E cred \in Cred : Type(cred)
    BY <1>2, TypeLogin
<1>3. CASE \/ \E kind \in BotKind, b \in Bot : BotClick(kind, b)
           \/ \E kind \in TreeKind, ch \in Channel : TreeClick(kind, ch)
    <2>1. PICK kind, arg : /\ Ask(cur, kind, arg) /\ UNCHANGED <<inst, cur, auth>>
                           /\ kind \in BotKind \cup TreeKind /\ inst[cur].page \in {"bots", "server"}
        <3>1. CASE \E kind \in BotKind, b \in Bot : BotClick(kind, b)
            BY Zenon, <3>1 DEF BotClick, Click
        <3>2. CASE \E kind \in TreeKind, ch \in Channel : TreeClick(kind, ch)
            BY Zenon, <3>2 DEF TreeClick, Click
        <3> QED BY <1>3, <3>1, <3>2
    <2>2. kind # "login" /\ cur \in Visit
        BY <2>1 DEF BotKind, TreeKind, LoginInv, Inv, Shape
    <2> QED BY <2>1, <2>2, AskLogin
<1>4. ASSUME Alike, UNCHANGED <<calls, cur, auth, clicks>> PROVE Answers' /\ Tried'
    <2>1. LET x == inst[cur]
              y == inst'[cur]
          IN  /\ y.page = x.page /\ y.newest = x.newest /\ y.shown = x.shown
              /\ x.excused => y.excused
        BY <1>4 DEF Alike, LoginInv, Inv, Shape
    <2>2. Answers'
        BY <1>4 DEF LoginInv, Answers
    <2> QED BY <1>4, <2>1, <2>2, OthersTried DEF LoginInv
<1>5. ASSUME NEW i \in Visit, Tick(i) PROVE Answers' /\ Tried'
    <2>1. CASE Ask(i, "tick", None) /\ UNCHANGED inst
        <3>1. inst[i].page # "home" /\ UNCHANGED <<cur, auth, clicks>>
            BY <1>5 DEF Tick, LoginInv, Inv, Addressed
        <3> QED BY <2>1, <3>1, AskLogin
    <2>2. CASE inst' = [inst EXCEPT ![i].ticker = FALSE] /\ UNCHANGED calls
        <3>1. LET x == inst[cur]
                  y == inst'[cur]
              IN  /\ y.page = x.page /\ y.newest = x.newest /\ y.shown = x.shown
                  /\ x.excused => y.excused
            <4>1. inst'[cur] \in {inst[cur], [inst[cur] EXCEPT !.ticker = FALSE]} /\ IsInst(inst[cur])
                BY <1>5, <2>2 DEF LoginInv, Inv, Shape
            <4> QED BY <4>1 DEF IsInst
        <3>2. UNCHANGED <<cur, auth, clicks>>
            BY <1>5 DEF Tick
        <3>3. Answers'
            BY <2>2 DEF LoginInv, Answers
        <3> QED BY <2>2, <3>1, <3>2, <3>3, OthersTried DEF LoginInv
    <2> QED BY <1>5, <2>1, <2>2 DEF Tick
<1>6. ASSUME NEW c \in calls, Serve(c) PROVE Answers' /\ Tried'
    BY <1>6, ServeIs, AnswerLogin DEF LoginInv, Inv
<1>7. ASSUME NEW c \in calls, Fail(c) PROVE Answers' /\ Tried'
    BY <1>7, FailIs, AnswerLogin DEF LoginInv, Inv
<1>8. ASSUME NEW c \in calls, Resume(c) PROVE Answers' /\ Tried'
    BY <1>8, ResumeLogin
<1>9. CASE \E b \in Bot : Resolve(b)
    BY <1>4, <1>9, SameIsAlike DEF Resolve, LoginInv, Inv
<1>10. CASE Foreign
    BY <1>4, <1>10, SurprisedIsAlike DEF Foreign, Trouble, LoginInv, Inv
<1>11. CASE UNCHANGED vars
    BY <1>4, <1>11, SameIsAlike DEF LoginInv, Inv
<1> QED BY <1>1, <1>2, <1>3, <1>5, <1>6, <1>7, <1>8, <1>9, <1>10, <1>11 DEF Next, User

\* When no try is under way, the login page says of the login in force whether
\* the server accepts it, however the tries overtook each other: unless the
\* last answer was an old one, or a try was lost.
THEOREM LoginSettled == Spec => []LoginRight
<1>1. LoginInv => LoginRight
    <2> SUFFICES ASSUME LoginInv, inst[cur].page = "home", Of(cur) = {}, ~inst[cur].excused
                 PROVE  inst[cur].shown = (auth \in Good)
        BY DEF LoginRight
    <2>1. \A c \in calls : c.visit # cur
        BY DEF Of
    <2>2. Settled
        BY <2>1 DEF LoginInv, Tried, Latest
    <2>3. inst[cur].shown \in BOOLEAN /\ (inst[cur].shown <=> auth \in Good)
        BY Zenon, <2>2 DEF Settled
    <2> DEFINE shown == inst[cur].shown
               right == auth \in Good
    <2>4. shown \in BOOLEAN /\ (shown <=> right)
        BY Zenon, <2>3
    <2>5. right \in BOOLEAN
        OBVIOUS
    <2>6. shown = right
        <3> HIDE DEF shown, right
        <3>1. CASE shown = TRUE
            BY Zenon, <2>4, <2>5, <3>1
        <3>2. CASE shown = FALSE
            BY Zenon, <2>4, <2>5, <3>2
        <3> QED BY <2>4, <3>1, <3>2
    <2> QED BY Zenon, <2>6
<1> QED BY <1>1, InitLogin, StepLogin, PTL DEF Spec

-----------------------------------------------------------------------------
(* The server, the lists it has given out, and the ids in the requests *)

Fetch == {"refresh", "tick"}

IsRow(r) ==
    /\ r \in [stat : Status, named : BOOLEAN, id : Id \cup {0}]
    /\ r.id # 0 <=> r.stat \in Running

\* The bots that run, and they alone, have ids, and no two the same.
IsList(s) ==
    /\ s = [b \in Bot |-> s[b]] /\ \A b \in Bot : IsRow(s[b])
    /\ \A a, b \in Bot : s[a].id = s[b].id /\ s[a].id # 0 => a = b

IsTree(t) == t \in [chan : Channel, mode : {"voice", "whisper"}, subs : SUBSET Channel]

Server ==
    /\ IsList(bots) /\ time \in Nat /\ moved \in Nat /\ moved <= time
    /\ IsTree(tree) /\ auth \in Cred \cup {Anonymous}

\* The server, which has the bots list now and gave the last id out at the time
\* last, had the bots s at the time at: until ids are given out again, a bot
\* that has one has the one it had then.
Snapshot(s, at, list, last, now) ==
    /\ IsList(s) /\ at \in Nat /\ at <= now
    /\ last <= at => \A b \in Bot : list[b].id \in {0, s[b].id}
    /\ at = now => s = list

\* The id of arg was the one of its bot when the list was made.
Aims(arg, list, last, now) ==
    /\ arg.seen \in Nat /\ arg.seen <= now
    /\ last <= arg.seen => \A b \in Bot : list[b].id = arg.id /\ arg.id # 0 => b = arg.bot

Meant(c, list, last, now) ==
    /\ c.kind \in BotKind => c.arg.bot \in Bot
    /\ c.kind \in TreeKind => c.arg.chan \in Channel
    /\ c.kind = "stop" => Aims(c.arg, list, last, now)

\* What the page shows was the server's list, and so are the answers it will get.
Shows(x, list, last, now) ==
    /\ x.newest <= now
    /\ x.shown # None \/ ~x.excused => Snapshot(x.shown, x.at, list, last, now)

Gets(c, list, last, now) ==
    c.kind \in Fetch /\ c.state = "ok" => Snapshot(c.res, c.at, list, last, now)

Truthful ==
    inst[cur].page = "bots" =>
        /\ Shows(inst[cur], bots, moved, time)
        /\ \A c \in Of(cur) : Gets(c, bots, moved, time)

ServerInv == Server /\ (\A c \in calls : Meant(c, bots, moved, time)) /\ Truthful /\ WrongBotHasCause

-----------------------------------------------------------------------------
(* Ids *)

\* There is no endless descent in the numbers.
LEMMA NatLess == IsWellFoundedOn({ss \in Nat \X Nat : ss[1] < ss[2]}, Nat)
    BY NatLessThanWellFounded DEF OpToRel
\* A set of numbers has a least one.
LEMMA Least ==
    ASSUME NEW T \in SUBSET Nat, T # {}
    PROVE  \E x \in T : \A y \in T : x <= y
<1> DEFINE R == {ss \in Nat \X Nat : ss[1] < ss[2]}
<1>1. IsWellFoundedOn(R, Nat)
    BY NatLess
<1>2. \A x, y \in Nat : y < x => <<y, x>> \in R
    OBVIOUS
<1> HIDE DEF R
<1>3. PICK x \in T : \A y \in T : ~ (<<y, x>> \in R)
    BY <1>1, WFMin
<1>4. ASSUME NEW y \in T PROVE x <= y
    <2>1. x \in Nat /\ y \in Nat
        OBVIOUS
    <2>2. ~(y < x)
        BY Zenon, <1>2, <1>3, <2>1
    <2> QED BY <2>1, <2>2
<1> QED BY <1>4

\* If one bot has no id, there is an id that no bot has.
LEMMA IdIsFree ==
    ASSUME IsList(bots), NEW b \in Bot, bots[b].id = 0
    PROVE  \E n \in Id : Holder(n) = {}
<1> SUFFICES ASSUME \A n \in Id : Holder(n) # {}
             PROVE  FALSE
    OBVIOUS
<1> DEFINE Others == Bot \ {b}
           of == [n \in Id |-> CHOOSE x \in Bot : bots[x].id = n]
<1>1. IsFiniteSet(Bot) /\ Cardinality(Bot) \in Nat
    BY SiteAssumption, FS_CardinalityType
<1>2. IsFiniteSet(Others) /\ Cardinality(Others) = Cardinality(Bot) - 1
    BY <1>1, FS_RemoveElement
<1>3. Cardinality(Bot) > 0
    BY <1>1, FS_EmptySet
<1>4. IsFiniteSet(Id) /\ Cardinality(Id) = Cardinality(Bot)
    BY <1>1, <1>3, FS_Interval DEF Id
<1>5. \A n \in Id : n # 0 /\ \E x \in Bot : bots[x].id = n
    BY DEF Holder, Id
<1>6. \A n \in Id : of[n] \in Bot /\ bots[of[n]].id = n
    BY <1>5
<1>7. of \in [Id -> Others]
    <2>1. \A n \in Id : of[n] # b
        BY <1>5, <1>6
    <2>2. \A n \in Id : of[n] \in Others
        BY <1>6, <2>1
    <2>3. of = [n \in Id |-> of[n]]
        OBVIOUS
    <2> HIDE DEF of, Others
    <2> QED BY <2>2, <2>3
<1> HIDE DEF of, Others
<1>8. \E m, n \in Id : m # n /\ of[m] = of[n]
    BY <1>1, <1>2, <1>4, <1>7, FS_PigeonHole
<1> QED BY <1>6, <1>8

\* Then GetFreeId finds the first of them.
LEMMA StartedIs ==
    ASSUME IsList(bots), NEW b \in Bot, bots[b].id = 0
    PROVE  LET r == Started(bots[b])
           IN  /\ r \in [stat : Status, named : BOOLEAN, id : Id \cup {0}]
               /\ r.stat = "connecting" /\ r.id # 0 /\ r.named = bots[b].named
               /\ \A x \in Bot : bots[x].id # r.id
<1> DEFINE F == {n \in Id : Holder(n) = {}}
           least(n) == Holder(n) = {} /\ \A m \in 1 .. n - 1 : Holder(m) # {}
           n == CHOOSE n \in Id : least(n)
<1>1. F \in SUBSET Nat /\ F # {}
    BY IdIsFree DEF Id
<1>2. PICK k \in F : \A m \in F : k <= m
    BY <1>1, Least
<1>3. k \in Id /\ least(k)
    <2>1. k \in Id /\ Cardinality(Bot) \in Nat
        BY SiteAssumption, FS_CardinalityType
    <2>2. ASSUME NEW m \in 1 .. k - 1, Holder(m) = {}
          PROVE  FALSE
        <3>1. m \in Id
            BY <2>1 DEF Id
        <3> QED BY <1>2, <2>1, <2>2, <3>1 DEF Id
    <2> QED BY <2>1, <2>2
<1>4. n \in Id /\ Holder(n) = {}
    BY <1>3
<1>5. Started(bots[b]) = [bots[b] EXCEPT !.stat = "connecting", !.id = n]
    BY Zenon DEF Started
<1> HIDE DEF n, F
<1>6. bots[b] \in [stat : Status, named : BOOLEAN, id : Id \cup {0}]
    BY DEF IsList, IsRow
<1>7. n # 0
    BY <1>4 DEF Id
<1>8. \A x \in Bot : bots[x].id # n
    BY <1>4, <1>7 DEF Holder
<1>9. "connecting" \in Status
    BY DEF Status
<1>10. /\ Started(bots[b]) \in [stat : Status, named : BOOLEAN, id : Id \cup {0}]
       /\ Started(bots[b]).stat = "connecting" /\ Started(bots[b]).id = n
       /\ Started(bots[b]).named = bots[b].named
    BY <1>4, <1>5, <1>6, <1>9
<1> QED BY <1>7, <1>8, <1>10

-----------------------------------------------------------------------------
(* What becomes of the bots and the tree *)

\* A bot is changed; an id it gets is one that no bot has.
LEMMA RowSet ==
    ASSUME NEW s, IsList(s), NEW b \in Bot, NEW r, IsRow(r),
           r.id \in {0, s[b].id} \/ \A x \in Bot : s[x].id # r.id
    PROVE  IsList([s EXCEPT ![b] = r])
<1> DEFINE t == [s EXCEPT ![b] = r]
<1>1. t = [x \in Bot |-> t[x]] /\ t[b] = r /\ \A x \in Bot : x # b => t[x] = s[x]
    BY DEF IsList
<1> HIDE DEF t
<1>2. \A x \in Bot : IsRow(t[x])
    BY <1>1 DEF IsList
<1>3. ASSUME NEW x \in Bot, NEW y \in Bot, t[x].id = t[y].id, t[x].id # 0
      PROVE  x = y
    <2>1. CASE x # b /\ y # b
        BY <1>1, <1>3, <2>1 DEF IsList
    <2>2. CASE x = b
        BY <1>1, <1>3, <2>2 DEF IsList
    <2>3. CASE y = b
        BY <1>1, <1>3, <2>3 DEF IsList
    <2> QED BY <2>1, <2>2, <2>3
<1>4. IsList(t)
    BY <1>1, <1>2, <1>3 DEF IsList
<1> QED BY <1>4 DEF t

LEMMA StoppedIs ==
    ASSUME NEW r, IsRow(r)
    PROVE  IsRow(Stopped(r)) /\ Stopped(r).id = 0
<1> DEFINE s == IF r.named THEN "offline" ELSE "none"
<1>1. Stopped(r) = [r EXCEPT !.stat = s, !.id = 0]
    BY DEF Stopped
<1>2. s \in {"offline", "none"}
    OBVIOUS
<1> HIDE DEF s
<1> QED BY <1>1, <1>2 DEF IsRow, Status, Running

LEMMA StartIs ==
    ASSUME IsList(bots), NEW b \in Bot, bots[b].stat \notin Running
    PROVE  IsList([bots EXCEPT ![b] = Started(@)])
<1> DEFINE r == Started(bots[b])
<1>1. bots[b].id = 0
    BY DEF IsList, IsRow
<1>2. IsRow(r) /\ \A x \in Bot : bots[x].id # r.id
    BY <1>1, StartedIs DEF IsRow, Running
<1> HIDE DEF r
<1>3. IsList([bots EXCEPT ![b] = r])
    BY <1>2, RowSet
<1>4. [bots EXCEPT ![b] = Started(@)] = [bots EXCEPT ![b] = r]
    BY Zenon DEF r
<1> QED BY <1>3, <1>4

LEMMA StopIs ==
    ASSUME IsList(bots), NEW id
    PROVE  IsList([b \in Bot |-> IF b \in Holder(id) THEN Stopped(bots[b]) ELSE bots[b]])
<1> DEFINE t == [b \in Bot |-> IF b \in Holder(id) THEN Stopped(bots[b]) ELSE bots[b]]
<1>1. t = [b \in Bot |-> t[b]] /\ \A b \in Bot : t[b] = Stopped(bots[b]) \/ t[b] = bots[b]
    OBVIOUS
<1> HIDE DEF t
<1>2. \A b \in Bot : IsRow(t[b]) /\ t[b].id \in {0, bots[b].id}
    BY <1>1, StoppedIs DEF IsList
<1>3. IsList(t)
    BY <1>1, <1>2 DEF IsList
<1> QED BY <1>3 DEF t

\* What a command makes of the bots.
LEMMA BotsAfterIs ==
    ASSUME IsList(bots), NEW c, c.kind \in BotKind => c.arg.bot \in Bot
    PROVE  IsList(BotsAfter(c)) /\ (c.kind \notin BotKind => BotsAfter(c) = bots)
<1> DEFINE b == c.arg.bot
<1>1. CASE c.kind = "start" /\ bots[b].stat = "offline"
    <2>1. b \in Bot /\ bots[b].stat \notin Running
        BY <1>1 DEF BotKind, Running
    <2>2. BotsAfter(c) = [bots EXCEPT ![b] = Started(@)]
        BY Zenon, <1>1 DEF BotsAfter
    <2>3. IsList([bots EXCEPT ![b] = Started(@)])
        BY <2>1, StartIs
    <2> QED BY <1>1, <2>2, <2>3 DEF BotKind
<1>2. CASE c.kind = "connect" /\ bots[b].stat = "none"
    <2>1. b \in Bot /\ bots[b].stat \notin Running
        BY <1>2 DEF BotKind, Running
    <2>2. BotsAfter(c) = [bots EXCEPT ![b] = Started(@)]
        BY <1>2 DEF BotsAfter
    <2>3. IsList([bots EXCEPT ![b] = Started(@)])
        BY <2>1, StartIs
    <2> QED BY <1>2, <2>2, <2>3 DEF BotKind
<1>3. CASE c.kind = "stop"
    <2>1. BotsAfter(c) = [x \in Bot |-> IF x \in Holder(c.arg.id) THEN Stopped(bots[x]) ELSE bots[x]]
        BY <1>3 DEF BotsAfter
    <2> QED BY <1>3, <2>1, StopIs DEF BotKind
<1>4. CASE c.kind = "create" /\ bots[b].stat = "none"
    <2> DEFINE r == [bots[b] EXCEPT !.named = TRUE, !.stat = "offline"]
    <2>1. b \in Bot /\ IsRow(bots[b])
        BY <1>4 DEF BotKind, IsList
    <2>2. BotsAfter(c) = [bots EXCEPT ![b].named = TRUE, ![b].stat = "offline"]
        BY <1>4 DEF BotsAfter
    <2>3. [bots EXCEPT ![b].named = TRUE, ![b].stat = "offline"] = [bots EXCEPT ![b] = r]
        BY <2>1 DEF IsList
    <2>4. IsRow(r) /\ r.id = bots[b].id
        BY <1>4, <2>1 DEF IsRow, Status, Running
    <2> HIDE DEF r
    <2>5. IsList([bots EXCEPT ![b] = r])
        BY <2>1, <2>4, RowSet
    <2> QED BY <1>4, <2>2, <2>3, <2>5 DEF BotKind
<1>5. CASE c.kind = "delete"
    <2> DEFINE s == IF bots[b].stat = "offline" THEN "none" ELSE bots[b].stat
               r == [bots[b] EXCEPT !.named = FALSE, !.stat = s]
    <2>1. b \in Bot /\ IsRow(bots[b])
        BY <1>5 DEF BotKind, IsList
    <2>2. BotsAfter(c) = [bots EXCEPT ![b].named = FALSE, ![b].stat = s]
        BY <1>5 DEF BotsAfter
    <2>3. s \in Status /\ (s \in Running <=> bots[b].stat \in Running)
        BY <2>1 DEF IsRow, Status, Running
    <2> HIDE DEF s
    <2>4. [bots EXCEPT ![b].named = FALSE, ![b].stat = s] = [bots EXCEPT ![b] = r]
        BY <2>1 DEF IsList
    <2>5. IsRow(r) /\ r.id = bots[b].id
        BY <2>1, <2>3 DEF IsRow
    <2> HIDE DEF r
    <2>6. IsList([bots EXCEPT ![b] = r])
        BY <2>1, <2>5, RowSet
    <2> QED BY <1>5, <2>2, <2>4, <2>6 DEF BotKind
<1>6. CASE /\ ~(c.kind = "start" /\ bots[b].stat = "offline")
           /\ ~(c.kind = "connect" /\ bots[b].stat = "none")
           /\ c.kind # "stop" /\ ~(c.kind = "create" /\ bots[b].stat = "none") /\ c.kind # "delete"
    <2>1. BotsAfter(c) = bots
        BY <1>6 DEF BotsAfter
    <2> QED BY <2>1
<1> QED BY <1>1, <1>2, <1>3, <1>4, <1>5, <1>6

LEMMA TreeAfterIs ==
    ASSUME IsTree(tree), NEW c, c.kind \in TreeKind => c.arg.chan \in Channel
    PROVE  IsTree(TreeAfter(c))
<1> DEFINE ch == c.arg.chan
<1>1. CASE c.kind = "move"
    BY <1>1 DEF TreeAfter, TreeKind, IsTree
<1>2. CASE c.kind = "whisper"
    <2> DEFINE m == IF c.arg.switch THEN "whisper" ELSE tree.mode
               u == tree.subs \cup {ch}
    <2>1. TreeAfter(c) = [tree EXCEPT !.mode = m, !.subs = u]
        BY Zenon, <1>2 DEF TreeAfter
    <2>2. m \in {"voice", "whisper"} /\ u \in SUBSET Channel
        BY <1>2 DEF TreeKind, IsTree
    <2> HIDE DEF m, u
    <2> QED BY <2>1, <2>2 DEF IsTree
<1>3. CASE c.kind = "quiet"
    <2> DEFINE u == tree.subs \ {ch}
    <2>1. TreeAfter(c) = [tree EXCEPT !.subs = u]
        BY <1>3 DEF TreeAfter
    <2>2. u \in SUBSET Channel
        BY DEF IsTree
    <2> HIDE DEF u
    <2> QED BY <2>1, <2>2 DEF IsTree
<1>4. CASE c.kind = "voice"
    <2>1. TreeAfter(c) = [tree EXCEPT !.mode = "voice"]
        BY <1>4 DEF TreeAfter
    <2> QED BY <2>1 DEF IsTree
<1>5. CASE c.kind \notin {"move", "whisper", "quiet", "voice"}
    <2>1. TreeAfter(c) = tree
        BY <1>5 DEF TreeAfter
    <2> QED BY <2>1
<1> QED BY <1>1, <1>2, <1>3, <1>4, <1>5

-----------------------------------------------------------------------------
(* What a change of the server leaves true *)

\* From the bots l at the time t, the last id given out at m, to those after.
Passes(l, m, t, l2, m2, t2) ==
    /\ t <= t2 /\ t2 \in Nat /\ m2 \in Nat
    /\ (m2 = m /\ \A b \in Bot : l2[b].id \in {0, l[b].id}) \/ t < m2
    /\ t2 = t => l2 = l

Passed == Passes(bots, moved, time, bots', moved', time')

LEMMA SnapshotStays ==
    ASSUME NEW s, NEW at, NEW l, NEW m \in Nat, NEW t \in Nat, NEW l2, NEW m2, NEW t2,
           Snapshot(s, at, l, m, t), Passes(l, m, t, l2, m2, t2)
    PROVE  Snapshot(s, at, l2, m2, t2)
<1>1. IsList(s) /\ at \in Nat /\ at <= t2 /\ (at = t2 => s = l2)
    BY DEF Snapshot, Passes
<1>2. m2 <= at => \A b \in Bot : l2[b].id \in {0, s[b].id}
    BY DEF Snapshot, Passes
<1> QED BY <1>1, <1>2 DEF Snapshot

LEMMA MeantStays ==
    ASSUME NEW c, NEW l, NEW m \in Nat, NEW t \in Nat, NEW l2, NEW m2, NEW t2,
           Meant(c, l, m, t), Passes(l, m, t, l2, m2, t2)
    PROVE  Meant(c, l2, m2, t2)
<1>1. ASSUME c.kind = "stop"
      PROVE  Aims(c.arg, l2, m2, t2)
    BY <1>1 DEF Meant, Aims, Passes
<1> QED BY <1>1 DEF Meant

\* What Becomes makes of the server.
LEMMA BecomesIs ==
    ASSUME Server, NEW b, NEW t, IsList(b), IsTree(t), Becomes(b, t), UNCHANGED auth
    PROVE  Server' /\ Passed
<1>1. /\ bots' = b /\ tree' = t
      /\ time' = IF b = bots THEN time ELSE time + 1
      /\ moved' = IF \E x \in Bot : b[x].id \notin {0, bots[x].id} THEN time' ELSE moved
    BY DEF Becomes
<1>2. time \in Nat /\ moved \in Nat /\ moved <= time
    BY DEF Server
<1>3. CASE b = bots
    BY <1>1, <1>2, <1>3 DEF Server, Passed, Passes
<1>4. CASE b # bots
    <2>1. time' = time + 1 /\ moved' \in {time', moved}
        BY <1>1, <1>4
    <2>2. time' \in Nat /\ moved' \in Nat /\ moved' <= time' /\ time <= time' /\ time' # time
        BY <1>2, <2>1
    <2>3. (moved' = moved /\ \A x \in Bot : b[x].id \in {0, bots[x].id}) \/ time < moved'
        BY <1>1, <1>2, <2>1
    <2> QED BY <1>1, <2>2, <2>3 DEF Server, Passed, Passes
<1> QED BY <1>3, <1>4

LEMMA SameServer ==
    ASSUME Server, UNCHANGED server, auth' \in Cred \cup {Anonymous}
    PROVE  Server' /\ Passed
    BY DEF Server, Passed, Passes

LEMMA StepPasses ==
    ASSUME Server, \A c \in calls : Meant(c, bots, moved, time), [Next]_vars
    PROVE  Server' /\ Passed
<1>0. IsList(bots) /\ IsTree(tree) /\ auth \in Cred \cup {Anonymous}
    BY DEF Server
<1>1. ASSUME NEW c \in calls, Becomes(BotsAfter(c), TreeAfter(c)), UNCHANGED auth
      PROVE  Server' /\ Passed
    BY <1>0, <1>1, BotsAfterIs, TreeAfterIs, BecomesIs DEF Meant
<1>2. CASE User
    BY <1>0, <1>2, SameServer DEF User, Open, Type, BotClick, TreeClick, Click
<1>3. CASE \E i \in Visit : Tick(i)
    BY <1>0, <1>3, SameServer DEF Tick
<1>4. ASSUME NEW c \in calls, Serve(c) PROVE Server' /\ Passed
    BY <1>0, <1>1, <1>4, SameServer DEF Serve
<1>5. ASSUME NEW c \in calls, Fail(c) PROVE Server' /\ Passed
    BY <1>0, <1>1, <1>5, SameServer DEF Fail, Trouble
<1>6. ASSUME NEW c \in calls, Resume(c) PROVE Server' /\ Passed
    BY <1>0, <1>6, SameServer DEF Resume
<1>7. ASSUME NEW b \in Bot, Resolve(b) PROVE Server' /\ Passed
    <2>1. PICK r \in {[bots[b] EXCEPT !.stat = "connected"], Stopped(bots[b])} :
             Becomes([bots EXCEPT ![b] = r], tree)
        BY <1>7 DEF Resolve
    <2>2. IsRow(bots[b]) /\ bots[b].stat = "connecting"
        BY <1>0, <1>7 DEF Resolve, IsList
    <2>3. IsRow(r) /\ r.id \in {0, bots[b].id}
        BY <2>1, <2>2, StoppedIs DEF IsRow, Status, Running
    <2>4. IsList([bots EXCEPT ![b] = r])
        BY <1>0, <2>3, RowSet
    <2> QED BY <1>0, <1>7, <2>1, <2>4, BecomesIs DEF Resolve
<1>8. CASE Foreign
    <2>1. UNCHANGED auth
        BY <1>8 DEF Foreign, Trouble
    <2>2. ASSUME NEW b \in Bot, bots[b].stat = "offline", Becomes([bots EXCEPT ![b] = Started(@)], tree)
          PROVE  Server' /\ Passed
        <3>1. IsList([bots EXCEPT ![b] = Started(@)])
            BY <1>0, <2>2, StartIs DEF Running
        <3> QED BY <1>0, <2>1, <2>2, <3>1, BecomesIs
    <2>3. ASSUME NEW b \in Bot, Becomes([bots EXCEPT ![b] = Stopped(@)], tree)
          PROVE  Server' /\ Passed
        <3> DEFINE r == Stopped(bots[b])
        <3>1. IsRow(r) /\ r.id = 0
            BY <1>0, StoppedIs DEF IsList
        <3> HIDE DEF r
        <3>2. IsList([bots EXCEPT ![b] = r])
            BY <1>0, <3>1, RowSet
        <3>3. Becomes([bots EXCEPT ![b] = r], tree)
            BY Zenon, <2>3 DEF r
        <3> QED BY <1>0, <2>1, <3>2, <3>3, BecomesIs
    <2>4. ASSUME NEW b \in Bot, bots[b].stat = "connected", Becomes([bots EXCEPT ![b] = Lost(@)], tree)
          PROVE  Server' /\ Passed
        <3> DEFINE r == Lost(bots[b])
        <3>1. IsRow(bots[b]) /\ bots[b].stat \in Running
            BY <1>0, <2>4 DEF IsList, Running
        <3>2. IsRow(r) /\ r.id \in {0, bots[b].id}
            BY <3>1 DEF Lost, IsRow, Status, Running
        <3> HIDE DEF r
        <3>3. IsList([bots EXCEPT ![b] = r])
            BY <1>0, <3>2, RowSet
        <3>4. Becomes([bots EXCEPT ![b] = r], tree)
            BY Zenon, <2>4 DEF r
        <3> QED BY <1>0, <2>1, <3>3, <3>4, BecomesIs
    <2>5. ASSUME NEW ch \in Channel, Becomes(bots, [tree EXCEPT !.chan = ch])
          PROVE  Server' /\ Passed
        <3>1. IsTree([tree EXCEPT !.chan = ch])
            BY <1>0 DEF IsTree
        <3> QED BY <1>0, <2>1, <2>5, <3>1, BecomesIs
    <2> QED BY <1>8, <2>2, <2>3, <2>4, <2>5 DEF Foreign
<1>9. CASE UNCHANGED vars
    BY <1>0, <1>9, SameServer
<1> QED BY <1>2, <1>3, <1>4, <1>5, <1>6, <1>7, <1>8, <1>9 DEF Next

-----------------------------------------------------------------------------
(* What the pages hold and the requests ask stays true of the server *)

\* The answer of the server to the request c.
LEMMA ServeGives ==
    ASSUME Inv, NEW c \in calls, Serve(c), Meant(c, bots, moved, time), IsList(bots)
    PROVE  \E d : /\ Became(c, d) /\ c.state = "sent"
                  /\ \/ d.state = "failed" /\ c.kind \notin Fetch /\ UNCHANGED <<server, hit, inst>>
                     \/ /\ d.state = "ok" /\ ~Refused(c) /\ Becomes(BotsAfter(c), TreeAfter(c))
                        /\ c.kind \notin BotKind => UNCHANGED <<bots, moved, time>>
                        /\ c.kind \in Fetch /\ inst[c.visit].page = "bots" => d.res = bots /\ d.at = time
<1>1. IsCall(c, cur) /\ c.state = "sent"
    BY DEF Inv, Shape, Serve
<1>2. CASE Refused(c) /\ Answered(c, [c EXCEPT !.state = "failed"]) /\ UNCHANGED <<server, hit, inst>>
    <2>1. Became(c, [c EXCEPT !.state = "failed"])
        BY <1>1, <1>2 DEF Became, Answered, IsCall, States, Refused
    <2>2. c.kind \notin Fetch
        BY <1>2 DEF Refused, Fetch
    <2>3. [c EXCEPT !.state = "failed"].state = "failed"
        BY <1>1 DEF IsCall
    <2> QED BY <1>1, <1>2, <2>1, <2>2, <2>3
<1>3. CASE ~Refused(c) /\ Becomes(BotsAfter(c), TreeAfter(c))
    <2> DEFINE r == IF c.kind \notin {"refresh", "tick"} THEN None
                    ELSE CASE inst[c.visit].page = "bots"   -> bots
                           [] inst[c.visit].page = "server" -> tree
                           [] OTHER                         -> None
               a == IF c.kind = "login" THEN c.at ELSE time'
               d == [c EXCEPT !.state = "ok", !.res = r, !.at = a]
    <2>1. calls' = (calls \ {c}) \cup {d}
        BY Zenon, <1>3 DEF Serve, Answered
    <2>2. time' \in Nat
        BY <1>3, BecomesTime DEF Inv
    <2>3. a \in Nat /\ (c.kind = "login" => a = c.at) /\ (c.kind # "login" => a = time')
        BY <1>1, <2>2 DEF IsCall
    <2>4. c.kind \in Fetch /\ inst[c.visit].page = "bots" => r = bots
        BY DEF Fetch
    <2>5. c.kind \notin BotKind => UNCHANGED <<bots, moved, time>>
        <3>1. c.kind \notin BotKind => BotsAfter(c) = bots
            BY BotsAfterIs DEF Meant
        <3>2. c.kind \notin BotKind => Becomes(bots, TreeAfter(c))
            BY <1>3, <3>1
        <3>3. \A x \in Bot : bots[x].id \in {0, bots[x].id}
            OBVIOUS
        <3> QED BY <3>2, <3>3 DEF Becomes
    <2>6. c.kind \in Fetch => c.kind # "login" /\ c.kind \notin BotKind
        BY DEF Fetch, BotKind
    <2> HIDE DEF r, a
    <2>7. /\ d.state = "ok" /\ d.res = r /\ d.at = a /\ d.n = c.n /\ d.visit = c.visit
          /\ d.kind = c.kind /\ d.arg = c.arg /\ IsCall(d, cur)
        BY <1>1, <2>3 DEF IsCall, States
    <2> HIDE DEF d
    <2>8. Became(c, d)
        BY <1>3, <2>1, <2>3, <2>7 DEF Became, Refused
    <2>9. c.kind \in Fetch /\ inst[c.visit].page = "bots" => d.res = bots /\ d.at = time
        BY <2>3, <2>4, <2>5, <2>6, <2>7
    <2> QED BY <1>1, <1>3, <2>5, <2>7, <2>8, <2>9
<1> QED BY <1>2, <1>3 DEF Serve

\* The answers of the list of bots, to the page that is open.
LEMMA BotsShown ==
    ASSUME Shape, NEW c \in calls, BotsDone(c), c.visit = cur
    PROVE  LET x == inst[cur]
               y == inst'[cur]
           IN  /\ c.state = "ok" =>
                     /\ y.shown = c.res /\ y.at = c.at
                     /\ y.newest = IF c.at > x.newest THEN c.at ELSE x.newest
                     /\ ~y.excused => \/ c.at = time /\ Of(cur) = {c}
                                      \/ ~x.excused /\ x.newest <= c.at
                     /\ y.has <=> Connecting(c.res)
                     /\ y.has => y.ticker
               /\ c.state # "ok" =>
                     /\ y.shown = x.shown /\ y.at = x.at /\ y.newest = x.newest
                     /\ y.excused = x.excused /\ y.has = x.has
                     /\ x.has /\ x.ticker => y.ticker
<1> DEFINE x == inst[cur]
           y == inst'[cur]
           ok == c.state = "ok"
           has == IF ok THEN Connecting(c.res) ELSE x.has
           z == IF ok THEN Told(c) ELSE x
           t == (z.ticker \/ (ok /\ has)) /\ (has \/ c.kind # "tick")
           w == IF c.at > x.newest THEN c.at ELSE x.newest
           e == IF c.at = time /\ Of(cur) = {c} THEN FALSE ELSE x.excused \/ c.at < x.newest
<1>1. cur \in Visit /\ c.at \in Nat
    BY DEF Shape, IsCall
<1>2. IsInst(x)
    BY <1>1 DEF Shape
<1>3. inst' = [inst EXCEPT ![cur] = [z EXCEPT !.has = has, !.ticker = t]]
    BY Zenon DEF BotsDone
<1>4. ok => z = [x EXCEPT !.shown = c.res, !.at = c.at, !.newest = w, !.excused = e]
    BY Zenon DEF Told
<1>5. ~ok => z = x
    OBVIOUS
<1>6. has \in BOOLEAN /\ t \in BOOLEAN /\ e \in BOOLEAN
    BY <1>2 DEF IsInst, Connecting
<1>7. ok => /\ has <=> Connecting(c.res)
            /\ has => t
    OBVIOUS
<1>8. ~ok => has = x.has /\ (x.has /\ x.ticker => t)
    OBVIOUS
<1>9. ~e => \/ c.at = time /\ Of(cur) = {c}
            \/ ~x.excused /\ x.newest <= c.at
    BY <1>1, <1>2 DEF IsInst
<1> HIDE DEF has, t, z, w, e
<1>10. y = [z EXCEPT !.has = has, !.ticker = t]
    BY <1>1, <1>3 DEF Shape
<1>11. CASE ok
    <2>1. /\ y.shown = c.res /\ y.at = c.at /\ y.newest = w /\ y.excused = e /\ y.has = has
          /\ y.ticker = t
        BY <1>2, <1>4, <1>10, <1>11 DEF IsInst
    <2> HIDE DEF x, y
    <2> QED BY <1>7, <1>9, <1>11, <2>1 DEF x, y, w
<1>12. CASE ~ok
    <2>1. /\ y.shown = x.shown /\ y.at = x.at /\ y.newest = x.newest
          /\ y.excused = x.excused /\ y.has = has /\ y.ticker = t
        BY <1>2, <1>5, <1>10, <1>12 DEF IsInst
    <2> QED BY <1>8, <1>12, <2>1
<1> QED BY <1>11, <1>12

\* A page shows what it showed, with no less of an excuse.
Kept(x, y) == /\ y.page = x.page /\ y.newest = x.newest /\ y.shown = x.shown /\ y.at = x.at
              /\ x.excused => y.excused

\* A new request, or an answer to one.
Known(c) == \/ \E e \in calls : c.kind = e.kind /\ c.arg = e.arg
            \/ c.kind \in Fetch \cup {"login"}
            \/ Meant(c, bots, moved, time)

LEMMA MeantAll ==
    ASSUME ServerInv, Passed, \A c \in calls' : Known(c)
    PROVE  \A c \in calls' : Meant(c, bots', moved', time')
<1> TAKE c \in calls'
<1>1. Meant(c, bots, moved, time)
    <2>1. CASE \E e \in calls : c.kind = e.kind /\ c.arg = e.arg
        BY <2>1 DEF ServerInv, Meant
    <2>2. CASE c.kind \in Fetch \cup {"login"}
        BY <2>2 DEF Meant, Fetch, BotKind, TreeKind
    <2> QED BY <2>1, <2>2 DEF Known
<1>2. time \in Nat /\ moved \in Nat
    BY DEF ServerInv, Server
<1> QED BY <1>1, <1>2, MeantStays DEF Passed

LEMMA ShowsStays ==
    ASSUME Inv, ServerInv, Passed, inst[cur].page = "bots", NEW y, Kept(inst[cur], y)
    PROVE  Shows(y, bots', moved', time')
<1>1. Shows(inst[cur], bots, moved, time)
    BY DEF ServerInv, Truthful
<1>2. time \in Nat /\ moved \in Nat /\ time' \in Nat /\ time <= time'
    BY DEF ServerInv, Server, Passed, Passes
<1>3. \A s, at : Snapshot(s, at, bots, moved, time) => Snapshot(s, at, bots', moved', time')
    BY <1>2, SnapshotStays DEF Passed
<1>4. inst[cur].newest \in Nat
    BY DEF Inv, Shape, IsInst
<1>5. y.newest <= time'
    BY <1>1, <1>2, <1>4 DEF Shows, Kept
<1>6. y.shown # None \/ ~y.excused => Snapshot(y.shown, y.at, bots, moved, time)
    BY <1>1 DEF Shows, Kept
<1> QED BY <1>3, <1>5, <1>6 DEF Shows

LEMMA GetsStays ==
    ASSUME ServerInv, Passed, NEW c, Gets(c, bots, moved, time)
    PROVE  Gets(c, bots', moved', time')
<1>1. time \in Nat /\ moved \in Nat
    BY DEF ServerInv, Server
<1> QED BY <1>1, SnapshotStays DEF Gets, Passed

\* The open page and what it may get, as long as it stays open.
LEMMA TruthStays ==
    ASSUME Inv, ServerInv, Passed, UNCHANGED cur, inst'[cur].page = inst[cur].page,
           inst[cur].page = "bots" => Shows(inst'[cur], bots', moved', time'),
           \A c \in calls' : \/ c \in calls
                             \/ c.visit = cur /\ inst[cur].page = "bots" => Gets(c, bots', moved', time')
    PROVE  Truthful'
<1> SUFFICES ASSUME inst[cur].page = "bots"
             PROVE  /\ Shows(inst'[cur], bots', moved', time')
                    /\ \A c \in calls' : c.visit = cur => Gets(c, bots', moved', time')
    BY DEF Truthful, Of
<1>1. ASSUME NEW c \in calls', c.visit = cur
      PROVE  Gets(c, bots', moved', time')
    <2>1. CASE c \in calls
        <3>1. Gets(c, bots, moved, time)
            BY <1>1, <2>1 DEF ServerInv, Truthful, Of
        <3> QED BY <3>1, GetsStays
    <2> QED BY <1>1, <2>1
<1> QED BY <1>1

LEMMA OpenServer ==
    ASSUME Inv, ServerInv, NEW page \in Later, Open(page), Server', Passed
    PROVE  ServerInv'
<1> DEFINE v == cur + 1
<1>1. cur' = v /\ v \in Visit /\ cur \in Nat /\ UNCHANGED hit
    BY SiteAssumption DEF Open, Inv, Shape, Visit
<1>2. inst'[v] = Page(page)
    BY <1>1 DEF Open, Inv, Shape
<1>3. \A c \in calls' : \/ c \in calls
                        \/ c.visit = v /\ c.kind \in {"refresh", "login"} /\ c.state = "sent"
    <2>1. \/ UNCHANGED calls
          \/ Ask(v, "refresh", None)
          \/ Ask(v, "login", auth)
        BY DEF Open
    <2>2. \A kind, arg : LET d == Request(Free, v, kind, arg)
                         IN  d.visit = v /\ d.kind = kind /\ d.state = "sent"
        BY RequestIs
    <2> QED BY <2>1, <2>2 DEF Ask
<1>4. \A c \in calls : c.visit # v
    BY <1>1 DEF Inv, Shape, IsCall
<1>5. \A c \in calls' : Known(c)
    BY <1>3 DEF Known, Fetch
<1>6. Truthful'
    <2>1. inst'[v].page = "bots" => Shows(inst'[v], bots', moved', time')
        <3>1. /\ inst'[v].page = page /\ inst'[v].newest = 0
              /\ page = "bots" => inst'[v].shown = None /\ inst'[v].excused
            <4>1. /\ Page(page).page = page /\ Page(page).newest = 0
                  /\ page # "home" => Page(page).shown = None /\ Page(page).excused
                BY Zenon, PageIs
            <4> HIDE DEF v
            <4> QED BY <1>2, <4>1
        <3>2. time' \in Nat
            BY DEF Passed, Passes
        <3> QED BY <3>1, <3>2 DEF Shows
    <2>2. \A c \in calls' : c.visit = v => Gets(c, bots', moved', time')
        BY <1>3, <1>4 DEF Gets
    <2> HIDE DEF v
    <2> QED BY <1>1, <2>1, <2>2 DEF Truthful, Of
<1>7. WrongBotHasCause'
    BY <1>1 DEF ServerInv, WrongBotHasCause
<1> QED BY <1>5, <1>6, <1>7, MeantAll DEF ServerInv

\* The steps by which a request is made.
LEMMA AskedIs ==
    ASSUME NEW i, NEW kind, NEW arg, Ask(i, kind, arg)
    PROVE  \A c \in calls' : c \in calls \/ (c.visit = i /\ c.kind = kind /\ c.arg = arg /\ c.state = "sent")
<1> DEFINE d == Request(Free, i, kind, arg)
<1>1. d.visit = i /\ d.kind = kind /\ d.arg = arg /\ d.state = "sent"
    BY RequestIs
<1>2. calls' = calls \cup {d}
    BY DEF Ask
<1> HIDE DEF d
<1> QED BY <1>1, <1>2

LEMMA BotClickMeant ==
    ASSUME Inv, ServerInv, NEW kind \in BotKind, NEW b \in Bot, BotClick(kind, b)
    PROVE  /\ inst[cur].page = "bots"
           /\ \A c \in calls' : c \in calls \/ (Meant(c, bots, moved, time) /\ c.kind = kind
                                                 /\ c.visit = cur /\ c.state = "sent")
<1> DEFINE x == inst[cur]
           arg == [bot |-> b, id |-> x.shown[b].id, seen |-> x.at]
<1>1. Ask(cur, kind, arg) /\ x.page = "bots" /\ x.shown # None
    BY Zenon DEF BotClick, Click
<1>2. Snapshot(x.shown, x.at, bots, moved, time)
    BY <1>1 DEF ServerInv, Truthful, Shows
<1>3. arg.bot \in Bot /\ arg.seen = x.at /\ arg.id = x.shown[b].id
    OBVIOUS
<1>4. moved <= x.at => \A y \in Bot : bots[y].id = arg.id /\ arg.id # 0 => y = b
    BY <1>2 DEF Snapshot, IsList
<1>5. Aims(arg, bots, moved, time)
    BY <1>2, <1>3, <1>4 DEF Aims, Snapshot
<1> HIDE DEF arg
<1>6. \A c \in calls' : c \in calls \/ (c.visit = cur /\ c.kind = kind /\ c.arg = arg /\ c.state = "sent")
    BY <1>1, AskedIs
<1>7. kind \notin TreeKind
    BY DEF BotKind, TreeKind
<1> QED BY <1>1, <1>3, <1>5, <1>6, <1>7 DEF Meant

\* What a request asks is never made false, and what is shown stays so.
LEMMA AskServer ==
    ASSUME Inv, ServerInv, Server', Passed, UNCHANGED <<cur, inst, hit>>,
           \A c \in calls' : c \in calls \/ (Known(c) /\ c.state = "sent")
    PROVE  ServerInv'
<1>1. \A c \in calls' : Known(c)
    BY DEF Known
<1>2. Kept(inst[cur], inst[cur])
    BY DEF Kept
<1>3. inst[cur].page = "bots" => Shows(inst'[cur], bots', moved', time')
    BY <1>2, ShowsStays
<1>4. Truthful'
    BY <1>3, TruthStays DEF Gets
<1> QED BY <1>1, <1>4, MeantAll DEF ServerInv, WrongBotHasCause

LEMMA TickServer ==
    ASSUME Inv, ServerInv, NEW i \in Visit, Tick(i), Server', Passed
    PROVE  ServerInv'
<1>0. UNCHANGED <<cur, hit>>
    BY DEF Tick
<1>1. CASE Ask(i, "tick", None) /\ UNCHANGED inst
    <2>1. \A c \in calls' : c \in calls \/ (Known(c) /\ c.state = "sent")
        BY <1>1, AskedIs DEF Known, Fetch
    <2> QED BY <1>0, <1>1, <2>1, AskServer
<1>2. CASE inst' = [inst EXCEPT ![i].ticker = FALSE] /\ UNCHANGED calls
    <2>1. cur \in Visit /\ IsInst(inst[cur])
        BY DEF Inv, Shape
    <2>2. inst'[cur] \in {inst[cur], [inst[cur] EXCEPT !.ticker = FALSE]}
        BY <1>2, <2>1 DEF Inv, Shape
    <2>3. Kept(inst[cur], inst'[cur])
        BY <2>1, <2>2 DEF Kept, IsInst
    <2>4. inst[cur].page = "bots" => Shows(inst'[cur], bots', moved', time')
        BY <2>3, ShowsStays
    <2>5. inst'[cur].page = inst[cur].page
        BY <2>3 DEF Kept
    <2>6. Truthful'
        BY <1>0, <1>2, <2>4, <2>5, TruthStays
    <2>7. \A c \in calls' : Known(c)
        BY <1>2 DEF Known
    <2> QED BY <1>0, <2>6, <2>7, MeantAll DEF ServerInv, WrongBotHasCause
<1> QED BY <1>1, <1>2 DEF Tick

LEMMA UserServer ==
    ASSUME Inv, ServerInv, User, Server', Passed
    PROVE  ServerInv'
<1>1. ASSUME NEW cred \in Cred, Type(cred) PROVE ServerInv'
    <2> DEFINE q == Request(Free, cur, "login", cred)
               d == [q EXCEPT !.at = clicks']
    <2>1. calls' = calls \cup {d}
        BY Zenon, <1>1 DEF Type
    <2>2. d.kind = "login" /\ d.state = "sent"
        BY DEF Request
    <2> HIDE DEF d
    <2>3. \A c \in calls' : c \in calls \/ (Known(c) /\ c.state = "sent")
        BY <2>1, <2>2 DEF Known
    <2> QED BY <1>1, <2>3, AskServer DEF Type, Click
<1>2. ASSUME NEW kind \in BotKind, NEW b \in Bot, BotClick(kind, b) PROVE ServerInv'
    <2>1. \A c \in calls' : c \in calls \/ (Known(c) /\ c.state = "sent")
        BY <1>2, BotClickMeant DEF Known
    <2> QED BY <1>2, <2>1, AskServer DEF BotClick, Click
<1>3. ASSUME NEW kind \in TreeKind, NEW ch \in Channel, TreeClick(kind, ch) PROVE ServerInv'
    <2> DEFINE arg == [chan |-> ch, switch |-> inst[cur].shown.mode # "whisper"]
    <2>1. Ask(cur, kind, arg)
        BY Zenon, <1>3 DEF TreeClick
    <2>2. arg.chan = ch
        OBVIOUS
    <2> HIDE DEF arg
    <2>3. \A c \in calls' : c \in calls \/ (c.kind = kind /\ c.arg = arg /\ c.state = "sent")
        BY <2>1, AskedIs
    <2>4. \A c \in calls' : c \in calls \/ (Known(c) /\ c.state = "sent")
        BY <2>2, <2>3 DEF Known, Meant, TreeKind, BotKind
    <2> QED BY <1>3, <2>4, AskServer DEF TreeClick, Click
<1> QED BY <1>1, <1>2, <1>3, OpenServer DEF User

\* The visit that is open only gains an excuse when the server does something.
LEMMA AlikeKept ==
    ASSUME Inv, Alike
    PROVE  Kept(inst[cur], inst'[cur]) /\ inst'[cur].has = inst[cur].has /\ inst'[cur].ticker = inst[cur].ticker
<1>1. LET x == inst[cur]
          y == inst'[cur]
      IN  /\ IsInst(y) /\ y.page = x.page /\ y.ticker = x.ticker /\ y.has = x.has
          /\ y.shown = x.shown /\ y.at = x.at /\ y.newest = x.newest
          /\ y.excused = x.excused \/ y.excused
    BY DEF Alike, Inv, Shape
<1> QED BY <1>1 DEF Kept

LEMMA AnswerServer ==
    ASSUME Inv, ServerInv, Alike, UNCHANGED cur, NEW c \in calls, NEW d, Became(c, d),
           d.visit = cur /\ inst[cur].page = "bots" => Gets(d, bots', moved', time'),
           Server', Passed, WrongBotHasCause'
    PROVE  ServerInv'
<1>1. \A e \in calls' : e \in calls \/ e = d
    BY DEF Became
<1>2. Kept(inst[cur], inst'[cur])
    BY AlikeKept
<1>3. inst[cur].page = "bots" => Shows(inst'[cur], bots', moved', time')
    BY <1>2, ShowsStays
<1>4. inst'[cur].page = inst[cur].page
    BY <1>2 DEF Kept
<1>5. Truthful'
    BY <1>1, <1>3, <1>4, TruthStays
<1>6. \A e \in calls' : Known(e)
    BY <1>1 DEF Known, Became
<1> QED BY <1>5, <1>6, MeantAll DEF ServerInv

LEMMA ServeServer ==
    ASSUME Inv, ServerInv, NEW c \in calls, Serve(c), Server', Passed
    PROVE  ServerInv'
<1>1. PICK d : /\ Became(c, d) /\ c.state = "sent"
               /\ \/ d.state = "failed" /\ c.kind \notin Fetch /\ UNCHANGED <<server, hit, inst>>
                  \/ /\ d.state = "ok" /\ ~Refused(c) /\ Becomes(BotsAfter(c), TreeAfter(c))
                     /\ c.kind \notin BotKind => UNCHANGED <<bots, moved, time>>
                     /\ c.kind \in Fetch /\ inst[c.visit].page = "bots" => d.res = bots /\ d.at = time
    BY ServeGives DEF ServerInv, Server
<1>2. Alike /\ UNCHANGED cur
    BY ServeIs DEF Inv
<1>3. d.visit = c.visit /\ d.kind = c.kind
    BY <1>1 DEF Became
<1>4. ASSUME d.visit = cur, inst[cur].page = "bots", d.kind \in Fetch, d.state = "ok"
      PROVE  Snapshot(d.res, d.at, bots', moved', time')
    <2>1. d.res = bots' /\ d.at = time'
        BY <1>1, <1>3, <1>4 DEF Fetch, BotKind
    <2>2. IsList(bots') /\ time' \in Nat
        BY DEF Server
    <2>3. \A b \in Bot : bots'[b].id \in {0, bots'[b].id}
        OBVIOUS
    <2> QED BY <2>1, <2>2, <2>3 DEF Snapshot
<1>5. d.visit = cur /\ inst[cur].page = "bots" => Gets(d, bots', moved', time')
    BY <1>4 DEF Gets
<1>6. WrongBotHasCause'
    <2>1. CASE UNCHANGED hit
        BY <2>1 DEF ServerInv, WrongBotHasCause
    <2>2. CASE /\ c.kind = "stop" /\ ~Refused(c)
               /\ hit' = [right |-> Holder(c.arg.id) = {c.arg.bot}, stale |-> c.arg.seen < moved]
        <3>1. Holder(c.arg.id) # {}
            BY <2>2 DEF Refused
        <3>2. Aims(c.arg, bots, moved, time)
            BY <2>2 DEF ServerInv, Meant
        <3>3. moved <= c.arg.seen => Holder(c.arg.id) = {c.arg.bot}
            <4> SUFFICES ASSUME moved <= c.arg.seen
                         PROVE  Holder(c.arg.id) = {c.arg.bot}
                OBVIOUS
            <4>1. \A b \in Holder(c.arg.id) : b = c.arg.bot
                BY <3>2 DEF Aims, Holder
            <4> QED BY <3>1, <4>1
        <3>4. moved \in Nat /\ c.arg.seen \in Nat
            BY <3>2 DEF ServerInv, Server, Aims
        <3>5. Holder(c.arg.id) = {c.arg.bot} \/ c.arg.seen < moved
            BY <3>3, <3>4
        <3> DEFINE r == Holder(c.arg.id) = {c.arg.bot}
                   s == c.arg.seen < moved
        <3>6. hit'.right = r /\ hit'.stale = s
            BY Zenon, <2>2
        <3>7. r \/ s
            BY <3>5
        <3> HIDE DEF r, s
        <3> QED BY Zenon, <3>6, <3>7 DEF WrongBotHasCause
    <2>3. \/ UNCHANGED hit
          \/ /\ c.kind = "stop" /\ ~Refused(c)
             /\ hit' = [right |-> Holder(c.arg.id) = {c.arg.bot}, stale |-> c.arg.seen < moved]
        BY Zenon DEF Serve
    <2> QED BY <2>1, <2>2, <2>3
<1> QED BY <1>1, <1>2, <1>5, <1>6, AnswerServer

LEMMA FailServer ==
    ASSUME Inv, ServerInv, NEW c \in calls, Fail(c), Server', Passed
    PROVE  ServerInv'
<1>1. Became(c, [c EXCEPT !.state = "lost"]) /\ [c EXCEPT !.state = "lost"].state = "lost"
    BY DEF Fail, Answered, Became, IsCall, States, Inv, Shape
<1>2. Alike /\ UNCHANGED cur
    BY FailIs DEF Inv
<1>3. WrongBotHasCause'
    BY DEF Fail, ServerInv, WrongBotHasCause
<1> QED BY <1>1, <1>2, <1>3, AnswerServer DEF Gets

\* What happens to the server of its own accord.
LEMMA ChangeServer ==
    ASSUME Inv, ServerInv, Alike, UNCHANGED <<cur, calls, hit>>, Server', Passed
    PROVE  ServerInv'
<1>1. Kept(inst[cur], inst'[cur])
    BY AlikeKept
<1>2. inst[cur].page = "bots" => Shows(inst'[cur], bots', moved', time')
    BY <1>1, ShowsStays
<1>3. inst'[cur].page = inst[cur].page
    BY <1>1 DEF Kept
<1>4. Truthful'
    BY <1>2, <1>3, TruthStays
<1>5. \A c \in calls' : Known(c)
    BY DEF Known
<1> QED BY <1>4, <1>5, MeantAll DEF ServerInv, WrongBotHasCause

LEMMA ResumeServer ==
    ASSUME Inv, ServerInv, NEW c \in calls, Resume(c), Server', Passed
    PROVE  ServerInv'
<1> DEFINE x == inst[c.visit]
           y == inst'[c.visit]
           d == Request(c.n, c.visit, "refresh", None)
<1>1. UNCHANGED <<server, cur, hit>>
    BY DEF Resume
<1>2. /\ \A i \in Visit : i # c.visit => inst'[i] = inst[i]
      /\ y.page = x.page
      /\ calls' = calls \ {c} \/ calls' = (calls \ {c}) \cup {d}
    BY ResumeIs DEF Inv
<1>3. d.kind = "refresh" /\ d.state = "sent"
    BY RequestIs
<1> HIDE DEF d
<1>4. \A e \in calls' : e \in calls \/ (e.kind = "refresh" /\ e.state = "sent")
    BY <1>2, <1>3
<1>5. cur \in Visit /\ IsInst(inst[cur])
    BY DEF Inv, Shape
<1>6. inst[cur].page = "bots" => Shows(inst'[cur], bots', moved', time')
    <2> SUFFICES ASSUME inst[cur].page = "bots"
                 PROVE  Shows(inst'[cur], bots', moved', time')
        OBVIOUS
    <2>1. CASE c.visit # cur
        <3>1. inst'[cur] = inst[cur]
            BY <1>2, <1>5, <2>1
        <3> QED BY <3>1, ShowsStays DEF Kept
    <2>2. CASE c.visit = cur /\ CommandDone(c)
        <3>1. inst'[cur] \in {inst[cur], [inst[cur] EXCEPT !.ticker = TRUE, !.failed = FALSE]}
            BY <1>5, <2>2 DEF CommandDone, Inv, Shape
        <3>2. Kept(inst[cur], inst'[cur])
            BY <1>5, <3>1 DEF Kept, IsInst
        <3> QED BY <3>2, ShowsStays
    <2>3. CASE c.visit = cur /\ BotsDone(c)
        <3>1. CASE c.state = "ok"
            <4>1. Snapshot(c.res, c.at, bots, moved, time)
                BY <2>3, <3>1 DEF BotsDone, Fetch, ServerInv, Truthful, Of, Gets
            <4>2. /\ inst'[cur].shown = c.res /\ inst'[cur].at = c.at
                  /\ inst'[cur].newest = IF c.at > inst[cur].newest THEN c.at ELSE inst[cur].newest
                BY <2>3, <3>1, BotsShown DEF Inv
            <4>3. inst[cur].newest <= time
                BY DEF ServerInv, Truthful, Shows
            <4>4. inst'[cur].newest <= time
                BY <4>1, <4>2, <4>3 DEF Snapshot
            <4> QED BY <1>1, <4>1, <4>2, <4>4 DEF Shows
        <3>2. CASE c.state # "ok"
            <4>1. Kept(inst[cur], inst'[cur])
                BY <1>2, <2>3, <3>2, BotsShown DEF Inv, Kept
            <4> QED BY <4>1, ShowsStays
        <3> QED BY <3>1, <3>2
    <2>4. c.visit = cur => BotsDone(c) \/ CommandDone(c)
        BY DEF Resume, OverviewDone, TreeDone, LoginDone, Inv, Addressed, Fits
    <2> QED BY <2>1, <2>2, <2>3, <2>4
<1>7. inst'[cur].page = inst[cur].page
    BY <1>2, <1>5
<1>8. Truthful'
    BY <1>1, <1>4, <1>6, <1>7, TruthStays DEF Gets
<1>9. \A e \in calls' : Known(e)
    BY <1>4 DEF Known, Fetch
<1> QED BY <1>1, <1>8, <1>9, MeantAll DEF ServerInv, WrongBotHasCause

LEMMA StepServer ==
    ASSUME Inv, ServerInv, [Next]_vars
    PROVE  ServerInv' /\ Passed
<1>1. Server' /\ Passed
    BY StepPasses DEF ServerInv
<1>2. CASE User
    BY <1>1, <1>2, UserServer
<1>3. CASE \E i \in Visit : Tick(i)
    BY <1>1, <1>3, TickServer
<1>4. ASSUME NEW c \in calls, Serve(c) \/ Fail(c) \/ Resume(c)
      PROVE  ServerInv'
    BY <1>1, <1>4, ServeServer, FailServer, ResumeServer
<1>5. CASE \E b \in Bot : Resolve(b)
    BY <1>1, <1>5, SameIsAlike, ChangeServer DEF Resolve, Inv
<1>6. CASE Foreign
    <2>1. Alike
        BY <1>6, SurprisedIsAlike DEF Foreign, Inv
    <2> QED BY <1>1, <1>6, <2>1, ChangeServer DEF Foreign, Trouble
<1>7. CASE UNCHANGED vars
    BY <1>1, <1>7, SameIsAlike, ChangeServer DEF Inv
<1> QED BY <1>1, <1>2, <1>3, <1>4, <1>5, <1>6, <1>7 DEF Next

LEMMA InitServer == Init => ServerInv
<1> SUFFICES ASSUME Init PROVE ServerInv
    OBVIOUS
<1>1. PICK page \in First :
         /\ inst = [i \in Visit |-> IF i = 1 THEN Page(page) ELSE Blank]
         /\ auth \in IF page = "home" THEN Cred \cup {Anonymous} ELSE {Anonymous}
         /\ calls = IF page \in {"bots", "server"} THEN {Request(1, 1, "refresh", None)}
                     ELSE IF page = "home" /\ auth # Anonymous THEN {Request(1, 1, "login", auth)}
                     ELSE {}
         /\ \E on \in SUBSET {CHOOSE b \in Bot : TRUE}, named \in {{}, Bot} :
            /\ page # "bots" => on = {} /\ named = {}
            /\ bots = [b \in Bot |-> [stat |-> IF b \in on THEN "connecting"
                                               ELSE IF b \in named THEN "offline" ELSE "none",
                                      named |-> b \in named,
                                      id |-> IF b \in on THEN 1 ELSE 0]]
    BY Zenon DEF Init
<1>2. PICK on \in SUBSET {CHOOSE b \in Bot : TRUE}, named \in {{}, Bot} :
         bots = [b \in Bot |-> [stat |-> IF b \in on THEN "connecting"
                                         ELSE IF b \in named THEN "offline" ELSE "none",
                                named |-> b \in named,
                                id |-> IF b \in on THEN 1 ELSE 0]]
    BY Zenon, <1>1
<1>3. cur = 1 /\ 1 \in Visit /\ time = 0 /\ moved = 0 /\ hit = [right |-> TRUE, stale |-> FALSE]
      /\ tree = [chan |-> CHOOSE ch \in Channel : TRUE, mode |-> "voice", subs |-> {}]
    BY SiteAssumption DEF Init, Visit
<1>4. IsList(bots)
    <2>1. \A a, b \in on : a = b
        OBVIOUS
    <2>2. ASSUME NEW b \in Bot
          PROVE  IsRow(bots[b]) /\ (bots[b].id # 0 => b \in on)
        <3> DEFINE s == IF b \in on THEN "connecting" ELSE IF b \in named THEN "offline" ELSE "none"
                   n == b \in named
                   k == IF b \in on THEN 1 ELSE 0
        <3>1. bots[b] = [stat |-> s, named |-> n, id |-> k]
            BY Zenon, <1>2
        <3>2. s \in Status /\ n \in BOOLEAN /\ k \in {0, 1} /\ (s \in Running <=> b \in on) /\ (k # 0 <=> b \in on)
            BY DEF Status, Running
        <3>3. 1 \in Id
            <4>1. Cardinality(Bot) \in Nat /\ Cardinality(Bot) # 0
                BY SiteAssumption, FS_CardinalityType, FS_EmptySet
            <4> QED BY <4>1 DEF Id
        <3> HIDE DEF s, n, k
        <3> QED BY <3>1, <3>2, <3>3 DEF IsRow
    <2>3. bots = [b \in Bot |-> bots[b]]
        BY <1>2
    <2> QED BY <2>1, <2>2, <2>3 DEF IsList
<1>5. IsTree(tree)
    BY <1>3, SiteAssumption DEF IsTree
<1>6. auth \in Cred \cup {Anonymous}
    BY <1>1
<1>7. \A c \in calls : c.kind \in {"refresh", "login"} /\ c.state = "sent"
    BY <1>1, RequestIs
<1>8. \A c \in calls : Meant(c, bots, moved, time)
    BY <1>7 DEF Meant, BotKind, TreeKind
<1>9. Truthful
    <2>1. inst[1] = Page(page)
        BY <1>1, <1>3
    <2>2. /\ Page(page).page = page /\ Page(page).newest = 0
          /\ page # "home" => Page(page).shown = None /\ Page(page).excused
        BY Zenon, PageIs
    <2> QED BY <1>3, <1>7, <2>1, <2>2 DEF Truthful, Shows, Gets, Of
<1>10. WrongBotHasCause
    BY <1>3 DEF WrongBotHasCause
<1> QED BY <1>3, <1>4, <1>5, <1>6, <1>8, <1>9, <1>10 DEF ServerInv, Server

\* No two bots have the same id, a bot has one as long as it runs, and requests
\* and visits keep their types, whatever is started, stopped and lost.
THEOREM SiteTyped == Spec => []TypeOK
<1>1. Inv /\ ServerInv => TypeOK
    <2> SUFFICES ASSUME Inv, ServerInv
                 PROVE  TypeOK
        OBVIOUS
    <2>1. ASSUME NEW b \in Bot
          PROVE  /\ bots[b].stat \in Status
                 /\ (bots[b].id # 0) = (bots[b].stat \in Running)
                 /\ Cardinality(Holder(bots[b].id)) <= 1
        <3>1. bots[b].stat \in Status /\ (bots[b].id # 0 <=> bots[b].stat \in Running)
            BY DEF ServerInv, Server, IsList, IsRow
        <3>2. CASE bots[b].id = 0
            <4>1. Holder(bots[b].id) = {}
                BY <3>2 DEF Holder
            <4> QED BY <3>1, <4>1, FS_EmptySet
        <3>3. CASE bots[b].id # 0
            <4>1. Holder(bots[b].id) = {b}
                BY <3>3 DEF Holder, ServerInv, Server, IsList
            <4> QED BY <3>1, <4>1, FS_Singleton
        <3> QED BY <3>2, <3>3
    <2>2. tree.chan \in Channel /\ tree.subs \subseteq Channel /\ auth \in Cred \cup {Anonymous}
        BY DEF ServerInv, Server, IsTree
    <2>3. /\ cur \in Visit
          /\ \A i \in Visit : inst[i].ticker \in BOOLEAN /\ inst[i].at <= inst[i].newest
          /\ \A c, d \in calls : c.n = d.n => c = d
        BY DEF Inv, Shape, IsInst
    <2> QED BY <2>1, <2>2, <2>3 DEF TypeOK
<1>2. Inv /\ ServerInv /\ [Next]_vars => Inv' /\ ServerInv'
    BY StepInv, StepServer
<1> QED BY <1>1, <1>2, InitInv, InitServer, PTL DEF Spec

\* Whatever pages are left and opened and however requests overtake each other,
\* a click on Stop stops the bot of its row, unless an id has been given out
\* since the row was fetched.
THEOREM StopIsAimed == Spec => []WrongBotHasCause
<1>1. ServerInv => WrongBotHasCause
    BY DEF ServerInv
<1>2. Inv /\ ServerInv /\ [Next]_vars => Inv' /\ ServerInv'
    BY StepInv, StepServer
<1> QED BY <1>1, <1>2, InitInv, InitServer, PTL DEF Spec

-----------------------------------------------------------------------------
(* The list: what is shown is right, or something is under way that puts it right *)

\* The lists that x shows or, of the requests C, may come to show without an excuse.
Newer(x, C) == {c \in C : c.kind \in Fetch /\ c.state = "ok" /\ x.newest <= c.at}
Views(x, C) == {<<x.shown, x.at>>} \cup {<<c.res, c.at>> : c \in Newer(x, C)}

\* A list that is right, or is not final and polled.
Fine(v, now) == v[2] = now \/ Connecting(v[1])
Best(V, now) == \E w \in V : Fine(w, now) /\ \A v \in V : v[2] <= w[2]

\* A list will be fetched.
Fetches(c) == \/ c.kind \in Fetch /\ c.state = "sent"
              \/ c.kind \in BotKind /\ c.state = "ok"

Right(x, C, now) ==
    /\ x.at = x.newest
    /\ x.has <=> Connecting(x.shown)
    /\ x.has => x.ticker
    /\ \A c \in C : c.state # "lost" /\ (c.kind \in Fetch => c.state # "failed")
    /\ \A v, w \in Views(x, C) : v[2] = w[2] => v[1] = w[1]
    /\ (\E c \in C : Fetches(c)) \/ Best(Views(x, C), now)

Listed == inst[cur].page = "bots" /\ ~inst[cur].excused => Right(inst[cur], Of(cur), time)

-----------------------------------------------------------------------------
(* What the steps make of the lists *)

LEMMA ViewsAre ==
    ASSUME NEW x, NEW C
    PROVE  /\ <<x.shown, x.at>> \in Views(x, C)
           /\ \A c \in Newer(x, C) : <<c.res, c.at>> \in Views(x, C)
           /\ \A v \in Views(x, C) : v = <<x.shown, x.at>> \/ \E c \in Newer(x, C) : v = <<c.res, c.at>>
    BY DEF Views

\* Only the newest version shown and what is shown count.
LEMMA SameViews ==
    ASSUME NEW x, NEW y, NEW C, NEW D, Kept(x, y), Newer(x, C) = Newer(x, D)
    PROVE  Views(y, D) = Views(x, C)
<1>1. Newer(y, D) = Newer(x, C)
    BY DEF Newer, Kept
<1> QED BY <1>1 DEF Views, Kept

\* The page keeps its list, and its ticker as far as it needs it.
Holds(x, y) == Kept(x, y) /\ y.has = x.has /\ (x.has /\ x.ticker => y.ticker)

\* Requests that cannot be shown come and go, none that fetches goes.
Same(C, D) ==
    /\ \A c \in D : c \in C \/ (c.state # "lost" /\ (c.kind \in Fetch => c.state = "sent"))
    /\ \A c \in C : c \in D \/ ~(Fetches(c) \/ (c.kind \in Fetch /\ c.state = "ok"))

LEMMA RightStays ==
    ASSUME NEW x, NEW y, NEW C, NEW D, NEW now, Right(x, C, now), Holds(x, y), Same(C, D)
    PROVE  Right(y, D, now)
<1>1. Newer(x, C) = Newer(x, D)
    <2>1. \A c \in Newer(x, C) : c \in Newer(x, D)
        BY DEF Newer, Same
    <2>2. \A c \in Newer(x, D) : c \in Newer(x, C)
        BY DEF Newer, Same
    <2> QED BY <2>1, <2>2
<1>2. Views(y, D) = Views(x, C)
    BY <1>1, SameViews DEF Holds
<1>3. y.at = y.newest /\ (y.has <=> Connecting(y.shown)) /\ (y.has => y.ticker)
    BY DEF Right, Holds, Kept
<1>4. \A c \in D : c.state # "lost" /\ (c.kind \in Fetch => c.state # "failed")
    BY DEF Right, Same
<1>5. (\E c \in C : Fetches(c)) => \E c \in D : Fetches(c)
    BY DEF Same
<1>6. \A v, w \in Views(x, C) : v[2] = w[2] => v[1] = w[1]
    BY DEF Right
<1>7. (\E c \in D : Fetches(c)) \/ Best(Views(y, D), now)
    BY <1>2, <1>5 DEF Right
<1> QED BY <1>2, <1>3, <1>4, <1>6, <1>7 DEF Right

\* A command was carried out, or is followed by a request for the list.
LEMMA RightFetches ==
    ASSUME NEW x, NEW y, NEW C, NEW now, NEW now2, Right(x, C, now), Holds(x, y),
           NEW c \in C, c.kind \in BotKind, NEW d, Fetches(d)
    PROVE  Right(y, (C \ {c}) \cup {d}, now2)
<1> DEFINE D == (C \ {c}) \cup {d}
<1>1. c.kind \notin Fetch
    BY DEF BotKind, Fetch
<1>2. d.state # "lost" /\ (d.kind \in Fetch => d.state = "sent")
    BY DEF Fetches, BotKind, Fetch
<1>3. Newer(x, C) = Newer(x, D)
    BY <1>1, <1>2 DEF Newer
<1>4. Views(y, D) = Views(x, C)
    <2> HIDE DEF D
    <2> QED BY <1>3, SameViews DEF Holds
<1>5. y.at = y.newest /\ (y.has <=> Connecting(y.shown)) /\ (y.has => y.ticker)
    BY DEF Right, Holds, Kept
<1>6. \A e \in D : e.state # "lost" /\ (e.kind \in Fetch => e.state # "failed")
    BY <1>2 DEF Right
<1>7. \E e \in D : Fetches(e)
    OBVIOUS
<1>8. \A v, w \in Views(x, C) : v[2] = w[2] => v[1] = w[1]
    BY DEF Right
<1> HIDE DEF D
<1>9. Right(y, D, now2)
    BY <1>4, <1>5, <1>6, <1>7, <1>8 DEF Right
<1> QED BY <1>9 DEF D

\* The list is fetched: it is as right as can be.
LEMMA RightFetched ==
    ASSUME NEW x, NEW y, NEW C, NEW now \in Nat, NEW list, Right(x, C, now), Holds(x, y),
           \A v \in Views(x, C) : v[2] \in Nat /\ v[2] <= now /\ (v[2] = now => v[1] = list),
           NEW c \in C, c.kind \in Fetch, c.state = "sent",
           NEW d, d.kind = c.kind, d.state = "ok", d.res = list, d.at = now, x.newest \in Nat, x.newest <= now
    PROVE  Right(y, (C \ {c}) \cup {d}, now)
<1> DEFINE D == (C \ {c}) \cup {d}
           top == <<list, now>>
<1>1. Newer(y, D) = Newer(x, C) \cup {d}
    BY DEF Newer, Holds, Kept
<1>2. Views(y, D) = Views(x, C) \cup {top}
    BY <1>1 DEF Views, Holds, Kept
<1>3. y.at = y.newest /\ (y.has <=> Connecting(y.shown)) /\ (y.has => y.ticker)
    BY DEF Right, Holds, Kept
<1>4. \A e \in D : e.state # "lost" /\ (e.kind \in Fetch => e.state # "failed")
    BY DEF Right
<1>5. \A v, w \in Views(x, C) : v[2] = w[2] => v[1] = w[1]
    BY DEF Right
<1> HIDE DEF D
<1>6. top[1] = list /\ top[2] = now /\ Fine(top, now)
    BY DEF Fine
<1> HIDE DEF top
<1>7. \A v, w \in Views(y, D) : v[2] = w[2] => v[1] = w[1]
    BY <1>2, <1>5, <1>6
<1>8. \A v \in Views(y, D) : v[2] <= top[2]
    BY <1>2, <1>6
<1>9. Best(Views(y, D), now)
    BY <1>2, <1>6, <1>8 DEF Best
<1>10. Right(y, D, now)
    BY <1>3, <1>4, <1>7, <1>9 DEF Right
<1> QED BY <1>10 DEF D

\* A bot that was connecting has connected or not: the lists that were right show it.
LEMMA RightLater ==
    ASSUME NEW x, NEW y, NEW C, NEW now, NEW now2, Right(x, C, now), Holds(x, y),
           \A v \in Views(x, C) : v[2] = now => Connecting(v[1])
    PROVE  Right(y, C, now2)
<1>1. Views(y, C) = Views(x, C)
    BY SameViews DEF Holds
<1>2. y.at = y.newest /\ (y.has <=> Connecting(y.shown)) /\ (y.has => y.ticker)
    BY DEF Right, Holds, Kept
<1>3. Best(Views(x, C), now) => Best(Views(x, C), now2)
    BY DEF Best, Fine
<1> QED BY <1>1, <1>2, <1>3 DEF Right

\* The page shows c.
Showing(y, c) ==
    /\ y.shown = c.res /\ y.at = c.at /\ y.newest = c.at
    /\ y.has <=> Connecting(c.res)
    /\ y.has => y.ticker

LEMMA RightShown ==
    ASSUME NEW x, NEW y, NEW C, NEW now, Right(x, C, now),
           NEW c \in C, c.kind \in Fetch, c.state = "ok", x.newest <= c.at, Showing(y, c),
           \A v \in Views(x, C) : v[2] \in Nat, x.newest \in Nat, \A e \in C : e.at \in Nat
    PROVE  Right(y, C \ {c}, now)
<1> DEFINE D == C \ {c}
           this == <<c.res, c.at>>
<1>1. Newer(y, D) = {e \in Newer(x, C) : e # c /\ c.at <= e.at}
    <2>1. \A e \in Newer(y, D) : e \in Newer(x, C) /\ e # c /\ c.at <= e.at
        BY DEF Newer, Showing
    <2>2. \A e \in Newer(x, C) : e # c /\ c.at <= e.at => e \in Newer(y, D)
        BY DEF Newer, Showing
    <2> QED BY <2>1, <2>2
<1>2. c \in Newer(x, C) /\ this \in Views(x, C)
    BY DEF Newer, Views
<1>3. Views(y, D) = {this} \cup {<<e.res, e.at>> : e \in Newer(y, D)}
    BY DEF Views, Showing
<1> HIDE DEF D
<1>4. this[1] = c.res /\ this[2] = c.at
    OBVIOUS
<1>5. \A v \in Views(y, D) : v \in Views(x, C)
    <2> HIDE DEF this
    <2>1. \A e \in Newer(y, D) : <<e.res, e.at>> \in Views(x, C)
        BY <1>1, ViewsAre
    <2> QED BY <1>2, <1>3, <2>1
<1>6. \A v, w \in Views(y, D) : v[2] = w[2] => v[1] = w[1]
    BY <1>5 DEF Right
<1>7. Fetches(c) <=> FALSE
    BY DEF Fetches, Fetch, BotKind
<1>8. ASSUME NEW w \in Views(x, C), Fine(w, now), \A v \in Views(x, C) : v[2] <= w[2]
      PROVE  Best(Views(y, D), now)
    <2>1. c.at <= w[2]
        BY <1>2, <1>4, <1>8
    <2>2. CASE w[2] = c.at
        <3>1. w[1] = this[1] /\ w[2] = this[2]
            BY <1>2, <1>4, <2>2 DEF Right
        <3>2. Fine(this, now)
            BY <1>8, <3>1 DEF Fine
        <3>3. this \in Views(y, D) /\ \A v \in Views(y, D) : v[2] <= this[2]
            BY <1>3, <1>5, <1>8, <3>1
        <3> QED BY <3>2, <3>3 DEF Best
    <2>3. CASE w[2] # c.at
        <3>1. w[2] \in Nat /\ c.at \in Nat
            BY <1>2, <1>4
        <3>2. w # <<x.shown, x.at>>
            <4>1. x.at = x.newest
                BY DEF Right
            <4> QED BY <2>1, <2>3, <3>1, <4>1
        <3>3. PICK e \in Newer(x, C) : w = <<e.res, e.at>>
            BY <3>2, ViewsAre
        <3>4. e.at = w[2] /\ e # c
            BY <2>3, <3>3
        <3>5. w \in Views(y, D)
            BY <1>1, <1>3, <2>1, <3>3, <3>4
        <3> QED BY <1>5, <1>8, <3>5 DEF Best
    <2> QED BY <2>2, <2>3
<1>9. (\E e \in D : Fetches(e)) \/ Best(Views(y, D), now)
    <2>1. CASE \E e \in C : Fetches(e)
        BY <1>7, <2>1 DEF D
    <2>2. CASE Best(Views(x, C), now)
        BY <1>8, <2>2 DEF Best
    <2> QED BY <2>1, <2>2 DEF Right
<1>10. \A e \in D : e.state # "lost" /\ (e.kind \in Fetch => e.state # "failed")
    BY DEF Right, D
<1>11. Right(y, D, now)
    BY <1>6, <1>9, <1>10 DEF Right, Showing
<1> QED BY <1>11 DEF D

\* The only request under way was answered by the server as it is now.
LEMMA RightAlone ==
    ASSUME NEW y, NEW c, NEW now, c.at = now, Showing(y, c), now <= now
    PROVE  Right(y, {}, now)
<1> DEFINE this == <<c.res, c.at>>
<1>1. Newer(y, {}) = {}
    BY DEF Newer
<1>2. Views(y, {}) = {this}
    BY <1>1 DEF Views, Showing
<1>3. this[1] = c.res /\ this[2] = now
    OBVIOUS
<1> HIDE DEF this
<1>4. Best(Views(y, {}), now)
    BY <1>2, <1>3 DEF Best, Fine
<1> QED BY <1>2, <1>4 DEF Right, Showing

-----------------------------------------------------------------------------
(* Every step leaves the list right, excused, or with something under way *)

\* The list of bots is open, and what it shows has no excuse.
Bare == inst[cur].page = "bots" /\ ~inst[cur].excused

\* What the page shows or may come to show was the list of the server.
LEMMA ViewsKnown ==
    ASSUME Inv, ServerInv, Bare
    PROVE  /\ inst[cur].newest \in Nat /\ inst[cur].newest <= time /\ time \in Nat
           /\ \A c \in Of(cur) : c \in calls /\ c.at \in Nat /\ c.state \in States
           /\ \A v \in Views(inst[cur], Of(cur)) : v[2] \in Nat /\ v[2] <= time /\ (v[2] = time => v[1] = bots)
<1> DEFINE x == inst[cur]
<1>1. x.newest \in Nat /\ time \in Nat
    BY DEF Inv, Shape, IsInst
<1>2. x.newest <= time /\ Snapshot(x.shown, x.at, bots, moved, time)
    BY DEF ServerInv, Truthful, Shows, Bare
<1>3. \A c \in Of(cur) : c \in calls /\ c.at \in Nat /\ c.state \in States
    BY DEF Of, Inv, Shape, IsCall
<1>4. \A c \in Newer(x, Of(cur)) : Snapshot(c.res, c.at, bots, moved, time)
    BY DEF Newer, ServerInv, Truthful, Gets, Bare
<1>5. ASSUME NEW v \in Views(x, Of(cur))
      PROVE  v[2] \in Nat /\ v[2] <= time /\ (v[2] = time => v[1] = bots)
    <2>1. CASE v = <<x.shown, x.at>>
        BY <1>2, <2>1 DEF Snapshot
    <2>2. ASSUME NEW c \in Newer(x, Of(cur)), v = <<c.res, c.at>>
          PROVE  v[2] \in Nat /\ v[2] <= time /\ (v[2] = time => v[1] = bots)
        <3>1. Snapshot(c.res, c.at, bots, moved, time)
            BY <1>4
        <3> QED BY <2>2, <3>1 DEF Snapshot
    <2> QED BY <2>1, <2>2, ViewsAre
<1> QED BY <1>1, <1>2, <1>3, <1>5

\* Nothing but requests that cannot be shown, and the ticker that has nothing to do.
LEMMA QuietList ==
    ASSUME Listed, UNCHANGED <<cur, time>>, Holds(inst[cur], inst'[cur]), Same(Of(cur), Of(cur)')
    PROVE  Listed'
<1> DEFINE x == inst[cur]
           y == inst'[cur]
<1>1. ASSUME y.page = "bots", ~y.excused
      PROVE  Right(y, Of(cur)', time)
    <2>1. x.page = "bots" /\ ~x.excused
        BY <1>1 DEF Holds, Kept
    <2>2. Right(x, Of(cur), time)
        BY <2>1 DEF Listed
    <2> HIDE DEF x, y
    <2>3. Holds(x, y)
        BY DEF x, y
    <2> QED BY <2>2, <2>3, RightStays
<1> QED BY <1>1 DEF Listed

LEMMA HoldsItself ==
    ASSUME NEW x
    PROVE  Holds(x, x)
    BY DEF Holds, Kept

LEMMA AskList ==
    ASSUME Listed, UNCHANGED <<cur, time, inst>>, \A c \in calls : c \in calls',
           \A c \in calls' : c \in calls \/ c.state = "sent"
    PROVE  Listed'
<1>1. Same(Of(cur), Of(cur)')
    BY DEF Same, Of
<1>2. Holds(inst[cur], inst'[cur])
    BY HoldsItself
<1> QED BY <1>1, <1>2, QuietList

LEMMA OpenList ==
    ASSUME Inv, NEW page \in Later, Open(page)
    PROVE  Listed'
<1> DEFINE v == cur + 1
<1>1. cur' = v /\ v \in Visit
    BY SiteAssumption DEF Open, Inv, Shape, Visit
<1>2. inst'[v] = Page(page)
    BY <1>1 DEF Open, Inv, Shape
<1>3. Page(page).page = page /\ (page # "home" => Page(page).excused)
    BY Zenon, PageIs
<1> HIDE DEF v
<1> QED BY <1>1, <1>2, <1>3 DEF Listed

LEMMA UserList ==
    ASSUME Inv, Listed, User
    PROVE  Listed'
<1>1. ASSUME NEW cred \in Cred, Type(cred) PROVE Listed'
    BY <1>1 DEF Type, Click, Listed
<1>2. ASSUME NEW kind, NEW arg, Ask(cur, kind, arg), UNCHANGED <<cur, time, inst>> PROVE Listed'
    <2>1. \A c \in calls' : c \in calls \/ c.state = "sent"
        BY <1>2, AskedIs
    <2>2. \A c \in calls : c \in calls'
        BY <1>2 DEF Ask
    <2> QED BY <1>2, <2>1, <2>2, AskList
<1>3. ASSUME NEW kind \in BotKind, NEW b \in Bot, BotClick(kind, b) PROVE Listed'
    <2>1. \E arg : Ask(cur, kind, arg) /\ UNCHANGED <<cur, time, inst>>
        BY Zenon, <1>3 DEF BotClick, Click
    <2> QED BY <1>2, <2>1
<1>4. ASSUME NEW kind \in TreeKind, NEW ch \in Channel, TreeClick(kind, ch) PROVE Listed'
    <2>1. \E arg : Ask(cur, kind, arg) /\ UNCHANGED <<cur, time, inst>>
        BY Zenon, <1>4 DEF TreeClick, Click
    <2> QED BY <1>2, <2>1
<1> QED BY <1>1, <1>3, <1>4, OpenList DEF User

LEMMA TickList ==
    ASSUME Inv, Listed, NEW i \in Visit, Tick(i)
    PROVE  Listed'
<1>0. UNCHANGED <<cur, time>>
    BY DEF Tick
<1>1. CASE Ask(i, "tick", None) /\ UNCHANGED inst
    <2>1. \A c \in calls' : c \in calls \/ c.state = "sent"
        BY <1>1, AskedIs
    <2>2. \A c \in calls : c \in calls'
        BY <1>1 DEF Ask
    <2> QED BY <1>0, <1>1, <2>1, <2>2, AskList
<1>2. CASE ~inst[i].has /\ inst' = [inst EXCEPT ![i].ticker = FALSE] /\ UNCHANGED calls
    <2>1. cur \in Visit /\ IsInst(inst[cur])
        BY DEF Inv, Shape
    <2>2. \/ inst'[cur] = inst[cur]
          \/ ~inst[cur].has /\ inst'[cur] = [inst[cur] EXCEPT !.ticker = FALSE]
        BY <1>2, <2>1 DEF Inv, Shape
    <2>3. Holds(inst[cur], inst'[cur])
        BY <2>1, <2>2 DEF Holds, Kept, IsInst
    <2>4. Same(Of(cur), Of(cur)')
        BY <1>0, <1>2 DEF Same, Of
    <2> QED BY <1>0, <2>3, <2>4, QuietList
<1> QED BY <1>1, <1>2 DEF Tick

\* A page that gained an excuse need not be right.
LEMMA ExcusedList ==
    ASSUME UNCHANGED cur, inst'[cur].excused
    PROVE  Listed'
    BY DEF Listed

LEMMA ServeList ==
    ASSUME Inv, ServerInv, Listed, NEW c \in calls, Serve(c)
    PROVE  Listed'
<1> DEFINE x == inst[cur]
           y == inst'[cur]
           C == Of(cur)
<1>1. PICK d : /\ Became(c, d) /\ c.state = "sent"
               /\ \/ d.state = "failed" /\ c.kind \notin Fetch /\ UNCHANGED <<server, hit, inst>>
                  \/ /\ d.state = "ok" /\ ~Refused(c) /\ Becomes(BotsAfter(c), TreeAfter(c))
                     /\ c.kind \notin BotKind => UNCHANGED <<bots, moved, time>>
                     /\ c.kind \in Fetch /\ inst[c.visit].page = "bots" => d.res = bots /\ d.at = time
    BY ServeGives DEF ServerInv, Server
<1>2. Alike /\ UNCHANGED cur
    BY ServeIs DEF Inv
<1>3. Holds(x, y)
    BY <1>2, AlikeKept DEF Holds
<1>4. calls' = (calls \ {c}) \cup {d} /\ d.visit = c.visit /\ d.kind = c.kind
    BY <1>1 DEF Became
<1>5. CASE c.visit # cur
    <2>1. Of(cur)' = C
        BY <1>2, <1>4, <1>5 DEF Of
    <2>2. CASE time' = time
        <3>1. Same(C, Of(cur)')
            BY <1>1, <1>2, <1>4, <1>5 DEF Same, Of
        <3> QED BY <1>2, <1>3, <2>2, <3>1, QuietList
    <2>3. CASE time' # time
        <3>1. inst' = Surprised(c.visit)
            BY <2>3 DEF Serve
        <3>2. cur \in Visit /\ IsInst(inst[cur])
            BY DEF Inv, Shape
        <3>3. inst'[cur] = [inst[cur] EXCEPT !.excused = TRUE]
            BY <1>5, <3>1, <3>2 DEF Surprised
        <3>4. inst'[cur].excused
            BY <3>2, <3>3 DEF IsInst
        <3> QED BY <1>2, <3>4, ExcusedList
    <2> QED BY <2>2, <2>3
<1>6. CASE c.visit = cur
    <2>1. Of(cur)' = (C \ {c}) \cup {d} /\ c \in C
        BY <1>2, <1>4, <1>6 DEF Of
    <2>2. CASE c.kind \notin Fetch \cup BotKind
        <3>1. UNCHANGED time
            BY <1>1, <2>2
        <3>2. Same(C, Of(cur)')
            BY <1>1, <1>4, <2>1, <2>2 DEF Same, Fetches
        <3> QED BY <1>2, <1>3, <3>1, <3>2, QuietList
    <2>3. CASE d.state = "failed"
        <3>1. UNCHANGED time /\ c.kind \notin Fetch
            BY <1>1, <2>3
        <3>2. Same(C, Of(cur)')
            BY <1>1, <1>4, <2>1, <2>3, <3>1 DEF Same, Fetches
        <3> QED BY <1>2, <1>3, <3>1, <3>2, QuietList
    <2>4. ASSUME d.state = "ok", c.kind \in Fetch \cup BotKind, y.page = "bots", ~y.excused
          PROVE  Right(y, Of(cur)', time')
        <3>1. Bare /\ Right(x, C, time)
            BY <1>3, <2>4 DEF Holds, Kept, Bare, Listed
        <3>2. CASE c.kind \in BotKind
            <4>1. Fetches(d)
                BY <1>4, <2>4, <3>2 DEF Fetches
            <4> HIDE DEF x, y, C
            <4> QED BY <1>3, <2>1, <3>1, <3>2, <4>1, RightFetches
        <3>3. CASE c.kind \in Fetch
            <4>1. c.kind \notin BotKind
                BY <3>3 DEF Fetch, BotKind
            <4>2. time' = time /\ d.res = bots /\ d.at = time
                BY <1>1, <1>6, <2>4, <3>1, <3>3, <4>1 DEF Bare
            <4>3. /\ x.newest \in Nat /\ x.newest <= time /\ time \in Nat
                  /\ \A v \in Views(x, C) : v[2] \in Nat /\ v[2] <= time /\ (v[2] = time => v[1] = bots)
                BY <3>1, ViewsKnown
            <4> HIDE DEF x, y, C
            <4>4. Right(y, (C \ {c}) \cup {d}, time)
                BY <1>1, <1>3, <1>4, <2>1, <2>4, <3>1, <3>3, <4>2, <4>3, RightFetched
            <4> QED BY <2>1, <4>2, <4>4
        <3> QED BY <2>4, <3>2, <3>3
    <2>5. CASE d.state = "ok" /\ c.kind \in Fetch \cup BotKind
        BY <1>2, <2>4, <2>5 DEF Listed
    <2> QED BY <1>1, <2>2, <2>3, <2>5
<1> QED BY <1>5, <1>6

LEMMA ResolveList ==
    ASSUME Inv, ServerInv, Listed, NEW b \in Bot, Resolve(b)
    PROVE  Listed'
<1>1. UNCHANGED <<inst, cur, calls>> /\ bots[b].stat = "connecting"
    BY DEF Resolve
<1>2. ASSUME Bare
      PROVE  Right(inst[cur], Of(cur), time')
    <2>1. Right(inst[cur], Of(cur), time)
        BY <1>2 DEF Bare, Listed
    <2>2. \A v \in Views(inst[cur], Of(cur)) : v[2] = time => v[1] = bots
        BY <1>2, ViewsKnown
    <2>3. Connecting(bots)
        BY <1>1 DEF Connecting
    <2> QED BY <2>1, <2>2, <2>3, HoldsItself, RightLater
<1>3. Of(cur)' = Of(cur)
    BY <1>1 DEF Of
<1> QED BY <1>1, <1>2, <1>3 DEF Listed, Bare

LEMMA ResumeList ==
    ASSUME Inv, ServerInv, Listed, NEW c \in calls, Resume(c)
    PROVE  Listed'
<1> DEFINE x == inst[cur]
           y == inst'[cur]
           C == Of(cur)
           d == Request(c.n, c.visit, "refresh", None)
<1>1. UNCHANGED <<bots, moved, time, cur>> /\ c.state # "sent"
    BY DEF Resume
<1>2. /\ \A i \in Visit : i # c.visit => inst'[i] = inst[i]
      /\ inst'[c.visit].page = inst[c.visit].page
      /\ calls' = calls \ {c} \/ calls' = (calls \ {c}) \cup {d}
    BY ResumeIs DEF Inv
<1>3. d.kind = "refresh" /\ d.state = "sent" /\ d.visit = c.visit
    BY RequestIs
<1>4. cur \in Visit /\ IsInst(x)
    BY DEF Inv, Shape
<1> HIDE DEF d
<1>5. CASE c.visit # cur
    <2>1. Same(C, Of(cur)')
        BY <1>1, <1>2, <1>3, <1>5 DEF Same, Of
    <2>2. Holds(x, y)
        BY <1>2, <1>4, <1>5, HoldsItself
    <2> QED BY <1>1, <2>1, <2>2, QuietList
<1>6. CASE c.visit = cur /\ x.page # "bots"
    BY <1>1, <1>2, <1>6 DEF Listed
<1>7. CASE c.visit = cur /\ x.page = "bots" /\ CommandDone(c)
    <2>1. c.kind \in BotKind /\ c.kind \notin TreeKind /\ c.kind \notin Fetch
        BY <1>7 DEF CommandDone, Inv, Addressed, Fits, BotKind, TreeKind, Fetch
    <2>2. UNCHANGED inst
        BY <1>7, <2>1 DEF CommandDone
    <2>3. Holds(x, y)
        BY <2>2, HoldsItself
    <2>4. CASE c.state = "ok"
        <3>1. calls' = (calls \ {c}) \cup {d}
            BY <1>7, <2>4 DEF CommandDone, AskNext, d
        <3>2. Of(cur)' = (C \ {c}) \cup {d} /\ c \in C
            BY <1>1, <1>3, <1>7, <3>1 DEF Of
        <3>3. Fetches(d)
            BY <1>3 DEF Fetches, Fetch
        <3>4. ASSUME Right(x, C, time)
              PROVE  Right(y, Of(cur)', time)
            <4> HIDE DEF x, y, C
            <4> QED BY <2>1, <2>3, <3>2, <3>3, <3>4, RightFetches
        <3> QED BY <1>1, <2>2, <3>4 DEF Listed
    <2>5. CASE c.state # "ok"
        <3>1. calls' = calls \ {c}
            BY <1>7, <2>5 DEF CommandDone, Done
        <3>2. Same(C, Of(cur)')
            BY <1>1, <2>1, <2>5, <3>1 DEF Same, Of, Fetches
        <3> QED BY <1>1, <2>3, <3>2, QuietList
    <2> QED BY <2>4, <2>5
<1>8. CASE c.visit = cur /\ x.page = "bots" /\ BotsDone(c)
    <2>1. Of(cur)' = C \ {c} /\ c \in C /\ c.kind \in Fetch
        BY <1>1, <1>8 DEF BotsDone, Done, Of, Fetch
    <2>2. /\ c.state = "ok" =>
                /\ y.shown = c.res /\ y.at = c.at
                /\ y.newest = IF c.at > x.newest THEN c.at ELSE x.newest
                /\ ~y.excused => \/ c.at = time /\ C = {c}
                                 \/ ~x.excused /\ x.newest <= c.at
                /\ y.has <=> Connecting(c.res)
                /\ y.has => y.ticker
          /\ c.state # "ok" => y.excused = x.excused
        BY <1>8, BotsShown DEF Inv
    <2>3. ASSUME ~y.excused
          PROVE  Right(y, C \ {c}, time)
        <3>1. CASE c.state # "ok"
            <4>1. Bare
                BY <1>8, <2>2, <2>3, <3>1 DEF Bare
            <4>2. Right(x, C, time)
                BY <4>1 DEF Bare, Listed
            <4>3. c.state \in States
                BY <2>1, <4>1, ViewsKnown
            <4>4. c.state # "lost" /\ c.state # "failed"
                BY <2>1, <4>2 DEF Right
            <4> QED BY <1>1, <3>1, <4>3, <4>4 DEF States
        <3>2. c.at \in Nat /\ x.newest \in Nat /\ time \in Nat
            BY <1>4 DEF Inv, Shape, IsCall, IsInst
        <3>3. CASE c.state = "ok" /\ c.at = time /\ C = {c}
            <4>1. x.newest <= time
                BY <1>8 DEF ServerInv, Truthful, Shows
            <4>2. y.newest = c.at
                BY <2>2, <3>2, <3>3, <4>1
            <4>3. Showing(y, c)
                BY <2>2, <3>3, <4>2 DEF Showing
            <4>4. C \ {c} = {}
                BY <3>3
            <4> HIDE DEF x, y, C
            <4> QED BY <3>2, <3>3, <4>3, <4>4, RightAlone
        <3>4. CASE c.state = "ok" /\ ~x.excused /\ x.newest <= c.at
            <4>1. Bare
                BY <1>8, <3>4 DEF Bare
            <4>2. Right(x, C, time)
                BY <4>1 DEF Bare, Listed
            <4>3. y.newest = c.at
                BY <2>2, <3>2, <3>4
            <4>4. Showing(y, c)
                BY <2>2, <3>4, <4>3 DEF Showing
            <4>5. (\A v \in Views(x, C) : v[2] \in Nat) /\ \A e \in C : e.at \in Nat
                BY <4>1, ViewsKnown
            <4> HIDE DEF x, y, C
            <4> QED BY <2>1, <3>2, <3>4, <4>2, <4>4, <4>5, RightShown
        <3> QED BY <2>2, <2>3, <3>1, <3>3, <3>4
    <2> QED BY <1>1, <2>1, <2>3 DEF Listed
<1>9. c.visit = cur /\ x.page = "bots" => BotsDone(c) \/ CommandDone(c)
    BY DEF Resume, OverviewDone, TreeDone, LoginDone, Inv, Addressed, Fits
<1> QED BY <1>5, <1>6, <1>7, <1>8, <1>9

LEMMA StepList ==
    ASSUME Inv, ServerInv, Listed, [Next]_vars
    PROVE  Listed'
<1>1. CASE User
    BY <1>1, UserList
<1>2. CASE \E i \in Visit : Tick(i)
    BY <1>2, TickList
<1>3. ASSUME NEW c \in calls, Serve(c) \/ Resume(c) PROVE Listed'
    BY <1>3, ServeList, ResumeList
<1>4. cur \in Visit
    BY DEF Inv, Shape
<1>5. ASSUME NEW c \in calls, Fail(c) PROVE Listed'
    <2>1. inst'[cur].excused
        BY <1>4, <1>5, FailIs DEF Inv
    <2> QED BY <1>5, <2>1, ExcusedList DEF Fail, Trouble
<1>6. CASE \E b \in Bot : Resolve(b)
    BY <1>6, ResolveList
<1>7. CASE Foreign
    <2>1. inst' = Surprised(0) /\ UNCHANGED cur
        BY <1>7 DEF Foreign, Trouble
    <2>2. inst'[cur] = [inst[cur] EXCEPT !.excused = TRUE] /\ IsInst(inst[cur])
        BY <1>4, <2>1, SiteAssumption DEF Surprised, Visit, Inv, Shape
    <2>3. inst'[cur].excused
        BY <2>2 DEF IsInst
    <2> QED BY <2>1, <2>3, ExcusedList
<1>8. CASE UNCHANGED vars
    <2>1. Of(cur)' = Of(cur)
        BY <1>8 DEF Of
    <2> QED BY <1>8, <2>1 DEF Listed
<1> QED BY <1>1, <1>2, <1>3, <1>5, <1>6, <1>7, <1>8 DEF Next

LEMMA InitList == Init => Listed
<1> SUFFICES ASSUME Init PROVE Listed
    OBVIOUS
<1>1. PICK page \in First : inst = [i \in Visit |-> IF i = 1 THEN Page(page) ELSE Blank]
    BY DEF Init
<1>2. cur = 1 /\ 1 \in Visit
    BY SiteAssumption DEF Init, Visit
<1>3. Page(page).page = page /\ (page # "home" => Page(page).excused)
    BY Zenon, PageIs
<1> QED BY <1>1, <1>2, <1>3 DEF Listed

\* A list of bots that is neither polled nor asked for shows the bots as they
\* are, however its requests overtake each other and bots connect meanwhile,
\* unless one of the named causes has interfered.
THEOREM ListSettles == Spec => []ListRight
<1>1. Inv /\ ServerInv /\ Listed => ListRight
    <2> SUFFICES ASSUME Inv, ServerInv, Listed, Bare, ~inst[cur].ticker, Of(cur) = {}
                 PROVE  inst[cur].shown = bots
        BY DEF ListRight, Bare
    <2> DEFINE x == inst[cur]
               this == <<x.shown, x.at>>
    <2>1. Right(x, Of(cur), time)
        BY DEF Listed, Bare
    <2>2. Newer(x, Of(cur)) = {}
        BY DEF Newer
    <2>3. Views(x, Of(cur)) = {this}
        BY <2>2 DEF Views
    <2>4. this[2] = time => this[1] = bots
        BY <2>3, ViewsKnown
    <2>5. this[1] = x.shown
        OBVIOUS
    <2>6. ~Connecting(x.shown)
        BY <2>1 DEF Right
    <2> HIDE DEF this
    <2>7. Fine(this, time)
        BY <2>1, <2>3 DEF Right, Best
    <2> QED BY <2>4, <2>5, <2>6, <2>7 DEF Fine
<1>2. Inv /\ ServerInv /\ Listed /\ [Next]_vars => Inv' /\ ServerInv' /\ Listed'
    BY StepInv, StepServer, StepList
<1> QED BY <1>1, <1>2, InitInv, InitServer, InitList, PTL DEF Spec

=============================================================================
