------------------------- MODULE SettingsPageProofs -------------------------
(***************************************************************************)
(* What the user sets arrives: for every number of bots and fields, of     *)
(* clicks and of requests that overlap.                                    *)
(*                                                                         *)
(* A setting that nothing interfered with is what its last value says: the *)
(* value that waits for the pause of the field; if none waits, the newest  *)
(* of the requests on their way; if there is none, the server's.           *)
(***************************************************************************)
EXTENDS SettingsPage, FiniteSetTheorems, TLAPS

Model == [Field -> Values]

IsCall(c) ==
    /\ c \in [n : Nat, kind : {"get", "set"}, bot : Bot \cup {Away}, field : {c.field}, val : {c.val},
              state : {"sent", "ok", "failed"}, res : {c.res}, stale : {c.stale}]
    /\ c.kind = "set" => c.field \in Field /\ c.val \in Values

IsPage(x) == x \in [open : BOOLEAN, of : {x.of}, model : {x.model}, stale : {x.stale}]

\* The numbers of the requests for a field grow.
Dated(c) == c.kind = "set" => c.n <= issued[c.field]
Later == issued' \in [Field -> Nat] /\ \A x \in Field : issued[x] <= issued'[x]

Shape ==
    /\ issued \in [Field -> Nat]
    /\ conf \in [Bot -> Model] /\ wish \in [Bot -> Model]
    /\ route \in Bot \cup {Away}
    /\ debounce \in [Field -> [on : BOOLEAN, last : Values \cup {None}]]
    /\ \A f \in Field : /\ ~debounce[f].on => debounce[f].last = None
                        /\ f \in Text /\ debounce[f].on => debounce[f].last # None
    /\ \A e \in orphans : e \in Field \X Values
    /\ IsPage(page)
    /\ ~page.open => page = Closed /\ debounce = Quiet
    /\ page.open => page.of \in Bot /\ route \in Bot /\ page.model \in Model \cup {None}
    /\ \A c \in calls : IsCall(c) /\ Dated(c)

\* A page asks once, and nobody edits before the answer has come.
Asks ==
    /\ \A c \in calls : c.kind = "get" =>
          /\ page.open /\ page.model = None
          /\ c.bot \in Bot /\ (c.state = "ok" => c.res \in Model)
    /\ \A c, d \in calls : c.kind = "get" /\ d.kind = "get" => c = d

SentTo(b, f) == {c \in calls : c.kind = "set" /\ c.state = "sent" /\ c.bot = b /\ c.field = f}

\* The last value on its way to b, or the one that is there.
Arrives(b, f) ==
    /\ \A c \in SentTo(b, f) : (\A d \in SentTo(b, f) : d.n <= c.n) => c.val = wish[b][f]
    /\ SentTo(b, f) = {} => conf[b][f] = wish[b][f]

\* What waits for the pause of f is v.
Holds(f, v) == /\ debounce[f].last \in {None, v}
               /\ \A e \in orphans : e[1] = f => e[2] = v

Heeded(b, f) == /\ b = route /\ f \in Pending => Holds(f, wish[b][f])
                /\ (b = route /\ f \in Pending) \/ Arrives(b, f)

AllHeeded == \A b \in Bot, f \in Field : <<b, f>> \notin lost => Heeded(b, f)

\* The fields show what the user wants, and so does an answer that will be shown.
ShowsWish ==
    /\ page.open /\ page.model # None => \A f \in Field \ page.stale :
          <<page.of, f>> \notin lost => page.model[f] = wish[page.of][f]
    /\ \A c \in calls : c.kind = "get" /\ c.state = "ok" => \A f \in Field \ c.stale :
          <<c.bot, f>> \notin lost => c.res[f] = wish[c.bot][f]

Inv == Shape /\ Asks /\ AllHeeded /\ ShowsWish

USE DEF vars

-----------------------------------------------------------------------------
(* Requests *)

LEMMA RequestIs ==
    ASSUME NEW n \in Nat, NEW kind \in {"get", "set"}, NEW b \in Bot \cup {Away}, NEW f, NEW v,
           kind = "set" => f \in Field /\ v \in Values
    PROVE  LET c == Request(n, kind, b, f, v)
           IN  /\ IsCall(c) /\ c.n = n /\ c.kind = kind /\ c.bot = b /\ c.field = f /\ c.val = v
               /\ c.state = "sent"
    BY DEF Request, IsCall

LEMMA GetIs ==
    ASSUME NEW b \in Bot
    PROVE  LET c == Get(b)
           IN  IsCall(c) /\ c.kind = "get" /\ c.bot = b /\ c.state = "sent"
    BY DEF Get, Request, IsCall

\* m has a value for each of the fields F.
Sendable(F, m) == F \in SUBSET Field /\ \A f \in F : m[f] \in Values

\* The request c is new: it sends the value of m for one of the fields F.
IsNew(c, F, m) == /\ IsCall(c) /\ c.n > issued[c.field] /\ Dated(c)'
                  /\ c.kind = "set" /\ c.state = "sent" /\ c.bot = route
                  /\ c.field \in F /\ c.val = m[c.field]

Sent(F, m) == /\ Later
              /\ calls \subseteq calls'
              /\ \A c \in calls' \ calls : IsNew(c, F, m)
              /\ \A f \in F : \E c \in calls' \ calls : c.field = f

\* Values are sent: a request for each, newer than all others for its field.
LEMMA SendIs ==
    ASSUME Shape, NEW F, NEW m, Send(F, m), Sendable(F, m)
    PROVE  Sent(F, m)
<1> USE DEF Sendable
<1>1. /\ issued \in [Field -> Nat] /\ route \in Bot \cup {Away}
      /\ issued' = [f \in Field |-> IF f \in F THEN issued[f] + 1 ELSE issued[f]]
      /\ calls' = calls \cup {Request(issued[f] + 1, "set", route, f, m[f]) : f \in F}
    BY DEF Shape, Send
<1>2. Later /\ \A f \in F : issued[f] \in Nat /\ issued'[f] = issued[f] + 1
    BY <1>1 DEF Later
<1>3. ASSUME NEW f \in F
      PROVE  LET c == Request(issued[f] + 1, "set", route, f, m[f])
             IN  c.field = f /\ c \notin calls /\ IsNew(c, F, m)
    <2>1. PICK n \in Nat : n = issued[f] + 1 /\ n > issued[f] /\ n <= issued'[f]
        BY <1>2
    <2>2. PICK c : c = Request(n, "set", route, f, m[f])
        OBVIOUS
    <2>3. /\ IsCall(c) /\ c.n = n /\ c.kind = "set" /\ c.bot = route /\ c.field = f /\ c.val = m[f]
          /\ c.state = "sent"
        BY <1>1, <2>1, <2>2, RequestIs
    <2>4. c \notin calls
        BY <1>2, <2>1, <2>3 DEF Shape, Dated
    <2>5. IsNew(c, F, m)
        BY <2>1, <2>3 DEF IsNew, Dated
    <2> QED BY <2>1, <2>2, <2>3, <2>4, <2>5
<1>4. ASSUME NEW c \in calls' \ calls PROVE IsNew(c, F, m)
    <2>1. PICK f \in F : c = Request(issued[f] + 1, "set", route, f, m[f])
        BY <1>1, <1>4
    <2> QED BY <1>3, <2>1
<1>5. ASSUME NEW f \in F PROVE \E c \in calls' \ calls : c.field = f
    BY <1>1, <1>3
<1> QED BY <1>1, <1>2, <1>4, <1>5 DEF Sent

\* The requests there were, when others are numbered after them.
LEMMA OldDated ==
    ASSUME Shape, Later, NEW c \in calls
    PROVE  IsCall(c) /\ Dated(c)'
<1>1. IsCall(c) /\ Dated(c)
    BY DEF Shape
<1>2. ASSUME c.kind = "set" PROVE c.n <= issued'[c.field]
    <2>1. c.field \in Field /\ c.n \in Nat /\ c.n <= issued[c.field]
        BY <1>1, <1>2 DEF IsCall, Dated
    <2>2. issued[c.field] \in Nat /\ issued'[c.field] \in Nat /\ issued[c.field] <= issued'[c.field]
        BY <2>1 DEF Shape, Later
    <2> QED BY <2>1, <2>2
<1> QED BY <1>1, <1>2 DEF Dated

\* Fields of b for which nothing is sent.
LEMMA Unsent ==
    ASSUME NEW b \in Bot, NEW f \in Field, Arrives(b, f),
           \A c : c.kind = "set" /\ c.state = "sent" /\ c.bot = b /\ c.field = f
                    => (c \in calls <=> c \in calls'),
           conf'[b][f] = conf[b][f], wish'[b][f] = wish[b][f]
    PROVE  Arrives(b, f)'
    BY DEF Arrives, SentTo

\* A value that is sent is the last.
LEMMA JustSent ==
    ASSUME Shape, NEW b \in Bot, NEW f \in Field, NEW v, calls \subseteq calls',
           \A c \in calls' \ calls : /\ c.kind = "set" /\ c.state = "sent" /\ c.bot = b /\ c.n \in Nat
                                     /\ (c.field = f => c.val = v /\ c.n > issued[f]),
           \E c \in calls' \ calls : c.field = f,
           wish'[b][f] = v
    PROVE  Arrives(b, f)'
<1>1. PICK c \in calls' \ calls : c.field = f
    OBVIOUS
<1>2. c \in SentTo(b, f)'
    BY <1>1 DEF SentTo
<1>3. ASSUME NEW e \in SentTo(b, f)', \A d \in SentTo(b, f)' : d.n <= e.n
      PROVE  e.val = v
    <2>1. c.n <= e.n /\ c.n > issued[f] /\ c.n \in Nat
        BY <1>1, <1>2, <1>3
    <2>2. e \notin calls
        <3>1. e.kind = "set" /\ e.field = f
            BY <1>3 DEF SentTo
        <3>2. ASSUME e \in calls PROVE FALSE
            <4>1. e.n \in Nat /\ e.n <= issued[f] /\ issued[f] \in Nat
                BY <3>1, <3>2 DEF Shape, IsCall, Dated
            <4> QED BY <2>1, <4>1
        <3> QED BY <3>2
    <2> QED BY <1>3, <2>2 DEF SentTo
<1> QED BY <1>2, <1>3 DEF Arrives

-----------------------------------------------------------------------------
(* The timers *)

LEMMA FireInv ==
    ASSUME Inv, NEW f \in Field, Fire(f)
    PROVE  Inv'
<1> DEFINE v == debounce[f].last
           F == IF v = None THEN {} ELSE {f}
           m == [g \in F |-> debounce[g].last]
<1>1. Shape /\ Asks /\ AllHeeded /\ ShowsWish
    BY DEF Inv
<1>2. F \in SUBSET Field /\ \A g \in F : m[g] \in Values /\ m[g] = v /\ g = f
    BY <1>1 DEF Shape
<1>3. Send(F, m) /\ debounce' = [debounce EXCEPT ![f] = Idle]
      /\ UNCHANGED <<conf, route, page, orphans, wish, lost>> /\ debounce[f].on
    BY DEF Fire
<1>4. F = {} <=> v = None
    OBVIOUS
<1> HIDE DEF F, m
<1>5. /\ Later /\ calls \subseteq calls'
      /\ \A c \in calls' \ calls : /\ IsCall(c) /\ c.n > issued[c.field] /\ Dated(c)'
                                   /\ c.kind = "set" /\ c.state = "sent" /\ c.bot = route
                                   /\ c.field = f /\ c.val = v
      /\ v # None => \E c \in calls' \ calls : c.field = f
    <2>1. Sendable(F, m)
        BY <1>2 DEF Sendable
    <2>2. Sent(F, m)
        BY <1>1, <1>3, <2>1, SendIs
    <2> QED BY <1>2, <1>4, <2>2 DEF Sent, IsNew
<1>6. /\ debounce' \in [Field -> [on : BOOLEAN, last : Values \cup {None}]]
      /\ debounce'[f] = Idle /\ \A g \in Field : g # f => debounce'[g] = debounce[g]
    <2>1. Idle \in [on : BOOLEAN, last : Values \cup {None}]
        BY DEF Idle
    <2> QED BY <1>1, <1>3, <2>1 DEF Shape
<1>7. Shape'
    <2>1. page.open
        BY <1>1, <1>3 DEF Shape, Quiet, Idle
    <2>2. \A c \in calls' : IsCall(c) /\ Dated(c)'
        BY <1>1, <1>5, OldDated
    <2>3. \A g \in Field : /\ ~debounce'[g].on => debounce'[g].last = None
                           /\ g \in Text /\ debounce'[g].on => debounce'[g].last # None
        BY <1>1, <1>6 DEF Shape, Idle
    <2> QED BY <1>1, <1>3, <1>5, <1>6, <2>1, <2>2, <2>3 DEF Shape, Later
<1>8. Asks'
    BY <1>1, <1>3, <1>5 DEF Asks
<1>9. ASSUME NEW b \in Bot, NEW g \in Field, <<b, g>> \notin lost' PROVE Heeded(b, g)'
    <2>1. Heeded(b, g)
        BY <1>1, <1>3, <1>9 DEF AllHeeded
    <2>2. CASE b = route /\ g = f
        <3>1. CASE v # None
            <4>1. Holds(f, wish[b][f]) /\ v = wish[b][f]
                BY <2>1, <2>2, <3>1 DEF Heeded, Pending, Holds
            <4>2. Arrives(b, f)'
                <5>1. \A c \in calls' \ calls : /\ c.kind = "set" /\ c.state = "sent" /\ c.bot = b
                                                /\ c.n \in Nat
                                                /\ (c.field = f => c.val = v /\ c.n > issued[f])
                    BY <1>5, <2>2 DEF IsCall
                <5>2. wish'[b][f] = v
                    BY <1>3, <4>1
                <5> QED BY <1>1, <1>5, <3>1, <5>1, <5>2, JustSent
            <4>3. Holds(f, wish[b][f])'
                BY <1>3, <1>6, <4>1 DEF Holds, Idle
            <4> QED BY <1>3, <2>2, <4>2, <4>3 DEF Heeded
        <3>2. CASE v = None
            <4>1. calls' = calls
                BY <1>2, <1>3, <1>4, <3>2 DEF Send
            <4>2. debounce'[f].last = debounce[f].last
                BY <1>6, <3>2 DEF Idle
            <4> QED BY <1>3, <1>6, <2>1, <2>2, <4>1, <4>2
                DEF Heeded, Holds, Arrives, SentTo, Pending, Left
        <3> QED BY <3>1, <3>2
    <2>3. CASE ~(b = route /\ g = f)
        <3>1. Arrives(b, g) => Arrives(b, g)'
            <4>1. \A c : c.kind = "set" /\ c.state = "sent" /\ c.bot = b /\ c.field = g
                             => (c \in calls <=> c \in calls')
                BY <1>5, <2>3
            <4> QED BY <1>3, <4>1, Unsent
        <3>2. b = route => /\ g \in Pending <=> g \in Pending'
                           /\ Holds(g, wish[b][g]) => Holds(g, wish[b][g])'
            BY <1>3, <1>6, <2>3 DEF Pending, Left, Holds
        <3> QED BY <1>3, <2>1, <3>1, <3>2 DEF Heeded
    <2> QED BY <2>2, <2>3
<1>10. ShowsWish'
    BY <1>1, <1>3, <1>5 DEF ShowsWish
<1> QED BY <1>7, <1>8, <1>9, <1>10 DEF Inv, AllHeeded

LEMMA FireOrphanInv ==
    ASSUME Inv, NEW e \in orphans, FireOrphan(e)
    PROVE  Inv'
<1> DEFINE f == e[1]
           v == e[2]
           F == {f}
           m == [g \in F |-> v]
<1>1. Shape /\ Asks /\ AllHeeded /\ ShowsWish
    BY DEF Inv
<1>2. f \in Field /\ v \in Values
    BY <1>1 DEF Shape
<1>3. Send(F, m) /\ orphans' = orphans \ {e}
      /\ UNCHANGED <<conf, route, page, debounce, wish, lost>>
    BY DEF FireOrphan
<1>4. F \in SUBSET Field /\ f \in F /\ \A g \in F : m[g] \in Values /\ m[g] = v /\ g = f
    BY <1>2
<1> HIDE DEF F, m
<1>5. /\ Later /\ calls \subseteq calls'
      /\ \A c \in calls' \ calls : /\ IsCall(c) /\ c.n > issued[c.field] /\ Dated(c)'
                                   /\ c.kind = "set" /\ c.state = "sent" /\ c.bot = route
                                   /\ c.field = f /\ c.val = v
      /\ \E c \in calls' \ calls : c.field = f
    <2>1. Sendable(F, m)
        BY <1>4 DEF Sendable
    <2>2. Sent(F, m)
        BY <1>1, <1>3, <2>1, SendIs
    <2> QED BY <1>4, <2>2 DEF Sent, IsNew
<1>6. Shape'
    <2>1. \A c \in calls' : IsCall(c) /\ Dated(c)'
        BY <1>1, <1>5, OldDated
    <2> QED BY <1>1, <1>3, <1>5, <2>1 DEF Shape, Later
<1>7. Asks'
    BY <1>1, <1>3, <1>5 DEF Asks
<1>8. ASSUME NEW b \in Bot, NEW g \in Field, <<b, g>> \notin lost' PROVE Heeded(b, g)'
    <2>1. Heeded(b, g)
        BY <1>1, <1>3, <1>8 DEF AllHeeded
    <2>2. CASE b = route /\ g = f
        <3>1. Holds(f, wish[b][f]) /\ v = wish[b][f]
            BY <2>1, <2>2 DEF Heeded, Pending, Left, Holds
        <3>2. Arrives(b, f)'
            <4>1. \A c \in calls' \ calls : /\ c.kind = "set" /\ c.state = "sent" /\ c.bot = b
                                            /\ c.n \in Nat
                                            /\ (c.field = f => c.val = v /\ c.n > issued[f])
                BY <1>5, <2>2 DEF IsCall
            <4>2. wish'[b][f] = v
                BY <1>3, <3>1
            <4> HIDE DEF f, v
            <4> QED BY <1>1, <1>2, <1>5, <4>1, <4>2, JustSent
        <3>3. Holds(f, wish[b][f])'
            BY <1>3, <3>1 DEF Holds
        <3> QED BY <1>3, <2>2, <3>2, <3>3 DEF Heeded
    <2>3. CASE ~(b = route /\ g = f)
        <3>1. Arrives(b, g) => Arrives(b, g)'
            <4>1. \A c : c.kind = "set" /\ c.state = "sent" /\ c.bot = b /\ c.field = g
                             => (c \in calls <=> c \in calls')
                BY <1>5, <2>3
            <4> QED BY <1>3, <4>1, Unsent
        <3>2. b = route => /\ g \in Pending <=> g \in Pending'
                           /\ Holds(g, wish[b][g]) => Holds(g, wish[b][g])'
            BY <1>3, <2>3 DEF Pending, Left, Holds
        <3> QED BY <1>3, <2>1, <3>1, <3>2 DEF Heeded
    <2> QED BY <2>2, <2>3
<1>9. ShowsWish'
    BY <1>1, <1>3, <1>5 DEF ShowsWish
<1> QED BY <1>6, <1>7, <1>8, <1>9 DEF Inv, AllHeeded

-----------------------------------------------------------------------------
(* The user *)

LEMMA GoInv ==
    ASSUME Inv, NEW b \in Bot \cup {Away}, NEW open \in BOOLEAN, Go(b, open)
    PROVE  Inv'
<1>1. Shape /\ Asks /\ AllHeeded /\ ShowsWish
    BY DEF Inv
<1>2. /\ route' = b /\ (b = Away => ~open)
      /\ lost' = IF b = route THEN lost ELSE lost \cup ({b, route} \X Pending)
      /\ UNCHANGED <<conf, wish>>
    BY DEF Go, Click
<1>3. lost \subseteq lost'
    BY <1>2
<1>4. ASSUME \A f \in Field : f \in Pending <=> f \in Pending',
             \A c : c.kind = "set" => (c \in calls <=> c \in calls'),
             \A f \in Field, w \in Values : Holds(f, w) => Holds(f, w)'
      PROVE  AllHeeded'
    <2> SUFFICES ASSUME NEW d \in Bot, NEW f \in Field, <<d, f>> \notin lost'
                 PROVE  Heeded(d, f)'
        BY DEF AllHeeded
    <2>1. Heeded(d, f)
        BY <1>1, <1>3 DEF AllHeeded
    <2>2. Arrives(d, f) => Arrives(d, f)'
        BY <1>2, <1>4, Unsent
    <2>3. wish'[d][f] = wish[d][f] /\ wish[d][f] \in Values
        BY <1>1, <1>2 DEF Shape, Model
    <2>4. Holds(f, wish[d][f]) => Holds(f, wish[d][f])'
        BY <1>2, <1>4, <2>3 DEF Holds
    <2>5. CASE b = route
        BY <1>2, <1>4, <2>1, <2>2, <2>4, <2>5 DEF Heeded
    <2>6. CASE b # route
        <3>1. f \in Pending => d # b /\ d # route
            BY <1>2, <2>6
        <3> QED BY <1>2, <1>4, <2>1, <2>2, <3>1 DEF Heeded
    <2> QED BY <2>5, <2>6
<1>5. CASE open /\ ~page.open
    <2>1. /\ page' = [Closed EXCEPT !.open = TRUE, !.of = b]
          /\ calls' = calls \cup {Get(b)}
          /\ UNCHANGED <<debounce, orphans, issued>>
        BY <1>5 DEF Go, Opened
    <2>2. b \in Bot
        BY <1>1, <1>2, <1>5 DEF Shape
    <2>3. PICK r : r = Get(b)
        OBVIOUS
    <2>4. IsCall(r) /\ r.kind = "get" /\ r.bot = b /\ r.state = "sent"
        BY <2>2, <2>3, GetIs
    <2>5. calls' = calls \cup {r}
        BY <2>1, <2>3
    <2>6. /\ page'.open /\ page'.of = b /\ page'.model = None /\ IsPage(page')
        BY <2>1 DEF Closed, IsPage
    <2>7. \A c \in calls : c.kind # "get"
        BY <1>1, <1>5 DEF Asks
    <2>8. Shape'
        <3>1. \A c \in calls' : IsCall(c) /\ Dated(c)'
            BY <1>1, <2>1, <2>4, <2>5 DEF Shape, Dated
        <3> QED BY <1>1, <1>2, <2>1, <2>2, <2>6, <3>1 DEF Shape
    <2>9. Asks'
        BY <2>2, <2>4, <2>5, <2>6, <2>7 DEF Asks
    <2>10. AllHeeded'
        <3>1. \A f \in Field : f \in Pending <=> f \in Pending'
            BY <2>1 DEF Pending, Left
        <3>2. \A c : c.kind = "set" => (c \in calls <=> c \in calls')
            BY <2>4, <2>5
        <3>3. \A f \in Field, w \in Values : Holds(f, w) => Holds(f, w)'
            BY <2>1 DEF Holds
        <3> QED BY <1>4, <3>1, <3>2, <3>3
    <2>11. ShowsWish'
        BY <2>4, <2>5, <2>6, <2>7 DEF ShowsWish
    <2> QED BY <2>8, <2>9, <2>10, <2>11 DEF Inv
<1>6. CASE ~open /\ page.open
    <2>1. /\ page' = Closed
          /\ debounce' = Quiet
          /\ orphans' = orphans \cup {<<f, debounce[f].last>> :
                                         f \in {g \in Field : debounce[g].last # None}}
          /\ calls' = {c \in calls : c.kind = "set"}
          /\ issued' = issued
        BY <1>6 DEF Go
    <2>2. ~page'.open /\ IsPage(page')
        BY <2>1 DEF Closed, IsPage
    <2>3. \A f \in Field : ~debounce'[f].on /\ debounce'[f].last = None
        BY <2>1 DEF Quiet, Idle
    <2>4. Shape'
        <3>1. debounce' \in [Field -> [on : BOOLEAN, last : Values \cup {None}]]
            BY <2>1 DEF Quiet, Idle
        <3>2. \A e \in orphans' : e \in Field \X Values
            BY <1>1, <2>1 DEF Shape
        <3>3. \A c \in calls' : IsCall(c) /\ Dated(c)'
            BY <1>1, <2>1 DEF Shape, Dated
        <3> QED BY <1>1, <1>2, <2>1, <2>2, <2>3, <3>1, <3>2, <3>3 DEF Shape
    <2>5. Asks'
        BY <2>1 DEF Asks
    <2>6. AllHeeded'
        <3>1. ASSUME NEW f \in Field PROVE f \in Left' <=> f \in Pending
            <4>1. ASSUME debounce[f].last # None PROVE f \in Left'
                <5>1. <<f, debounce[f].last>> \in orphans'
                    BY <2>1, <4>1
                <5> QED BY <5>1 DEF Left
            <4>2. ASSUME debounce[f].last = None PROVE f \in Left' <=> f \in Left
                BY <2>1, <4>2 DEF Left
            <4>3. f \in Left => f \in Left'
                BY <2>1 DEF Left
            <4> QED BY <4>1, <4>2, <4>3 DEF Pending
        <3>2. \A f \in Field : f \in Pending <=> f \in Pending'
            BY <2>3, <3>1 DEF Pending
        <3>3. \A c : c.kind = "set" => (c \in calls <=> c \in calls')
            BY <2>1
        <3>4. \A f \in Field, w \in Values : Holds(f, w) => Holds(f, w)'
            BY <2>1, <2>3 DEF Holds
        <3> QED BY <1>4, <3>2, <3>3, <3>4
    <2>7. ShowsWish'
        BY <2>1, <2>2 DEF ShowsWish
    <2> QED BY <2>4, <2>5, <2>6, <2>7 DEF Inv
<1>7. CASE open = page.open
    <2>1. UNCHANGED <<page, debounce, orphans, calls, issued>>
        BY <1>7 DEF Go
    <2>2. Shape'
        BY <1>1, <1>2, <1>7, <2>1 DEF Shape, Dated
    <2>3. Asks'
        BY <1>1, <2>1 DEF Asks
    <2>4. AllHeeded'
        <3>1. \A f \in Field : f \in Pending <=> f \in Pending'
            BY <2>1 DEF Pending, Left
        <3>2. \A f \in Field, w \in Values : Holds(f, w) => Holds(f, w)'
            BY <2>1 DEF Holds
        <3> QED BY <1>4, <2>1, <3>1, <3>2
    <2>5. ShowsWish'
        BY <1>1, <1>2, <1>3, <2>1 DEF ShowsWish
    <2> QED BY <2>2, <2>3, <2>4, <2>5 DEF Inv
<1> QED BY <1>5, <1>6, <1>7 DEF Go

LEMMA SetLevelInv ==
    ASSUME Inv, NEW l, SetLevel(l)
    PROVE  Inv'
<1>1. UNCHANGED <<conf, route, page, debounce, orphans, calls, issued, wish, lost>>
    BY DEF SetLevel, Click
<1> QED BY <1>1 DEF Inv, Shape, Dated, Asks, AllHeeded, Heeded, Arrives, SentTo, Holds, Pending, Left,
                    ShowsWish

LEMMA EditInv ==
    ASSUME Inv, NEW f \in Field, NEW v \in Values, Edit(f, v)
    PROVE  Inv'
<1> DEFINE m == [g \in Field |-> IF g = f THEN v
                                 ELSE IF f = Pw /\ g \in Hash THEN 0
                                 ELSE page.model[g]]
           F == {g \in Field : m[g] # page.model[g]}
<1>1. Shape /\ Asks /\ AllHeeded /\ ShowsWish
    BY DEF Inv
<1>2. page.open /\ page.model # None /\ page.of \in Bot /\ route \in Bot /\ page.model \in Model
    BY <1>1 DEF Edit, Shape
<1>3. m \in Model
    BY <1>2, SettingsAssumption DEF Model
<1>4. Changed(m, F)
    BY DEF Edit
<1>5. page' = [page EXCEPT !.model = m, !.stale = @ \ F]
    BY DEF Edit
<1>6. wish' = [wish EXCEPT ![route] = [g \in Field |-> IF g \in F THEN m[g] ELSE @[g]]]
    BY DEF Edit
<1>7. lost' = IF page.of = route
              THEN (lost \ ({route} \X (F \ Unsettled(route)))) \cup ({route} \X (F \cap Left))
              ELSE lost \cup ({page.of, route} \X F)
    BY DEF Edit
<1>8. UNCHANGED <<conf, route, orphans>>
    BY DEF Edit, Click
<1>9. F \subseteq Field /\ \A g \in Field : g \notin F => m[g] = page.model[g]
    OBVIOUS
<1> HIDE DEF m, F
<1>10. PICK now \in SUBSET {g \in F \cap Other : ~debounce[g].on} :
          /\ Send(now, m)
          /\ debounce' = [g \in Field |->
                IF g \notin F THEN debounce[g]
                ELSE [on |-> TRUE, last |-> IF g \in now THEN None ELSE m[g]]]
    BY <1>4 DEF Changed
<1>11. /\ Later /\ calls \subseteq calls'
       /\ \A c \in calls' \ calls : /\ IsCall(c) /\ c.n > issued[c.field] /\ Dated(c)'
                                    /\ c.kind = "set" /\ c.state = "sent" /\ c.bot = route
                                    /\ c.field \in now /\ c.val = m[c.field]
       /\ \A g \in now : \E c \in calls' \ calls : c.field = g
    <2>1. Sendable(now, m)
        BY <1>3, <1>9, <1>10 DEF Sendable, Model
    <2>2. Sent(now, m)
        BY <1>1, <1>10, <2>1, SendIs
    <2> QED BY <2>2 DEF Sent, IsNew
<1>12. page'.open /\ page'.of = page.of /\ page'.model = m /\ page'.stale = page.stale \ F
       /\ IsPage(page')
    BY <1>1, <1>2, <1>5 DEF Shape, IsPage
<1>13. \A g \in Field :
          /\ g \notin F => debounce'[g] = debounce[g]
          /\ g \in now => debounce'[g].on /\ debounce'[g].last = None
          /\ g \in F /\ g \notin now => debounce'[g].on /\ debounce'[g].last = m[g]
    BY <1>10
<1>14. /\ wish' \in [Bot -> Model]
       /\ \A b \in Bot, g \in Field :
             wish'[b][g] = IF b = route /\ g \in F THEN m[g] ELSE wish[b][g]
    BY <1>1, <1>2, <1>3, <1>6 DEF Shape, Model
<1>15. \A g \in Field : m[g] \in Values /\ m[g] # None
    BY <1>3, SettingsAssumption DEF Model
<1>16. Shape'
    <2>1. \A c \in calls' : IsCall(c) /\ Dated(c)'
        BY <1>1, <1>11, OldDated
    <2>2. debounce' \in [Field -> [on : BOOLEAN, last : Values \cup {None}]]
        BY <1>1, <1>10, <1>15 DEF Shape
    <2>3. \A g \in Field : /\ ~debounce'[g].on => debounce'[g].last = None
                           /\ g \in Text /\ debounce'[g].on => debounce'[g].last # None
        <3>1. \A g \in now : g \notin Text
            BY <1>10, SettingsAssumption
        <3> QED BY <1>1, <1>13, <1>15, <3>1 DEF Shape
    <2> QED BY <1>1, <1>2, <1>3, <1>8, <1>11, <1>12, <1>14, <2>1, <2>2, <2>3 DEF Shape, Later
<1>17. \A c \in calls' : c.kind # "get"
    BY <1>1, <1>2, <1>11 DEF Asks
<1>18. ASSUME NEW b \in Bot, NEW g \in Field, <<b, g>> \notin lost' PROVE Heeded(b, g)'
    <2>1. CASE b = route /\ g \in F
        <3>1. g \notin Left
            BY <1>7, <1>18, <2>1
        <3>2. wish'[b][g] = m[g]
            BY <1>14, <2>1
        <3>3. CASE g \in now
            <4>1. Arrives(b, g)'
                <5> DEFINE w == m[g]
                <5>1. \A c \in calls' \ calls : /\ c.kind = "set" /\ c.state = "sent" /\ c.bot = b
                                                /\ c.n \in Nat
                                                /\ (c.field = g => c.val = w /\ c.n > issued[g])
                    BY <1>11, <2>1 DEF IsCall
                <5>2. wish'[b][g] = w /\ \E c \in calls' \ calls : c.field = g
                    BY <1>11, <3>2, <3>3
                <5> HIDE DEF w
                <5> QED BY <1>1, <1>11, <5>1, <5>2, JustSent
            <4>2. g \notin Pending'
                BY <1>8, <1>13, <3>1, <3>3 DEF Pending, Left
            <4> QED BY <4>1, <4>2 DEF Heeded
        <3>4. CASE g \notin now
            <4>1. g \in Pending'
                BY <1>13, <1>15, <2>1, <3>4 DEF Pending
            <4>2. debounce'[g].last = m[g]
                BY <1>13, <2>1, <3>4
            <4>3. \A e \in orphans' : e[1] # g
                BY <1>8, <3>1 DEF Left
            <4>4. Holds(g, wish[b][g])'
                BY <1>8, <2>1, <3>2, <4>2, <4>3 DEF Holds
            <4> QED BY <1>8, <2>1, <4>1, <4>4 DEF Heeded
        <3> QED BY <3>3, <3>4
    <2>2. CASE ~(b = route /\ g \in F)
        <3>1. <<b, g>> \notin lost
            BY <1>7, <1>18, <2>2
        <3>2. Heeded(b, g)
            BY <1>1, <3>1 DEF AllHeeded
        <3>3. wish'[b][g] = wish[b][g]
            BY <1>14, <2>2
        <3>4. Arrives(b, g) => Arrives(b, g)'
            <4>1. \A c : c.kind = "set" /\ c.state = "sent" /\ c.bot = b /\ c.field = g
                             => (c \in calls <=> c \in calls')
                BY <1>10, <1>11, <2>2
            <4> QED BY <1>8, <3>3, <4>1, Unsent
        <3>5. b = route => /\ g \in Pending <=> g \in Pending'
                           /\ Holds(g, wish[b][g]) => Holds(g, wish[b][g])'
            BY <1>8, <1>13, <2>2, <3>3 DEF Pending, Left, Holds
        <3> QED BY <1>8, <3>2, <3>4, <3>5 DEF Heeded
    <2> QED BY <2>1, <2>2
<1>19. ShowsWish'
    <2>1. ASSUME NEW g \in Field \ page'.stale, <<page'.of, g>> \notin lost'
          PROVE  page'.model[g] = wish'[page'.of][g]
        <3>1. CASE g \in F
            <4>1. page.of = route
                BY <1>2, <1>7, <1>12, <2>1, <3>1
            <4> QED BY <1>2, <1>12, <1>14, <3>1, <4>1
        <3>2. CASE g \notin F
            <4>1. <<page.of, g>> \notin lost /\ g \notin page.stale
                BY <1>7, <1>12, <2>1, <3>2
            <4>2. page.model[g] = wish[page.of][g]
                BY <1>1, <1>2, <4>1 DEF ShowsWish
            <4> QED BY <1>2, <1>9, <1>12, <1>14, <3>2, <4>2
        <3> QED BY <3>1, <3>2
    <2> QED BY <1>17, <2>1 DEF ShowsWish
<1>20. Asks'
    BY <1>17 DEF Asks
<1> QED BY <1>16, <1>18, <1>19, <1>20 DEF Inv, AllHeeded

-----------------------------------------------------------------------------
(* The server *)

\* A request changes its state.
LEMMA NewState ==
    ASSUME NEW c, IsCall(c), NEW s \in {"sent", "ok", "failed"}
    PROVE  LET d == [c EXCEPT !.state = s]
           IN  /\ IsCall(d) /\ d.n = c.n /\ d.kind = c.kind /\ d.field = c.field
               /\ d.bot = c.bot /\ d.state = s
    BY DEF IsCall

\* Nothing of what waits, and of what was sent for f, has changed.
LEMMA SameHeeded ==
    ASSUME NEW b \in Bot, NEW f \in Field, Heeded(b, f),
           UNCHANGED <<route, debounce, orphans, wish>>,
           Arrives(b, f) => Arrives(b, f)'
    PROVE  Heeded(b, f)'
    BY DEF Heeded, Pending, Left, Holds

LEMMA ServeInv ==
    ASSUME Inv, NEW c \in calls, Serve(c)
    PROVE  Inv'
<1>1. Shape /\ Asks /\ AllHeeded /\ ShowsWish
    BY DEF Inv
<1>2. c.state = "sent" /\ IsCall(c) /\ Dated(c)
      /\ UNCHANGED <<route, page, debounce, orphans, issued, wish>>
    BY <1>1 DEF Serve, Shape
<1>3. CASE c.bot = Away /\ Answered(c, [c EXCEPT !.state = "failed"]) /\ UNCHANGED <<conf, lost>>
    <2>1. PICK d : d = [c EXCEPT !.state = "failed"]
        OBVIOUS
    <2>2. IsCall(d) /\ d.n = c.n /\ d.kind = c.kind /\ d.field = c.field /\ d.bot = c.bot /\ d.state = "failed"
        BY <1>2, <2>1, NewState
    <2>3. calls' = (calls \ {c}) \cup {d}
        BY <1>3, <2>1 DEF Answered
    <2>4. c.kind # "get"
        BY <1>1, <1>3, SettingsAssumption DEF Asks
    <2>5. Shape'
        BY <1>1, <1>2, <1>3, <2>2, <2>3 DEF Shape, Dated
    <2>6. Asks'
        BY <1>1, <1>2, <2>2, <2>3, <2>4 DEF Asks
    <2>7. AllHeeded'
        <3> SUFFICES ASSUME NEW b \in Bot, NEW f \in Field, <<b, f>> \notin lost'
                     PROVE  Heeded(b, f)'
            BY DEF AllHeeded
        <3>1. Heeded(b, f)
            BY <1>1, <1>3 DEF AllHeeded
        <3>2. \A e : e.kind = "set" /\ e.state = "sent" /\ e.bot = b /\ e.field = f
                         => (e \in calls <=> e \in calls')
            BY <1>3, <2>2, <2>3, SettingsAssumption
        <3>3. Arrives(b, f) => Arrives(b, f)'
            BY <1>2, <1>3, <3>2, Unsent
        <3> QED BY <1>2, <3>1, <3>3, SameHeeded
    <2>8. ShowsWish'
        BY <1>1, <1>2, <1>3, <2>2, <2>3 DEF ShowsWish
    <2> QED BY <2>5, <2>6, <2>7, <2>8 DEF Inv
<1>4. CASE /\ c.kind = "get"
           /\ Answered(c, [c EXCEPT !.state = "ok", !.res = conf[c.bot], !.stale = Unsettled(c.bot)])
           /\ UNCHANGED <<conf, lost>>
    <2>1. PICK d : d = [c EXCEPT !.state = "ok", !.res = conf[c.bot], !.stale = Unsettled(c.bot)]
        OBVIOUS
    <2>2. IsCall(d) /\ d.n = c.n /\ d.kind = c.kind /\ d.field = c.field /\ d.bot = c.bot /\ d.state = "ok"
          /\ d.res = conf[c.bot] /\ d.stale = Unsettled(c.bot)
        <3> DEFINE r == conf[c.bot]
                   t == Unsettled(c.bot)
        <3>1. d = [c EXCEPT !.state = "ok", !.res = r, !.stale = t]
            BY <2>1
        <3> HIDE DEF r, t
        <3>2. IsCall(d) /\ d.n = c.n /\ d.kind = c.kind /\ d.field = c.field /\ d.bot = c.bot /\ d.state = "ok"
              /\ d.res = r /\ d.stale = t
            BY <1>2, <3>1 DEF IsCall
        <3> QED BY <3>2 DEF r, t
    <2>3. calls' = (calls \ {c}) \cup {d}
        BY <1>4, <2>1 DEF Answered
    <2>4. c.bot \in Bot /\ conf[c.bot] \in Model
        BY <1>1, <1>4 DEF Asks, Shape
    <2>5. Shape'
        BY <1>1, <1>2, <1>4, <2>2, <2>3 DEF Shape, Dated
    <2>6. Asks'
        BY <1>1, <1>2, <1>4, <2>2, <2>3, <2>4 DEF Asks
    <2>7. AllHeeded'
        <3> SUFFICES ASSUME NEW b \in Bot, NEW f \in Field, <<b, f>> \notin lost'
                     PROVE  Heeded(b, f)'
            BY DEF AllHeeded
        <3>1. Heeded(b, f)
            BY <1>1, <1>4 DEF AllHeeded
        <3>2. \A e : e.kind = "set" /\ e.state = "sent" /\ e.bot = b /\ e.field = f
                         => (e \in calls <=> e \in calls')
            BY <1>4, <2>2, <2>3
        <3>3. Arrives(b, f) => Arrives(b, f)'
            BY <1>2, <1>4, <3>2, Unsent
        <3> QED BY <1>2, <3>1, <3>3, SameHeeded
    <2>8. ShowsWish'
        <3>1. ASSUME NEW f \in Field \ d.stale, <<d.bot, f>> \notin lost'
              PROVE  d.res[f] = wish'[d.bot][f]
            <4>1. Heeded(c.bot, f) /\ f \notin Pending
                BY <1>1, <1>4, <2>2, <2>4, <3>1 DEF AllHeeded, Unsettled
            <4>2. SentTo(c.bot, f) = {}
                BY <2>2, <3>1 DEF SentTo, Unsettled, Underway
            <4> QED BY <1>2, <2>2, <4>1, <4>2 DEF Heeded, Arrives
        <3> QED BY <1>1, <1>2, <1>4, <2>2, <2>3, <3>1 DEF ShowsWish
    <2> QED BY <2>5, <2>6, <2>7, <2>8 DEF Inv
<1>5. CASE /\ c.kind = "set" /\ c.bot # Away
           /\ conf' = After(c)
           /\ lost' = IF Overtakes(c) THEN lost \cup {<<c.bot, c.field>>} ELSE lost
           /\ Answered(c, [c EXCEPT !.state = "ok"])
    <2>1. PICK d : d = [c EXCEPT !.state = "ok"]
        OBVIOUS
    <2>2. IsCall(d) /\ d.n = c.n /\ d.kind = c.kind /\ d.field = c.field /\ d.bot = c.bot /\ d.state = "ok"
        BY <1>2, <2>1, NewState
    <2>3. calls' = (calls \ {c}) \cup {d}
        BY <1>5, <2>1 DEF Answered
    <2>4. c.bot \in Bot /\ c.field \in Field /\ c.val \in Values
        BY <1>2, <1>5 DEF IsCall
    <2>5. /\ conf' \in [Bot -> Model]
          /\ \A b \in Bot, f \in Field :
                conf'[b][f] = IF b = c.bot /\ f = c.field THEN c.val ELSE conf[b][f]
        BY <1>1, <1>5, <2>4 DEF Shape, Model, After
    <2>6. lost \subseteq lost'
        BY <1>5
    <2>7. Shape'
        BY <1>1, <1>2, <2>2, <2>3, <2>5 DEF Shape, Dated
    <2>8. Asks'
        BY <1>1, <1>2, <1>5, <2>2, <2>3 DEF Asks
    <2>9. AllHeeded'
        <3> SUFFICES ASSUME NEW b \in Bot, NEW f \in Field, <<b, f>> \notin lost'
                     PROVE  Heeded(b, f)'
            BY DEF AllHeeded
        <3>1. Heeded(b, f)
            BY <1>1, <2>6 DEF AllHeeded
        <3>2. CASE b = c.bot /\ f = c.field
            <4>1. ~Overtakes(c)
                BY <1>5, <3>2
            <4>2. c \in SentTo(b, f) /\ SentTo(b, f)' = SentTo(b, f) \ {c}
                BY <1>2, <1>5, <2>2, <2>3, <3>2 DEF SentTo
            <4>3. \A e \in SentTo(b, f) : e.n \in Nat /\ c.n \in Nat /\ c.n <= e.n
                BY <1>1, <1>2, <3>2, <4>1 DEF Overtakes, SentTo, Shape, IsCall
            <4>4. ASSUME Arrives(b, f) PROVE Arrives(b, f)'
                <5>1. ASSUME NEW e \in SentTo(b, f)', \A x \in SentTo(b, f)' : x.n <= e.n
                      PROVE  e.val = wish'[b][f]
                    <6>1. e \in SentTo(b, f) /\ \A x \in SentTo(b, f) : x.n <= e.n
                        BY <4>2, <4>3, <5>1
                    <6> QED BY <1>2, <4>4, <6>1 DEF Arrives
                <5>2. ASSUME SentTo(b, f)' = {} PROVE conf'[b][f] = wish'[b][f]
                    <6>1. SentTo(b, f) = {c}
                        BY <4>2, <5>2
                    <6>2. c.val = wish[b][f]
                        BY <1>2, <4>2, <4>3, <4>4, <6>1 DEF Arrives
                    <6> QED BY <1>2, <2>5, <3>2, <6>2
                <5> QED BY <5>1, <5>2 DEF Arrives
            <4> QED BY <1>2, <3>1, <4>4, SameHeeded
        <3>3. CASE ~(b = c.bot /\ f = c.field)
            <4>1. \A e : e.kind = "set" /\ e.state = "sent" /\ e.bot = b /\ e.field = f
                             => (e \in calls <=> e \in calls')
                BY <2>2, <2>3, <3>3
            <4>2. Arrives(b, f) => Arrives(b, f)'
                BY <1>2, <2>5, <3>3, <4>1, Unsent
            <4> QED BY <1>2, <3>1, <4>2, SameHeeded
        <3> QED BY <3>2, <3>3
    <2>10. ShowsWish'
        BY <1>1, <1>2, <1>5, <2>2, <2>3, <2>6 DEF ShowsWish
    <2> QED BY <2>7, <2>8, <2>9, <2>10 DEF Inv
<1> QED BY <1>3, <1>4, <1>5 DEF Serve

LEMMA FailInv ==
    ASSUME Inv, NEW c \in calls, Fail(c)
    PROVE  Inv'
<1>1. Shape /\ Asks /\ AllHeeded /\ ShowsWish
    BY DEF Inv
<1>2. /\ c.state = "sent" /\ c.bot # Away /\ IsCall(c) /\ Dated(c)
      /\ conf' \in {conf} \cup (IF c.kind = "set" THEN {After(c)} ELSE {})
      /\ lost' = IF c.kind = "set" THEN lost \cup {<<c.bot, c.field>>} ELSE lost
      /\ UNCHANGED <<route, page, debounce, orphans, issued, wish>>
    BY <1>1 DEF Fail, Shape
<1>3. PICK d : d = [c EXCEPT !.state = "failed"]
    OBVIOUS
<1>4. IsCall(d) /\ d.n = c.n /\ d.kind = c.kind /\ d.field = c.field /\ d.bot = c.bot /\ d.state = "failed"
    BY <1>2, <1>3, NewState
<1>5. calls' = (calls \ {c}) \cup {d}
    BY <1>3 DEF Answered, Fail
<1>6. /\ conf' \in [Bot -> Model]
      /\ \A b \in Bot, f \in Field :
            conf'[b][f] # conf[b][f] => c.kind = "set" /\ b = c.bot /\ f = c.field
    <2>1. CASE conf' = conf
        BY <1>1, <2>1 DEF Shape
    <2>2. CASE c.kind = "set" /\ conf' = After(c)
        <3>1. c.bot \in Bot /\ c.field \in Field /\ c.val \in Values
            BY <1>2, <2>2 DEF IsCall
        <3> QED BY <1>1, <2>2, <3>1 DEF Shape, Model, After
    <2> QED BY <1>2, <2>1, <2>2
<1>7. lost \subseteq lost'
    BY <1>2
<1>8. Shape'
    BY <1>1, <1>2, <1>4, <1>5, <1>6 DEF Shape, Dated
<1>9. Asks'
    BY <1>1, <1>2, <1>4, <1>5 DEF Asks
<1>10. AllHeeded'
    <2> SUFFICES ASSUME NEW b \in Bot, NEW f \in Field, <<b, f>> \notin lost'
                 PROVE  Heeded(b, f)'
        BY DEF AllHeeded
    <2>1. Heeded(b, f)
        BY <1>1, <1>7 DEF AllHeeded
    <2>2. ~(c.kind = "set" /\ b = c.bot /\ f = c.field)
        BY <1>2
    <2>3. \A e : e.kind = "set" /\ e.state = "sent" /\ e.bot = b /\ e.field = f
                     => (e \in calls <=> e \in calls')
        BY <1>4, <1>5, <2>2
    <2>4. Arrives(b, f) => Arrives(b, f)'
        BY <1>2, <1>6, <2>2, <2>3, Unsent
    <2> QED BY <1>2, <2>1, <2>4, SameHeeded
<1>11. ShowsWish'
    BY <1>1, <1>2, <1>4, <1>5, <1>7 DEF ShowsWish
<1> QED BY <1>8, <1>9, <1>10, <1>11 DEF Inv

LEMMA ResumeInv ==
    ASSUME Inv, NEW c \in calls, Resume(c)
    PROVE  Inv'
<1>1. Shape /\ Asks /\ AllHeeded /\ ShowsWish
    BY DEF Inv
<1>2. /\ c.state # "sent" /\ calls' = calls \ {c}
      /\ issued' = [f \in Field |-> IF \E d \in calls' : d.field = f THEN issued[f] ELSE 0]
      /\ UNCHANGED <<conf, route, debounce, orphans, wish, lost>>
    BY DEF Resume
<1>3. IsPage(page')
      /\ page'.open = page.open
      /\ CASE c.kind = "get" /\ c.state = "ok" ->
                  page'.model = c.res /\ page'.stale = c.stale /\ page'.of = c.bot
           [] OTHER -> page' = page
    BY <1>1 DEF Resume, Shape, IsPage
<1>4. c.kind = "get" /\ c.state = "ok" =>
          /\ page.open /\ c.bot \in Bot /\ c.res \in Model
          /\ \A d \in calls' : d.kind # "get"
    BY <1>1, <1>2 DEF Asks
<1>5. Shape'
    <2>1. issued' \in [Field -> Nat]
        BY <1>1, <1>2 DEF Shape
    <2>2. ASSUME NEW d \in calls' PROVE IsCall(d) /\ Dated(d)'
        <3>1. d \in calls /\ IsCall(d) /\ Dated(d)
            BY <1>1, <1>2, <2>2 DEF Shape
        <3>2. d.kind = "set" => issued'[d.field] = issued[d.field]
            BY <1>2, <2>2, <3>1 DEF IsCall
        <3> QED BY <3>1, <3>2 DEF Dated
    <2> QED BY <1>1, <1>2, <1>3, <1>4, <2>1, <2>2 DEF Shape
<1>6. Asks'
    BY <1>1, <1>2, <1>3, <1>4 DEF Asks
<1>7. AllHeeded'
    <2> SUFFICES ASSUME NEW b \in Bot, NEW f \in Field, <<b, f>> \notin lost'
                 PROVE  Heeded(b, f)'
        BY DEF AllHeeded
    <2>1. Heeded(b, f)
        BY <1>1, <1>2 DEF AllHeeded
    <2>2. \A e : e.kind = "set" /\ e.state = "sent" /\ e.bot = b /\ e.field = f
                     => (e \in calls <=> e \in calls')
        BY <1>2
    <2>3. Arrives(b, f) => Arrives(b, f)'
        BY <1>2, <2>2, Unsent
    <2> QED BY <1>2, <2>1, <2>3, SameHeeded
<1>8. ShowsWish'
    <2>1. CASE c.kind = "get" /\ c.state = "ok"
        BY <1>1, <1>2, <1>3, <1>4, <2>1 DEF ShowsWish
    <2>2. CASE ~(c.kind = "get" /\ c.state = "ok")
        BY <1>1, <1>2, <1>3, <2>2 DEF ShowsWish
    <2> QED BY <2>1, <2>2
<1> QED BY <1>5, <1>6, <1>7, <1>8 DEF Inv

-----------------------------------------------------------------------------
(* Whoever else writes *)

\* The request d is c; if c is an answer the write comes after, it is told that
\* its fields F are not the newest.
Made(c, F, here) == IF here THEN [c EXCEPT !.stale = @ \cup F] ELSE c

Told(c, d, F, here) ==
    /\ d = Made(c, F, here)
    /\ \/ d = c /\ ~here
       \/ here /\ d.stale = c.stale \cup F
    /\ IsCall(d) /\ d.n = c.n /\ d.kind = c.kind /\ d.bot = c.bot /\ d.field = c.field
    /\ d.val = c.val /\ d.state = c.state /\ d.res = c.res

Here(c, b) == c.kind = "get" /\ c.state = "ok" /\ c.bot = b

\* A write changes the fields F that nothing of the user's is still to come for
\* in what is wanted, and tells the page and the answers of the bot.
Writes(b, m, F) ==
    /\ \A f \in Field : f \in F <=> m[f] # conf[b][f] /\ f \notin Awaited(b)
    /\ conf' \in [Bot -> Model] /\ wish' \in [Bot -> Model]
    /\ \A a \in Bot, f \in Field :
          /\ conf'[a][f] = IF a = b THEN m[f] ELSE conf[a][f]
          /\ wish'[a][f] = IF a = b /\ f \in F THEN m[f] ELSE wish[a][f]
    /\ IsPage(page') /\ page'.open = page.open /\ page'.of = page.of /\ page'.model = page.model
    /\ IF page.of = b THEN page'.stale = page.stale \cup F ELSE page' = page
    /\ \A d \in calls' : \E c \in calls : Told(c, d, F, Here(c, b))
    /\ \A c \in calls : c.kind = "set" => c \in calls'

LEMMA WrittenIs ==
    ASSUME Shape, NEW b \in Bot, NEW m \in Model, Written(b, m)
    PROVE  \E F \in SUBSET Field : Writes(b, m, F)
<1> DEFINE F == {f \in Field : m[f] # conf[b][f]} \ Awaited(b)
<1>1. F \in SUBSET Field /\ \A f \in Field : f \in F <=> m[f] # conf[b][f] /\ f \notin Awaited(b)
    OBVIOUS
<1>2. /\ conf' = [conf EXCEPT ![b] = m]
      /\ wish' = [wish EXCEPT ![b] = [f \in Field |-> IF f \in F THEN m[f] ELSE @[f]]]
      /\ page' = IF page.of = b THEN [page EXCEPT !.stale = @ \cup F] ELSE page
      /\ calls' = {Made(c, F, Here(c, b)) : c \in calls}
    BY DEF Written, Made, Here
<1> HIDE DEF F
<1>3. /\ conf' \in [Bot -> Model] /\ wish' \in [Bot -> Model]
      /\ \A a \in Bot, f \in Field :
            /\ conf'[a][f] = IF a = b THEN m[f] ELSE conf[a][f]
            /\ wish'[a][f] = IF a = b /\ f \in F THEN m[f] ELSE wish[a][f]
    BY <1>2 DEF Shape, Model
<1>4. /\ IsPage(page') /\ page'.open = page.open /\ page'.of = page.of /\ page'.model = page.model
      /\ IF page.of = b THEN page'.stale = page.stale \cup F ELSE page' = page
    BY <1>2 DEF Shape, IsPage
<1>5. ASSUME NEW c \in calls PROVE Told(c, Made(c, F, Here(c, b)), F, Here(c, b))
    <2>1. IsCall(c)
        BY DEF Shape
    <2>2. CASE Here(c, b)
        <3>1. PICK t : t = c.stale \cup F
            OBVIOUS
        <3>2. PICK d : d = [c EXCEPT !.stale = t]
            OBVIOUS
        <3>3. Made(c, F, Here(c, b)) = d
            BY <2>2, <3>1, <3>2 DEF Made
        <3>4. /\ IsCall(d) /\ d.n = c.n /\ d.kind = c.kind /\ d.bot = c.bot /\ d.field = c.field
              /\ d.val = c.val /\ d.state = c.state /\ d.res = c.res /\ d.stale = t
            BY <2>1, <3>2 DEF IsCall
        <3> QED BY <2>2, <3>1, <3>3, <3>4 DEF Told
    <2>3. CASE ~Here(c, b)
        BY <2>1, <2>3 DEF Told, Made
    <2> QED BY <2>2, <2>3
<1>6. \A d \in calls' : \E c \in calls : Told(c, d, F, Here(c, b))
    BY <1>2, <1>5
<1>7. ASSUME NEW c \in calls, c.kind = "set" PROVE c \in calls'
    <2>1. Made(c, F, Here(c, b)) = c
        BY <1>7 DEF Made, Here
    <2> QED BY <1>2, <2>1
<1> QED BY <1>1, <1>3, <1>4, <1>6, <1>7 DEF Writes

LEMMA WrittenInv ==
    ASSUME Inv, NEW b \in Bot, NEW m \in Model, Written(b, m)
    PROVE  Inv'
<1>1. Shape /\ Asks /\ AllHeeded /\ ShowsWish
    BY DEF Inv
<1>2. UNCHANGED <<route, debounce, orphans, issued, lost>>
    BY DEF Written
<1>3. PICK F \in SUBSET Field : Writes(b, m, F)
    BY <1>1, WrittenIs
<1>4. ASSUME NEW d \in calls' PROVE \E c \in calls : Told(c, d, F, Here(c, b))
    BY <1>3 DEF Writes
<1>5. \A c : c.kind = "set" => (c \in calls <=> c \in calls')
    <2>1. ASSUME NEW d \in calls', d.kind = "set" PROVE d \in calls
        <3>1. PICK c \in calls : Told(c, d, F, Here(c, b))
            BY <1>4
        <3> QED BY <2>1, <3>1 DEF Told, Here
    <2> QED BY <1>3, <2>1 DEF Writes
<1>6. Shape'
    <2>1. ASSUME NEW d \in calls' PROVE IsCall(d) /\ Dated(d)'
        <3>1. PICK c \in calls : Told(c, d, F, Here(c, b))
            BY <1>4
        <3>2. Dated(c)
            BY <1>1 DEF Shape
        <3> QED BY <1>2, <3>1, <3>2 DEF Told, Dated
    <2>2. ~page.open => page' = page
        BY <1>1, <1>3, SettingsAssumption DEF Shape, Closed, Writes
    <2> QED BY <1>1, <1>2, <1>3, <2>1, <2>2 DEF Shape, Writes
<1>7. Asks'
    <2>1. ASSUME NEW d \in calls', d.kind = "get"
          PROVE  /\ page'.open /\ page'.model = None
                 /\ d.bot \in Bot /\ (d.state = "ok" => d.res \in Model)
        <3>1. PICK c \in calls : Told(c, d, F, Here(c, b))
            BY <1>4
        <3> QED BY <1>1, <1>3, <2>1, <3>1 DEF Asks, Told, Writes
    <2>2. ASSUME NEW d \in calls', NEW e \in calls', d.kind = "get", e.kind = "get"
          PROVE  d = e
        <3>1. PICK c \in calls : Told(c, d, F, Here(c, b))
            BY <1>4
        <3>2. PICK x \in calls : Told(x, e, F, Here(x, b))
            BY <1>4
        <3>3. c = x
            BY <1>1, <2>2, <3>1, <3>2 DEF Asks, Told
        <3> QED BY <3>1, <3>2, <3>3 DEF Told
    <2> QED BY <2>1, <2>2 DEF Asks
<1>8. ASSUME NEW a \in Bot, NEW f \in Field, <<a, f>> \notin lost' PROVE Heeded(a, f)'
    <2>1. Heeded(a, f)
        BY <1>1, <1>2, <1>8 DEF AllHeeded
    <2>2. SentTo(a, f)' = SentTo(a, f)
        BY <1>5 DEF SentTo
    <2>3. (f \in Pending <=> f \in Pending') /\ \A v : Holds(f, v) <=> Holds(f, v)'
        BY <1>2 DEF Pending, Left, Holds
    <2>4. f \in Awaited(a) <=> (a = route /\ f \in Pending) \/ SentTo(a, f) # {}
        BY DEF Awaited, SentTo
    <2>5. CASE a = b /\ f \in F
        <3>1. f \notin Awaited(b) /\ conf'[a][f] = wish'[a][f]
            BY <1>3, <2>5 DEF Writes
        <3>2. Arrives(a, f)' /\ ~(a = route /\ f \in Pending)
            BY <2>2, <2>4, <2>5, <3>1 DEF Arrives
        <3> QED BY <1>2, <2>3, <3>2 DEF Heeded
    <2>6. CASE ~(a = b /\ f \in F)
        <3>1. wish'[a][f] = wish[a][f]
            BY <1>3, <2>6 DEF Writes
        <3>2. CASE a = route /\ f \in Pending
            <4>1. Holds(f, wish[a][f])
                BY <2>1, <3>2 DEF Heeded
            <4>2. Holds(f, wish[a][f])'
                BY <1>2, <3>1, <4>1 DEF Holds
            <4> QED BY <1>2, <2>3, <3>2, <4>2 DEF Heeded
        <3>3. CASE ~(a = route /\ f \in Pending)
            <4>1. Arrives(a, f)
                BY <2>1, <3>3 DEF Heeded
            <4>2. SentTo(a, f) = {} => conf'[a][f] = conf[a][f]
                BY <1>3, <2>4, <2>6, <3>3 DEF Writes
            <4>3. Arrives(a, f)'
                BY <2>2, <3>1, <4>1, <4>2 DEF Arrives
            <4> QED BY <1>2, <2>3, <3>3, <4>3 DEF Heeded
        <3> QED BY <3>2, <3>3
    <2> QED BY <2>5, <2>6
<1>9. ShowsWish'
    <2>1. ASSUME page'.open, page'.model # None, NEW f \in Field \ page'.stale, <<page'.of, f>> \notin lost'
          PROVE  page'.model[f] = wish'[page'.of][f]
        <3>1. page.of \in Bot /\ f \notin page.stale /\ ~(page.of = b /\ f \in F)
            BY <1>1, <1>3, <2>1 DEF Shape, Writes
        <3>2. page.model[f] = wish[page.of][f]
            BY <1>1, <1>2, <1>3, <2>1, <3>1 DEF ShowsWish, Writes
        <3> QED BY <1>3, <3>1, <3>2 DEF Writes
    <2>2. ASSUME NEW d \in calls', d.kind = "get", d.state = "ok",
                 NEW f \in Field \ d.stale, <<d.bot, f>> \notin lost'
          PROVE  d.res[f] = wish'[d.bot][f]
        <3>1. PICK c \in calls : Told(c, d, F, Here(c, b))
            BY <1>4
        <3>2. c.kind = "get" /\ c.state = "ok" /\ c.bot = d.bot /\ c.res = d.res
              /\ f \notin c.stale /\ ~(c.bot = b /\ f \in F)
            BY <2>2, <3>1 DEF Told, Here
        <3>3. c.bot \in Bot /\ c.res[f] = wish[c.bot][f]
            BY <1>1, <1>2, <2>2, <3>2 DEF ShowsWish, Asks
        <3> QED BY <1>3, <3>2, <3>3 DEF Writes
    <2> QED BY <2>1, <2>2 DEF ShowsWish
<1> QED BY <1>6, <1>7, <1>8, <1>9 DEF Inv, AllHeeded

LEMMA OthersInv ==
    ASSUME Inv, NEW b \in Bot, Foreign(b) \/ HashOnRead(b)
    PROVE  Inv'
<1>1. conf[b] \in Model /\ Pw \in Field /\ Hashed \in Field /\ 1 \in Values
    BY SettingsAssumption DEF Inv, Shape, Field
<1>2. \A f \in Field : Choices(f) \subseteq Values
    BY SettingsAssumption DEF Choices
<1>3. CASE Foreign(b)
    <2>1. PICK f \in Field : \E v \in Choices(f) : Written(b, [conf[b] EXCEPT ![f] = v])
        BY <1>3 DEF Foreign
    <2>2. PICK v \in Choices(f) : Written(b, [conf[b] EXCEPT ![f] = v])
        BY <2>1
    <2>3. [conf[b] EXCEPT ![f] = v] \in Model
        BY <1>1, <1>2, <2>2 DEF Model
    <2> QED BY <2>2, <2>3, WrittenInv
<1>4. CASE HashOnRead(b)
    <2>1. PICK h \in Choices(Pw) : Written(b, [conf[b] EXCEPT ![Pw] = h, ![Hashed] = 1])
        BY <1>4 DEF HashOnRead
    <2>2. [conf[b] EXCEPT ![Pw] = h, ![Hashed] = 1] \in Model
        BY <1>1, <1>2, <2>1 DEF Model
    <2> QED BY <2>1, <2>2, WrittenInv
<1> QED BY <1>3, <1>4

-----------------------------------------------------------------------------
(* The specification *)

LEMMA InitInv == Init => Inv
<1> SUFFICES ASSUME Init PROVE Inv
    OBVIOUS
<1>1. /\ page.open /\ page.of = route /\ page.model = None /\ IsPage(page)
      /\ route \in Bot
    BY DEF Init, Closed, IsPage
<1>2. \A c \in calls : IsCall(c) /\ c.kind = "get" /\ c.bot = route /\ c.state = "sent"
    BY <1>1, GetIs DEF Init
<1>3. \A f \in Field : debounce[f] = Idle
    BY DEF Init, Quiet
<1>4. Shape
    <2>1. Idle \in [on : BOOLEAN, last : Values \cup {None}] /\ ~Idle.on /\ Idle.last = None
        BY DEF Idle
    <2>2. debounce \in [Field -> [on : BOOLEAN, last : Values \cup {None}]]
        BY <2>1 DEF Init, Quiet
    <2>3. conf \in [Bot -> Model] /\ wish = conf /\ orphans = {}
        BY SettingsAssumption DEF Init, Model
    <2>4. issued \in [Field -> Nat]
        BY DEF Init
    <2> QED BY <1>1, <1>2, <1>3, <2>1, <2>2, <2>3, <2>4 DEF Shape, Dated
<1>5. Asks
    <2>1. \A c \in calls : c = Get(route)
        BY DEF Init
    <2> QED BY <1>1, <1>2, <2>1 DEF Asks
<1>6. AllHeeded
    <2>1. \A b \in Bot, f \in Field : Arrives(b, f)
        BY <1>2 DEF Init, Arrives, SentTo
    <2>2. Pending = {}
        BY <1>3 DEF Init, Pending, Left, Idle
    <2> QED BY <2>1, <2>2 DEF AllHeeded, Heeded
<1>7. ShowsWish
    BY <1>1, <1>2 DEF ShowsWish
<1> QED BY <1>4, <1>5, <1>6, <1>7 DEF Inv

LEMMA StepInv == Inv /\ [Next]_vars => Inv'
<1> SUFFICES ASSUME Inv, [Next]_vars PROVE Inv'
    OBVIOUS
<1>1. CASE User
    <2>1. \A f \in Field : Choices(f) \subseteq Values
        BY SettingsAssumption DEF Choices
    <2> QED BY <1>1, <2>1, GoInv, SetLevelInv, EditInv DEF User
<1>2. CASE \E f \in Field : Fire(f)
    BY <1>2, FireInv
<1>3. CASE \E e \in orphans : FireOrphan(e)
    BY <1>3, FireOrphanInv
<1>4. CASE \E c \in calls : Serve(c) \/ Fail(c) \/ Resume(c)
    BY <1>4, ServeInv, FailInv, ResumeInv
<1>5. CASE UNCHANGED vars
    <2>1. UNCHANGED <<conf, route, page, debounce, orphans, calls, issued, wish, lost>>
        BY <1>5
    <2> QED BY <2>1 DEF Inv, Shape, Dated, Asks, AllHeeded, Heeded, Arrives, SentTo, Holds, Pending, Left,
                        ShowsWish
<1>6. CASE \E b \in Bot : Foreign(b) \/ HashOnRead(b)
    BY <1>6, OthersInv
<1> QED BY <1>1, <1>2, <1>3, <1>4, <1>5, <1>6 DEF Next

\* A setting that nothing interfered with, that does not wait and is not under
\* way, is on the server as the user wants it.
LEMMA SettledIsWish ==
    ASSUME Inv, NEW b \in Bot, NEW f \in Field \ Unsettled(b), <<b, f>> \notin lost
    PROVE  conf[b][f] = wish[b][f]
<1>1. Heeded(b, f) /\ f \notin Pending
    BY DEF Inv, AllHeeded, Unsettled
<1>2. SentTo(b, f) = {}
    BY DEF SentTo, Unsettled, Underway
<1> QED BY <1>1, <1>2 DEF Heeded, Arrives

\* Every part of the state has its type; a debounced function holds a value only
\* while its timer runs (the watches of BotSettings.vue).
THEOREM SettingsTyped == Spec => []TypeOK
<1>1. Inv => TypeOK
    BY DEF Inv, Shape, Model, TypeOK
<1> QED BY <1>1, InitInv, StepInv, PTL DEF Spec

\* What the user sets on the page of BotSettings.vue is, when nothing waits and
\* nothing is under way, what the bot has: for every number of fields, bots,
\* clicks and requests that overlap.
THEOREM EveryEditArrives == Spec => []EditsArrive
<1>1. Inv => EditsArrive
    BY SettledIsWish DEF EditsArrive
<1> QED BY <1>1, InitInv, StepInv, PTL DEF Spec

\* What the fields of BotSettings.vue show, as far as nothing waits or is under
\* way, is what the bot in the address has.
THEOREM WhatIsShownIsSaved == Spec => []ShownIsSaved
<1>1. Inv => ShownIsSaved
    <2> SUFFICES ASSUME Inv, page.open, page.model # None, page.of = route,
                        NEW f \in Field \ (Unsettled(route) \cup page.stale), <<route, f>> \notin lost
                 PROVE  page.model[f] = conf[route][f]
        BY DEF ShownIsSaved
    <2>1. page.model[f] = wish[route][f]
        BY DEF Inv, ShowsWish
    <2>2. route \in Bot
        BY DEF Inv, Shape
    <2>3. conf[route][f] = wish[route][f]
        BY <2>2, SettledIsWish
    <2> QED BY <2>1, <2>3
<1> QED BY <1>1, InitInv, StepInv, PTL DEF Spec

=============================================================================
