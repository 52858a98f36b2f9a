---------------------------- MODULE BotPageProofs ----------------------------
(***************************************************************************)
(* What the page of one bot keeps true of its timers, of the modes and of  *)
(* the volume, for every length of a song, every number of clicks and of   *)
(* requests that overlap.                                                  *)
(*                                                                         *)
(* A request to seek counts only if it found the clock running: another    *)
(* leaves the clock as it finds it.  So what watches a song that is shown  *)
(* as playing is the clock, the echo, a request that will tell of the      *)
(* song, or a seek that will start the clock again.                        *)
(*                                                                         *)
(* The player counts the changes of its modes.  An answer tells of them as *)
(* they were at its count, so that of two answers the later is known.      *)
(*                                                                         *)
(* What the page shows comes from the player or from a slider, and goes    *)
(* back to it: types are kept by the whole circle, the requests that are   *)
(* under way and the player included.                                      *)
(***************************************************************************)
EXTENDS BotPage, FiniteSetTheorems, TLAPS

IsInfo(x) == x \in [id : {x.id}, paused : {x.paused}, pos : {x.pos}, set : {x.set}]

IsCall(c) == c \in [n : {c.n}, kind : {c.kind}, arg : {c.arg}, was : {c.was}, state : {c.state},
                    song : {c.song}, set : {c.set}, at : {c.at}]

Shape == IsInfo(info) /\ \A c \in calls : IsCall(c)

\* The sixth echo is the last, and asks.
Echoes == echoTick => echoCounter \in 0 .. 5

Watcher(c) == c.kind \in {"refresh", "play", "pause"} \/ (c.kind = "seek" /\ c.was)

Watched == /\ info.id # Null /\ ~info.paused /\ ~broken
           => playTick \/ echoTick \/ \E c \in calls : Watcher(c)

Inv == Shape /\ Echoes /\ Watched

USE DEF timers, volume, modes, bounds, vars

\* A step that stops no clock, and loses no request that watches.
LEMMA Kept ==
    ASSUME Inv, Shape', Echoes', info'.id = info.id, info'.paused = info.paused, broken => broken',
           playTick => playTick', echoTick => echoTick',
           \A c \in calls : Watcher(c) => \E d \in calls' : Watcher(d)
    PROVE  Inv'
    BY DEF Inv, Watched

LEMMA RequestIs ==
    ASSUME NEW n, NEW kind, NEW arg
    PROVE  LET c == Request(n, kind, arg)
           IN  IsCall(c) /\ c.kind = kind /\ (c.was <=> kind = "seek" /\ playTick)
<1> DEFINE w == kind = "seek" /\ playTick
           c == Request(n, kind, arg)
<1>1. c = [n |-> n, kind |-> kind, arg |-> arg, was |-> w,
           state |-> "sent", song |-> NoSong, set |-> Zero, at |-> 0]
    BY Zenon DEF Request
<1>2. w <=> kind = "seek" /\ playTick
    OBVIOUS
<1> HIDE DEF w, c
<1>3. IsCall(c) /\ c.kind = kind /\ c.was = w
    BY <1>1 DEF IsCall
<1> QED BY <1>2, <1>3 DEF c

\* One request more.
LEMMA AskIs ==
    ASSUME Shape, NEW kind, NEW arg, Ask(kind, arg)
    PROVE  /\ calls \subseteq calls' /\ \A c \in calls' : IsCall(c)
           /\ \E c \in calls' : c.kind = kind /\ (c.was <=> kind = "seek" /\ playTick)
<1> DEFINE d == Request(Free, kind, arg)
<1>1. calls' = calls \cup {d}
    BY DEF Ask
<1>2. IsCall(d) /\ d.kind = kind /\ (d.was <=> kind = "seek" /\ playTick)
    BY RequestIs
<1> HIDE DEF d
<1> QED BY <1>1, <1>2 DEF Shape

-----------------------------------------------------------------------------
(* The timers *)

LEMMA PlayTickInv ==
    ASSUME Inv, PlayTick
    PROVE  Inv'
<1>1. UNCHANGED <<calls, broken>> /\ playTick
    BY DEF PlayTick
<1>2. CASE info.id = Null /\ UNCHANGED <<info, echoTick, echoCounter>>
    BY <1>1, <1>2 DEF Inv, Shape, Echoes, Watched
<1>3. CASE ShowSong(SongOf(info), info.pos + 1, playTick) /\ UNCHANGED <<echoTick, echoCounter>> /\ info.id # Null
    <2>1. IsInfo(info') /\ info'.id = info.id /\ info'.paused = info.paused
        BY <1>3 DEF ShowSong, SongOf, IsInfo, Inv, Shape
    <2>2. info.id # Null /\ ~info.paused => playTick'
        BY <1>3 DEF ShowSong, UpdateTimers, SongOf, Playing
    <2> QED BY <1>1, <1>3, <2>1, <2>2 DEF Inv, Shape, Echoes, Watched
<1>4. CASE StartEcho /\ UNCHANGED info
    BY <1>1, <1>4 DEF StartEcho, Inv, Shape, Echoes, Watched
<1> QED BY <1>2, <1>3, <1>4 DEF PlayTick

LEMMA EchoTickInv ==
    ASSUME Inv, EchoTick
    PROVE  Inv'
<1>1. UNCHANGED <<info, playTick, broken>> /\ echoCounter \in 0 .. 5 /\ echoCounter' = echoCounter + 1
    BY DEF EchoTick, Inv, Echoes
<1>2. echoTick' <=> echoCounter + 1 < 6
    BY Zenon DEF EchoTick
<1>3. Echoes'
    BY <1>1, <1>2 DEF Echoes
<1>4. CASE Ask("refresh", 0)
    <2>1. /\ calls \subseteq calls' /\ \A c \in calls' : IsCall(c)
          /\ \E c \in calls' : c.kind = "refresh"
        BY <1>4, AskIs DEF Inv
    <2> QED BY <1>1, <1>3, <2>1 DEF Inv, Shape, Watched, Watcher
<1>5. CASE UNCHANGED calls /\ echoCounter + 1 # 6
    <2>1. echoTick'
        BY <1>1, <1>2, <1>5
    <2> QED BY <1>1, <1>3, <1>5, <2>1 DEF Inv, Shape, Watched
<1> QED BY <1>4, <1>5 DEF EchoTick

LEMMA TimersInv ==
    ASSUME Inv, Timers
    PROVE  Inv'
<1>1. CASE Second
    BY <1>1 DEF Second, Inv, Shape, Echoes, Watched
<1>2. CASE SetVD
    <2>1. calls \subseteq calls' /\ \A c \in calls' : IsCall(c)
        BY <1>2, AskIs DEF SetVD, Inv
    <2> QED BY <1>2, <2>1 DEF SetVD, Inv, Shape, Echoes, Watched
<1> QED BY <1>1, <1>2, PlayTickInv, EchoTickInv DEF Timers

-----------------------------------------------------------------------------
(* The user *)

\* A click makes a request and leaves song and clocks alone.
LEMMA AskInv ==
    ASSUME Inv, NEW kind, NEW arg, Ask(kind, arg), UNCHANGED <<info, playTick, echoTick, echoCounter, broken>>
    PROVE  Inv'
<1>1. calls \subseteq calls' /\ \A c \in calls' : IsCall(c)
    BY AskIs DEF Inv
<1> QED BY <1>1 DEF Inv, Shape, Echoes, Watched

LEMMA SetPositionInv ==
    ASSUME Inv, NEW p, SetPosition(p)
    PROVE  Inv'
<1>1. UNCHANGED <<echoTick, echoCounter, broken>>
    BY DEF SetPosition, Click
<1>2. IsInfo(info') /\ info'.id = info.id /\ info'.paused = info.paused
    BY DEF SetPosition, Inv, Shape, IsInfo
<1>3. /\ calls \subseteq calls' /\ \A c \in calls' : IsCall(c)
      /\ \E c \in calls' : c.kind = "seek" /\ (c.was <=> playTick)
    BY AskIs DEF SetPosition, Inv
<1> QED BY <1>1, <1>2, <1>3 DEF Inv, Shape, Echoes, Watched, Watcher

LEMMA UserInv ==
    ASSUME Inv, User
    PROVE  Inv'
<1>1. ASSUME NEW v \in Levels, Slide(v) PROVE Inv'
    <2>1. UNCHANGED <<timers, calls, broken>>
        BY <1>1 DEF Slide, Click
    <2>2. IsInfo(info') /\ info'.id = info.id /\ info'.paused = info.paused
        BY <1>1 DEF Slide, Inv, Shape, IsInfo
    <2> QED BY <2>1, <2>2 DEF Inv, Shape, Echoes, Watched
<1>2. CASE ClickVolume
    BY <1>2, AskInv DEF ClickVolume, Click
<1>3. CASE ClickPlay
    BY Zenon, <1>3, AskInv DEF ClickPlay, Click
<1>4. CASE \E f \in Modes : ClickMode(f)
    BY <1>4, AskInv DEF ClickMode, Click
<1>5. CASE \E k \in {"next", "start", "add"} : ClickTrack(k)
    BY <1>5, AskInv DEF ClickTrack, Click
<1> QED BY <1>1, <1>2, <1>3, <1>4, <1>5, SetPositionInv DEF User

-----------------------------------------------------------------------------
(* The server *)

\* A request is answered or lost: it watches as before.
LEMMA AnswerInv ==
    ASSUME Inv, NEW c \in calls, NEW d, Answered(c, d), IsCall(d), d.kind = c.kind, d.was = c.was,
           UNCHANGED <<info, playTick, echoTick, echoCounter, broken>>
    PROVE  Inv'
<1>1. calls' = (calls \ {c}) \cup {d}
    BY DEF Answered
<1>2. \A e \in calls : Watcher(e) => \E f \in calls' : Watcher(f)
    BY <1>1 DEF Watcher
<1> QED BY <1>1, <1>2 DEF Inv, Shape, Echoes, Watched

LEMMA ServeInv ==
    ASSUME Inv, NEW c \in calls, Serve(c)
    PROVE  Inv'
<1>1. UNCHANGED <<info, timers, broken>> /\ IsCall(c)
    BY DEF Serve, Inv, Shape
<1>2. CASE Answered(c, [c EXCEPT !.state = "failed"])
    <2>1. LET d == [c EXCEPT !.state = "failed"]
          IN  IsCall(d) /\ d.kind = c.kind /\ d.was = c.was
        BY <1>1 DEF IsCall
    <2> QED BY <1>1, <1>2, <2>1, AnswerInv
<1>3. ASSUME NEW song, NEW set, NEW at,
             Answered(c, [c EXCEPT !.state = "ok", !.song = song, !.set = set, !.at = at])
      PROVE  Inv'
    <2> DEFINE d == [c EXCEPT !.state = "ok", !.song = song, !.set = set, !.at = at]
    <2>1. IsCall(d) /\ d.kind = c.kind /\ d.was = c.was
        BY <1>1 DEF IsCall
    <2> QED BY <1>1, <1>3, <2>1, AnswerInv
<1>4. \/ Answered(c, [c EXCEPT !.state = "failed"])
      \/ \E song, set, at : Answered(c, [c EXCEPT !.state = "ok", !.song = song, !.set = set, !.at = at])
    <2>1. \/ Answered(c, [c EXCEPT !.state = "failed"])
          \/ Answered(c, [c EXCEPT !.state = "ok", !.song = SongOf(srv'),
                                   !.set = Reported(srv'), !.at = srv'.time])
        BY Zenon DEF Serve
    <2> QED BY <2>1
<1> QED BY <1>2, <1>3, <1>4

LEMMA FailInv ==
    ASSUME Inv, NEW c \in calls, Fail(c)
    PROVE  Inv'
<1>1. UNCHANGED <<info, timers, broken>> /\ IsCall(c) /\ Answered(c, [c EXCEPT !.state = "failed"])
    BY DEF Fail, Trouble, Inv, Shape
<1>2. LET d == [c EXCEPT !.state = "failed"]
      IN  IsCall(d) /\ d.kind = c.kind /\ d.was = c.was
    BY <1>1 DEF IsCall
<1> QED BY <1>1, <1>2, AnswerInv

-----------------------------------------------------------------------------
(* The continuations *)

\* A request that does not watch has ended.
LEMMA DoneInv ==
    ASSUME Inv, NEW c \in calls, Done(c), ~Watcher(c), IsInfo(info'),
           info'.id = info.id, info'.paused = info.paused,
           UNCHANGED <<playTick, echoTick, echoCounter>>, broken => broken'
    PROVE  Inv'
<1>1. calls' = calls \ {c}
    BY DEF Done
<1>2. \A e \in calls : Watcher(e) => e \in calls'
    BY <1>1
<1> QED BY <1>1, <1>2 DEF Inv, Shape, Echoes, Watched

\* The song an answer tells of is shown.
LEMMA ShownIs ==
    ASSUME IsInfo(info), NEW s, NEW p, NEW tick, ShowSong(s, p, tick)
    PROVE  /\ IsInfo(info') /\ info'.id = s.id /\ info'.paused = s.paused
           /\ s.id # Null /\ ~s.paused => playTick'
<1>1. IsInfo(info') /\ info'.id = s.id /\ info'.paused = s.paused
    <2> DEFINE i == s.id
               u == s.paused
    <2>1. info' = [info EXCEPT !.id = i, !.paused = u, !.pos = p]
        BY Zenon DEF ShowSong
    <2> HIDE DEF i, u
    <2>2. IsInfo(info') /\ info'.id = i /\ info'.paused = u
        BY <2>1 DEF IsInfo
    <2> QED BY <2>2 DEF i, u
<1>2. s.id # Null /\ ~s.paused => playTick'
    BY Zenon DEF ShowSong, UpdateTimers, Playing
<1> QED BY <1>1, <1>2

LEMMA RefreshDoneInv ==
    ASSUME Inv, NEW c \in calls, RefreshDone(c)
    PROVE  Inv'
<1>1. calls' = calls \ {c} /\ UNCHANGED <<echoTick, echoCounter>>
    BY DEF RefreshDone, Done
<1>2. IsInfo(info') /\ info'.id = c.song.id /\ info'.paused = c.song.paused
    BY DEF RefreshDone, IsInfo
<1>3. c.song.id # Null /\ ~c.song.paused => playTick'
    BY Zenon DEF RefreshDone, UpdateTimers, Playing
<1> QED BY <1>1, <1>2, <1>3 DEF Inv, Shape, Echoes, Watched

LEMMA SeekDoneInv ==
    ASSUME Inv, NEW c \in calls, SeekDone(c)
    PROVE  Inv'
<1> DEFINE tick == playTick \/ c.was
<1>1. calls' = calls \ {c} /\ UNCHANGED <<echoTick, echoCounter, broken>> /\ c.kind = "seek"
    BY DEF SeekDone, Done
<1>2. CASE info.id # Null /\ ShowSong(SongOf(info), c.arg, tick)
    <2>1. /\ IsInfo(info') /\ info'.id = SongOf(info).id /\ info'.paused = SongOf(info).paused
          /\ SongOf(info).id # Null /\ ~SongOf(info).paused => playTick'
        BY <1>2, ShownIs DEF Inv, Shape
    <2>2. SongOf(info).id = info.id /\ SongOf(info).paused = info.paused
        BY DEF SongOf
    <2> QED BY <1>1, <2>1, <2>2 DEF Inv, Shape, Echoes, Watched
<1>3. CASE playTick' = tick /\ UNCHANGED info
    <2>1. playTick' <=> playTick \/ c.was
        BY Zenon, <1>3
    <2>2. \A e \in calls : Watcher(e) => e \in calls' \/ c.was
        BY <1>1 DEF Watcher
    <2>3. UNCHANGED info
        BY Zenon, <1>3
    <2> QED BY <1>1, <2>1, <2>2, <2>3 DEF Inv, Shape, Echoes, Watched
<1> QED BY Zenon, <1>2, <1>3 DEF SeekDone

LEMMA PlayDoneInv ==
    ASSUME Inv, NEW c \in calls, PlayDone(c)
    PROVE  Inv'
<1>1. calls' = calls \ {c}
    BY DEF PlayDone, Done
<1>2. CASE (\E p \in Positions(c) : ShowSong(c.song, p, c.kind = "play")) /\ StartEcho
    <2>1. IsInfo(info')
        BY <1>2, ShownIs DEF Inv, Shape
    <2> QED BY <1>1, <1>2, <2>1 DEF StartEcho, Inv, Shape, Echoes, Watched
<1>3. CASE broken' /\ UNCHANGED <<info, echoTick, echoCounter>>
    BY <1>1, <1>3 DEF Inv, Shape, Echoes, Watched
<1> QED BY Zenon, <1>2, <1>3 DEF PlayDone

LEMMA StartDoneInv ==
    ASSUME Inv, NEW c \in calls, StartDone(c)
    PROVE  Inv'
<1> DEFINE d == Request(c.n, "refresh", 0)
<1>1. calls' = (calls \ {c}) \cup {d} /\ UNCHANGED <<info, timers, broken>>
    BY DEF StartDone
<1>2. IsCall(d) /\ d.kind = "refresh"
    BY RequestIs
<1> HIDE DEF d
<1> QED BY <1>1, <1>2 DEF Inv, Shape, Echoes, Watched, Watcher

LEMMA ResumeInv ==
    ASSUME Inv, NEW c \in calls, Resume(c)
    PROVE  Inv'
<1>1. CASE ModeDone(c)
    <2>1. IsInfo(info') /\ info'.id = info.id /\ info'.paused = info.paused
        BY <1>1 DEF ModeDone, Inv, Shape, IsInfo
    <2>2. ~Watcher(c)
        BY <1>1, PlayAssumption DEF ModeDone, Watcher
    <2> QED BY <1>1, <2>1, <2>2, DoneInv DEF ModeDone
<1>2. CASE VolumeDone(c)
    <2>1. IsInfo(info') /\ info'.id = info.id /\ info'.paused = info.paused
        BY <1>2 DEF VolumeDone, Inv, Shape, IsInfo
    <2>2. ~Watcher(c)
        BY <1>2 DEF VolumeDone, VolumeKind, Watcher
    <2> QED BY <1>2, <2>1, <2>2, DoneInv DEF VolumeDone
<1>3. CASE TrackDone(c)
    BY <1>3 DEF TrackDone, Done, StartEcho, Inv, Shape, Echoes, Watched
<1>4. CASE Failed(c)
    <2>1. calls' = calls \ {c} /\ UNCHANGED <<info, timers>>
        BY <1>4 DEF Failed, Done
    <2>2. (broken => broken') /\ (c.kind \in {"refresh", "seek"} => broken')
        BY Zenon, <1>4 DEF Failed
    <2>3. Watcher(c) => broken'
        BY <1>4, <2>2, PlayAssumption DEF Failed, Watcher
    <2> QED BY <2>1, <2>2, <2>3 DEF Inv, Shape, Echoes, Watched
<1> QED BY <1>1, <1>2, <1>3, <1>4, RefreshDoneInv, StartDoneInv, PlayDoneInv, SeekDoneInv DEF Resume

-----------------------------------------------------------------------------

LEMMA InitInv == Init => Inv
<1> SUFFICES ASSUME Init PROVE Inv
    OBVIOUS
<1>1. calls = {Request(1, "refresh", 0)}
    BY DEF Init
<1>2. \A c \in calls : IsCall(c)
    BY <1>1, RequestIs
<1>3. IsInfo(info)
    BY DEF Init, IsInfo
<1> QED BY <1>2, <1>3 DEF Init, Inv, Shape, Echoes, Watched

LEMMA StepInv ==
    ASSUME Inv, [Next]_vars
    PROVE  Inv'
<1>1. CASE Foreign \/ SongEnds \/ UNCHANGED vars
    <2>1. UNCHANGED <<info, playTick, echoTick, echoCounter, calls, broken>>
        BY Zenon, <1>1 DEF Foreign, Trouble, SongEnds
    <2> QED BY <2>1 DEF Inv, Shape, Echoes, Watched
<1> QED BY <1>1, TimersInv, UserInv, ServeInv, FailInv, ResumeInv DEF Next, Network

\* A page that shows a song as playing keeps an eye on it, whatever its clocks,
\* its requests and their failures overlap in, until a request about the song
\* has failed.
THEOREM SongWatched == Spec => []PlayingIsWatched
<1>1. Inv => PlayingIsWatched
    BY DEF Inv, Watched, Watcher, PlayingIsWatched, Playing, SongOf, About
<1> QED BY <1>1, InitInv, StepInv, PTL DEF Spec

-----------------------------------------------------------------------------
(* The modes: repeat and shuffle *)

IsSet(m) == m = [f \in Field |-> m[f]]

IsServer(s) == /\ s \in [id : {s.id}, paused : {s.paused}, next : {s.next}, set : {s.set}, time : Nat]
               /\ IsSet(s.set)

\* What an answer tells of the modes is so, as long as they have not changed since.
IsTrue(c, s) ==
    /\ IsCall(c) /\ IsSet(c.set) /\ c.at \in Nat /\ c.at <= s.time
    /\ c.state = "ok" /\ c.at = s.time => \A f \in Modes : c.set[f] = s.set[f]

Told == /\ IsServer(srv) /\ IsInfo(info) /\ IsSet(info.set)
        /\ newest \in Nat /\ newest <= srv.time
        /\ \A c \in calls : IsTrue(c, srv)

\* An answer to a click on f.
Tells(d, f) == d.kind = f /\ d.state = "ok"

\* What is shown or will be shown of f is the player's, or a later answer to a
\* click on f is under way, or the answer is an old one, which will be noticed.
Right(f) ==
    /\ info.set[f] = srv.set[f] \/ \E d \in calls : Tells(d, f)
    /\ \A c \in calls : c.kind \in {"refresh", f} /\ c.state = "ok" =>
          \/ c.set[f] = srv.set[f] \/ c.at < newest
          \/ \E d \in calls : Tells(d, f) /\ d.at > c.at

ModeInv == Told /\ (~excused => \A f \in Modes : Right(f))

LEMMA ModeIs == ASSUME NEW f \in Modes
                PROVE  f \in Field /\ f # "volume" /\ f \in {"repeat", "shuffle"}
    BY PlayAssumption DEF Field

\* A step that changes no mode, and no answer that tells of them.
LEMMA Still ==
    ASSUME ModeInv, Told', srv'.set = srv.set \/ (\A f \in Modes : srv'.set[f] = srv.set[f]),
           \A f \in Modes : info'.set[f] = info.set[f], newest' = newest, excused => excused',
           \A c : c.state = "ok" /\ c.kind \in Modes \cup {"refresh"} => (c \in calls <=> c \in calls')
    PROVE  ModeInv'
<1>1. ASSUME NEW f \in Modes, Right(f) PROVE Right(f)'
    BY <1>1 DEF Right, Tells
<1> QED BY <1>1 DEF ModeInv

\* Requests come that have not been answered, or go.
LEMMA NewCalls ==
    ASSUME Told, UNCHANGED <<srv, newest>>, IsInfo(info'), IsSet(info'.set),
           \A c \in calls' : c \in calls \/ \E n, kind, arg : c = Request(n, kind, arg)
    PROVE  Told'
<1>1. ASSUME NEW n, NEW kind, NEW arg PROVE IsTrue(Request(n, kind, arg), srv)
    <2> DEFINE c == Request(n, kind, arg)
    <2>1. IsCall(c)
        BY RequestIs
    <2>2. c.set = Zero /\ c.at = 0 /\ c.state = "sent"
        BY DEF Request
    <2>3. IsSet(c.set)
        BY <2>2 DEF IsSet, Zero
    <2>4. 0 \in Nat /\ 0 <= srv.time
        BY DEF Told, IsServer
    <2> HIDE DEF c
    <2>5. IsTrue(c, srv)
        BY <2>1, <2>2, <2>3, <2>4 DEF IsTrue
    <2> QED BY <2>5 DEF c
<1> QED BY <1>1 DEF Told

LEMMA NewIsSent ==
    ASSUME NEW n, NEW kind, NEW arg
    PROVE  Request(n, kind, arg).state = "sent"
    BY DEF Request

\* Requests come and go, but no answer about the modes.
LEMMA Quiet ==
    ASSUME ModeInv, UNCHANGED <<srv, newest>>, excused => excused', IsInfo(info'), IsSet(info'.set),
           \A f \in Modes : info'.set[f] = info.set[f],
           \A c \in calls' : c \in calls \/ \E n, kind, arg : c = Request(n, kind, arg),
           \A c \in calls : c \in calls' \/ c.state # "ok" \/ c.kind \notin Modes \cup {"refresh"}
    PROVE  ModeInv'
<1>1. Told'
    BY NewCalls DEF ModeInv
<1>2. \A c : c.state = "ok" /\ c.kind \in Modes \cup {"refresh"} => (c \in calls <=> c \in calls')
    BY NewIsSent
<1> QED BY <1>1, <1>2, Still

LEMMA AskModes ==
    ASSUME ModeInv, NEW kind, NEW arg, Ask(kind, arg), UNCHANGED <<srv, newest, excused>>,
           IsInfo(info'), info'.set = info.set
    PROVE  ModeInv'
<1>1. calls' = calls \cup {Request(Free, kind, arg)}
    BY DEF Ask
<1>2. IsSet(info'.set)
    BY DEF ModeInv, Told
<1>3. \A c \in calls' : c \in calls \/ \E n, k, a : c = Request(n, k, a)
    BY <1>1
<1>4. calls \subseteq calls'
    BY <1>1
<1> QED BY <1>2, <1>3, <1>4, Quiet

\* The same requests, or one less that does not tell of the modes.
LEMMA FewerModes ==
    ASSUME ModeInv, calls' \subseteq calls, UNCHANGED <<srv, newest>>, excused => excused',
           IsInfo(info'), IsSet(info'.set), \A f \in Modes : info'.set[f] = info.set[f],
           \A c \in calls : c \in calls' \/ c.state # "ok" \/ c.kind \notin Modes \cup {"refresh"}
    PROVE  ModeInv'
    BY Quiet

LEMMA InfoIs ==
    ASSUME ModeInv
    PROVE  IsInfo(info) /\ IsSet(info.set) /\ IsServer(srv)
    BY DEF ModeInv, Told

\* The volume is written into what the page shows.
LEMMA WrittenIs ==
    ASSUME ModeInv, NEW v, info' = [info EXCEPT !.set["volume"] = v]
    PROVE  IsInfo(info') /\ IsSet(info'.set) /\ \A f \in Modes : info'.set[f] = info.set[f]
<1>1. info'.set = [info.set EXCEPT !["volume"] = v] /\ IsInfo(info')
    BY InfoIs DEF IsInfo
<1>2. IsSet(info.set) /\ "volume" \in Field
    BY InfoIs DEF Field
<1>3. IsSet(info'.set)
    BY <1>1, <1>2 DEF IsSet
<1>4. ASSUME NEW f \in Modes PROVE info'.set[f] = info.set[f]
    BY <1>1, <1>2, ModeIs DEF IsSet
<1> QED BY <1>1, <1>3, <1>4

\* A song is shown.
LEMMA SongShown ==
    ASSUME ModeInv, NEW s, NEW p, NEW tick, ShowSong(s, p, tick)
    PROVE  IsInfo(info') /\ info'.set = info.set
<1> DEFINE i == s.id
           u == s.paused
<1>1. info' = [info EXCEPT !.id = i, !.paused = u, !.pos = p]
    BY Zenon DEF ShowSong
<1> HIDE DEF i, u
<1> QED BY <1>1, InfoIs DEF IsInfo

LEMMA TimersModes ==
    ASSUME ModeInv, Timers
    PROVE  ModeInv'
<1>1. CASE PlayTick
    <2>1. IsInfo(info') /\ info'.set = info.set
        BY <1>1, SongShown, InfoIs DEF PlayTick
    <2>2. UNCHANGED <<srv, newest, excused, calls>>
        BY <1>1 DEF PlayTick
    <2> QED BY <2>1, <2>2, InfoIs, FewerModes
<1>2. CASE EchoTick
    <2>1. UNCHANGED <<srv, info, newest, excused>>
        BY <1>2 DEF EchoTick
    <2>2. Ask("refresh", 0) \/ UNCHANGED calls
        BY <1>2 DEF EchoTick
    <2> QED BY <2>1, <2>2, InfoIs, AskModes, FewerModes
<1>3. CASE Second
    BY <1>3, InfoIs, FewerModes DEF Second
<1>4. CASE SetVD
    BY <1>4, InfoIs, AskModes DEF SetVD
<1> QED BY <1>1, <1>2, <1>3, <1>4 DEF Timers

LEMMA UserModes ==
    ASSUME ModeInv, User
    PROVE  ModeInv'
<1>1. ASSUME NEW v \in Levels, Slide(v) PROVE ModeInv'
    <2>1. UNCHANGED <<srv, newest, excused, calls>>
        BY <1>1 DEF Slide, Click
    <2>2. IsInfo(info') /\ IsSet(info'.set) /\ \A f \in Modes : info'.set[f] = info.set[f]
        BY <1>1, WrittenIs DEF Slide
    <2> QED BY <2>1, <2>2, FewerModes
<1>2. ASSUME NEW p, SetPosition(p) PROVE ModeInv'
    <2>1. UNCHANGED <<srv, newest, excused>> /\ Ask("seek", p)
        BY <1>2 DEF SetPosition, Click
    <2>2. IsInfo(info') /\ info'.set = info.set
        BY <1>2, InfoIs DEF SetPosition, IsInfo
    <2> QED BY <2>1, <2>2, AskModes
<1>3. CASE \/ ClickVolume \/ ClickPlay
           \/ \E f \in Modes : ClickMode(f)
           \/ \E k \in {"next", "start", "add"} : ClickTrack(k)
    <2>1. UNCHANGED <<srv, info, newest, excused>>
        BY <1>3 DEF ClickVolume, ClickPlay, ClickMode, ClickTrack, Click
    <2>2. \E kind, arg : Ask(kind, arg)
        BY Zenon, <1>3 DEF ClickVolume, ClickPlay, ClickMode, ClickTrack
    <2> QED BY <2>1, <2>2, InfoIs, AskModes
<1> QED BY <1>1, <1>2, <1>3 DEF User

\* The player's modes stay, or the change is counted.
Counted(s) ==
    /\ IsServer(s)
    /\ \/ s.time = srv.time /\ \A f \in Modes : s.set[f] = srv.set[f]
       \/ s.time = srv.time + 1

LEMMA CountedTold ==
    ASSUME Told, NEW s, Counted(s)
    PROVE  newest <= s.time /\ \A c \in calls : IsTrue(c, s)
<1>1. srv.time \in Nat /\ newest \in Nat /\ newest <= srv.time /\ s.time \in Nat
    BY DEF Told, Counted, IsServer
<1>2. newest <= s.time
    BY <1>1 DEF Counted
<1>3. ASSUME NEW c \in calls PROVE IsTrue(c, s)
    BY <1>1 DEF Told, IsTrue, Counted
<1> QED BY <1>2, <1>3

LEMMA StartsIs ==
    ASSUME Told
    PROVE  LET s == Starts(srv)
           IN  IsServer(s) /\ s.time = srv.time /\ s.set = srv.set
<1> DEFINE i == srv.next
           j == srv.next + 1
           s == [srv EXCEPT !.id = i, !.next = j, !.paused = FALSE]
<1>1. Starts(srv) = s
    BY DEF Starts, Told, IsServer
<1> HIDE DEF i, j
<1>2. IsServer(s) /\ s.time = srv.time /\ s.set = srv.set
    BY DEF Told, IsServer
<1> QED BY <1>1, <1>2

\* A mode or the volume of the player is set.
With(f, v, t) == [srv EXCEPT !.set[f] = v, !.time = t]

LEMMA SetIs ==
    ASSUME Told, NEW f, NEW v, NEW t \in Nat
    PROVE  LET s == With(f, v, t)
           IN  IsServer(s) /\ s.time = t /\ \A g \in Modes : g # f => s.set[g] = srv.set[g]
<1> DEFINE s == With(f, v, t)
<1>1. s.set = [srv.set EXCEPT ![f] = v] /\ s.time = t /\ IsSet(srv.set)
    BY DEF Told, IsServer, With
<1>2. IsSet(s.set)
    BY <1>1 DEF IsSet
<1>3. s \in [id : {s.id}, paused : {s.paused}, next : {s.next}, set : {s.set}, time : Nat]
    BY DEF Told, IsServer, With
<1>4. ASSUME NEW g \in Modes, g # f PROVE s.set[g] = srv.set[g]
    BY <1>1, <1>4, ModeIs DEF IsSet
<1> HIDE DEF s
<1>5. IsServer(s)
    BY <1>2, <1>3 DEF IsServer
<1>6. s.time = t
    BY <1>1
<1> QED BY <1>4, <1>5, <1>6 DEF s

LEMMA AfterIs ==
    ASSUME Told, NEW c
    PROVE  /\ Counted(After(c))
           /\ \A f \in Modes : f # c.kind => After(c).set[f] = srv.set[f]
           /\ c.kind \in Modes => After(c).time = srv.time + 1
<1>1. IsServer(srv) /\ srv.time \in Nat
    BY DEF Told, IsServer
<1>2. CASE c.kind \in Modes
    <2>1. c.kind \notin {"next", "start", "pause", "play", "volume", "unmute"}
        BY <1>2, PlayAssumption
    <2>2. After(c) = [srv EXCEPT !.set[c.kind] = c.arg, !.time = srv.time + 1]
        BY <1>1, <1>2, <2>1 DEF After, VolumeKind, IsServer
    <2> DEFINE k == c.kind
               v == c.arg
               t == srv.time + 1
               s == With(k, v, t)
    <2>3. After(c) = s /\ t \in Nat
        BY <1>1, <2>2 DEF With
    <2> HIDE DEF k, v, t
    <2>4. IsServer(s) /\ s.time = t /\ \A g \in Modes : g # k => s.set[g] = srv.set[g]
        BY <2>3, SetIs
    <2> HIDE DEF s
    <2> QED BY <2>3, <2>4 DEF Counted, k, t
<1>3. CASE c.kind \notin Modes
    <2> DEFINE u == ~srv.paused
    <2>1. \/ After(c) \in {srv, Starts(srv)}
          \/ After(c) = [srv EXCEPT !.paused = u]
          \/ After(c) = [srv EXCEPT !.paused = FALSE]
          \/ After(c) = [srv EXCEPT !.set["volume"] = c.arg]
        BY <1>1, <1>3 DEF After, VolumeKind, IsServer
    <2> HIDE DEF u
    <2>2. CASE After(c) \in {srv, Starts(srv)}
        BY <1>1, <1>3, <2>2, StartsIs DEF Counted
    <2>3. ASSUME NEW p, After(c) = [srv EXCEPT !.paused = p]
          PROVE  Counted(After(c)) /\ After(c).set = srv.set
        BY <1>1, <2>3 DEF Counted, IsServer
    <2>4. CASE After(c) = [srv EXCEPT !.set["volume"] = c.arg]
        <3>1. After(c) = [srv EXCEPT !.set["volume"] = c.arg, !.time = srv.time]
            BY <1>1, <2>4 DEF IsServer
        <3> DEFINE v == c.arg
                   t == srv.time
                   s == With("volume", v, t)
        <3>2. After(c) = s /\ t \in Nat
            BY <1>1, <3>1 DEF With
        <3> HIDE DEF v, t
        <3>3. IsServer(s) /\ s.time = t /\ \A g \in Modes : g # "volume" => s.set[g] = srv.set[g]
            BY <3>2, SetIs
        <3> HIDE DEF s
        <3> QED BY <1>3, <3>2, <3>3, ModeIs DEF Counted, t
    <2> QED BY <1>3, <2>1, <2>2, <2>3, <2>4
<1> QED BY <1>2, <1>3

LEMMA ReportedIs ==
    ASSUME NEW s
    PROVE  IsSet(Reported(s)) /\ \A f \in Modes : Reported(s)[f] = s.set[f]
<1>1. IsSet(Reported(s))
    BY DEF Reported, IsSet
<1>2. ASSUME NEW f \in Modes PROVE Reported(s)[f] = s.set[f]
    BY <1>2, ModeIs DEF Reported
<1> QED BY <1>1, <1>2

\* The answer to c: a failure, or what the player is after the command.
LEMMA ServeModes ==
    ASSUME ModeInv, NEW c \in calls, Serve(c)
    PROVE  ModeInv'
<1>1. /\ UNCHANGED <<info, newest, excused>> /\ c.state = "sent"
      /\ Told /\ IsTrue(c, srv) /\ IsCall(c)
    BY DEF Serve, ModeInv, Told, IsTrue
<1>2. CASE Answered(c, [c EXCEPT !.state = "failed"]) /\ UNCHANGED srv
    <2> DEFINE d == [c EXCEPT !.state = "failed"]
    <2>1. IsCall(d) /\ d.state = "failed" /\ d.set = c.set /\ d.at = c.at
        BY <1>1 DEF IsCall
    <2>2. calls' = (calls \ {c}) \cup {d}
        BY <1>2 DEF Answered
    <2> HIDE DEF d
    <2>3. IsTrue(d, srv)
        BY <1>1, <2>1 DEF IsTrue
    <2>4. Told'
        BY <1>1, <1>2, <2>2, <2>3 DEF Told
    <2>5. \A e : e.state = "ok" /\ e.kind \in Modes \cup {"refresh"} => (e \in calls <=> e \in calls')
        BY <1>1, <2>1, <2>2
    <2> QED BY <1>1, <1>2, <2>4, <2>5, Still
<1>3. CASE /\ srv' = After(c)
           /\ Answered(c, [c EXCEPT !.state = "ok", !.song = SongOf(srv'),
                                    !.set = Reported(srv'), !.at = srv'.time])
    <2> DEFINE m == Reported(srv')
               t == srv'.time
               g == SongOf(srv')
               d == [c EXCEPT !.state = "ok", !.song = g, !.set = m, !.at = t]
    <2>1. /\ Counted(srv') /\ t \in Nat
          /\ \A f \in Modes : f # c.kind => srv'.set[f] = srv.set[f]
          /\ c.kind \in Modes => t = srv.time + 1
        BY <1>1, <1>3, AfterIs DEF Counted, IsServer
    <2>2. IsSet(m) /\ \A f \in Modes : m[f] = srv'.set[f]
        BY ReportedIs
    <2>3. calls' = (calls \ {c}) \cup {d}
        BY <1>3 DEF Answered
    <2>4. newest <= srv'.time /\ \A e \in calls : IsTrue(e, srv')
        BY <1>1, <2>1, CountedTold
    <2>5. t = srv'.time
        OBVIOUS
    <2> HIDE DEF m, t, g
    <2>6. IsCall(d) /\ d.state = "ok" /\ d.set = m /\ d.at = t /\ d.kind = c.kind
        BY <1>1 DEF IsCall
    <2> HIDE DEF d
    <2>7. IsTrue(d, srv')
        BY <2>1, <2>2, <2>5, <2>6 DEF IsTrue
    <2>8. Told'
        BY <1>1, <2>1, <2>3, <2>4, <2>7 DEF Told, Counted
    <2>9. ASSUME NEW f \in Modes, Right(f) PROVE Right(f)'
        <3>1. \A e \in calls : Tells(e, f) => e \in calls'
            BY <1>1, <2>3 DEF Tells
        <3>2. CASE c.kind # f
            <4>1. srv'.set[f] = srv.set[f] /\ d.set[f] = srv'.set[f]
                BY <2>1, <2>2, <2>6, <3>2
            <4>2. info'.set[f] = srv'.set[f] \/ \E e \in calls' : Tells(e, f)
                BY <1>1, <2>9, <3>1, <4>1 DEF Right
            <4>3. ASSUME NEW e \in calls', e.kind \in {"refresh", f}, e.state = "ok"
                  PROVE  \/ e.set[f] = srv'.set[f] \/ e.at < newest'
                         \/ \E x \in calls' : Tells(x, f) /\ x.at > e.at
                BY <1>1, <2>3, <2>9, <3>1, <4>1, <4>3 DEF Right
            <4> QED BY <4>2, <4>3 DEF Right, Tells
        <3>3. CASE c.kind = f
            <4>1. d \in calls' /\ Tells(d, f) /\ d.set[f] = srv'.set[f] /\ d.at = srv.time + 1
                BY <2>1, <2>2, <2>3, <2>6, <3>3 DEF Tells
            <4>2. \A e \in calls : e.at < d.at
                BY <1>1, <4>1 DEF Told, IsTrue, IsServer
            <4>3. ASSUME NEW e \in calls', e.kind \in {"refresh", f}, e.state = "ok"
                  PROVE  \/ e.set[f] = srv'.set[f] \/ e.at < newest'
                         \/ \E x \in calls' : Tells(x, f) /\ x.at > e.at
                BY <2>3, <4>1, <4>2, <4>3
            <4> QED BY <4>1, <4>3 DEF Right, Tells
        <3> QED BY <3>2, <3>3
    <2> QED BY <1>1, <2>8, <2>9 DEF ModeInv
<1> QED BY Zenon, <1>2, <1>3 DEF Serve

\* The player changes, and nobody tells the page.
LEMMA ChangedTold ==
    ASSUME Told, Counted(srv'), UNCHANGED <<info, newest>>, calls' \subseteq calls
    PROVE  Told'
<1>1. newest <= srv'.time /\ \A c \in calls : IsTrue(c, srv')
    BY CountedTold
<1> QED BY <1>1 DEF Told, Counted

LEMMA FailModes ==
    ASSUME ModeInv, NEW c \in calls, Fail(c)
    PROVE  ModeInv'
<1> DEFINE d == [c EXCEPT !.state = "failed"]
<1>1. /\ UNCHANGED <<info, newest>> /\ c.state = "sent"
      /\ Told /\ IsTrue(c, srv) /\ IsCall(c)
    BY DEF Fail, Trouble, ModeInv, Told, IsTrue
<1>2. calls' = (calls \ {c}) \cup {d} /\ srv' \in {srv, After(c)}
    BY DEF Fail, Answered
<1>3. /\ Counted(srv')
      /\ c.kind \notin Modes => \A f \in Modes : srv'.set[f] = srv.set[f]
    BY <1>1, <1>2, AfterIs DEF Counted, Told
<1>4. newest <= srv'.time /\ \A e \in calls : IsTrue(e, srv')
    BY <1>1, <1>3, CountedTold
<1>5. IsCall(d) /\ d.state = "failed" /\ d.set = c.set /\ d.at = c.at
    BY <1>1 DEF IsCall
<1> HIDE DEF d
<1>6. IsTrue(d, srv')
    BY <1>4, <1>5 DEF IsTrue
<1>7. Told'
    BY <1>1, <1>2, <1>3, <1>4, <1>6 DEF Told, Counted
<1>8. (excused => excused') /\ (c.kind \in Modes => excused')
    BY Zenon DEF Fail
<1>9. CASE c.kind \in Modes
    BY <1>7, <1>8, <1>9 DEF ModeInv
<1>10. CASE c.kind \notin Modes
    <2>1. \A e : e.state = "ok" /\ e.kind \in Modes \cup {"refresh"} => (e \in calls <=> e \in calls')
        BY <1>1, <1>2, <1>5
    <2> QED BY <1>1, <1>3, <1>7, <1>8, <1>10, <2>1, Still
<1> QED BY <1>9, <1>10

\* The three things somebody else may change: the song, the volume, a mode.
toggled == ~srv.paused
later == srv.time + 1

OtherSong == \/ srv' = [srv EXCEPT !.paused = toggled] \/ srv' = [srv EXCEPT !.id = Null]
             \/ srv.next <= Songs /\ srv' = Starts(srv)

LEMMA ForeignIs ==
    ASSUME Told, Foreign
    PROVE  /\ UNCHANGED <<info, timers, wait, mute, old, newest, broken, calls>>
           /\ \/ OtherSong /\ UNCHANGED <<wish, excused>>
              \/ /\ \E v \in Levels : srv' = With("volume", v, srv.time)
                 /\ wish' = Null /\ excused' = excused
              \/ /\ \E f \in Modes : \E v \in Settings[f] : srv' = With(f, v, later)
                 /\ excused' /\ wish' = wish
<1>1. UNCHANGED <<info, timers, wait, mute, old, newest, broken, calls>>
    BY Zenon DEF Foreign, Trouble
<1>2. ASSUME NEW v, srv' = [srv EXCEPT !.set["volume"] = v]
      PROVE  srv' = With("volume", v, srv.time)
    BY <1>2 DEF Told, IsServer, With
<1>3. ASSUME NEW f, NEW v, srv' = [srv EXCEPT !.set[f] = v, !.time = @ + 1]
      PROVE  srv' = With(f, v, later)
    BY <1>3 DEF With, later
<1>4. ASSUME srv' \in {[srv EXCEPT !.paused = ~@], [srv EXCEPT !.id = Null]}
      PROVE  OtherSong
    BY Zenon, <1>4 DEF OtherSong, toggled
<1> QED BY Zenon, <1>1, <1>2, <1>3, <1>4 DEF Foreign, OtherSong

LEMMA OtherSongIs ==
    ASSUME Told, OtherSong
    PROVE  Counted(srv') /\ srv'.set = srv.set
<1>1. IsServer(srv) /\ srv.time \in Nat
    BY DEF Told, IsServer
<1>2. CASE srv' = Starts(srv)
    BY <1>1, <1>2, StartsIs DEF Counted
<1>3. CASE srv' = [srv EXCEPT !.paused = toggled] \/ srv' = [srv EXCEPT !.id = Null]
    BY <1>1, <1>3 DEF Counted, IsServer
<1> QED BY Zenon, <1>2, <1>3 DEF OtherSong

LEMMA ForeignModes ==
    ASSUME ModeInv, Foreign
    PROVE  ModeInv'
<1>1. UNCHANGED <<info, newest, calls>> /\ Told
    BY ForeignIs DEF ModeInv
<1>2. srv.time \in Nat /\ later \in Nat
    BY <1>1 DEF Told, IsServer, later
<1>3. ASSUME NEW f, NEW v, NEW t \in Nat, srv' = With(f, v, t),
             t = later \/ (t = srv.time /\ f = "volume")
      PROVE  Told' /\ (f = "volume" => \A g \in Modes : srv'.set[g] = srv.set[g])
    <2>1. /\ IsServer(srv') /\ srv'.time = t
          /\ \A g \in Modes : g # f => srv'.set[g] = srv.set[g]
        BY <1>1, <1>3, SetIs
    <2>2. f = "volume" => \A g \in Modes : g # f
        BY ModeIs
    <2>3. Counted(srv')
        BY <1>3, <2>1, <2>2 DEF Counted, later
    <2> QED BY <1>1, <2>1, <2>2, <2>3, ChangedTold
<1>4. CASE OtherSong /\ excused' = excused
    <2>1. Counted(srv') /\ srv'.set = srv.set
        BY <1>1, <1>4, OtherSongIs
    <2>2. Told'
        BY <1>1, <2>1, ChangedTold
    <2> QED BY <1>1, <1>4, <2>1, <2>2, Still
<1>5. CASE excused' = excused /\ \E v \in Levels : srv' = With("volume", v, srv.time)
    <2>1. Told' /\ \A f \in Modes : srv'.set[f] = srv.set[f]
        BY <1>2, <1>3, <1>5
    <2> QED BY <1>1, <1>5, <2>1, Still
<1>6. CASE excused' /\ \E f \in Modes : \E v \in Settings[f] : srv' = With(f, v, later)
    <2>1. Told'
        BY <1>2, <1>3, <1>6
    <2> QED BY <1>6, <2>1 DEF ModeInv
<1> QED BY Zenon, <1>1, <1>4, <1>5, <1>6, ForeignIs

LEMMA SongEndsModes ==
    ASSUME ModeInv, SongEnds
    PROVE  ModeInv'
<1>1. UNCHANGED <<info, newest, excused, calls>> /\ Told /\ IsServer(srv)
    BY DEF SongEnds, ModeInv, Told
<1>2. Counted(srv') /\ srv'.set = srv.set
    <2>1. CASE srv' = Starts(srv)
        BY <1>1, <2>1, StartsIs DEF Counted
    <2>2. CASE srv' = [srv EXCEPT !.id = Null]
        BY <1>1, <2>2 DEF Counted, IsServer
    <2> QED BY <2>1, <2>2 DEF SongEnds
<1>3. Told'
    BY <1>1, <1>2, ChangedTold
<1> QED BY <1>1, <1>2, <1>3, Still

\* An answer about the modes is shown, whatever came before it.
LEMMA TellInv ==
    ASSUME ModeInv, NEW c \in calls, Done(c), c.state = "ok", c.kind \in Modes \cup {"refresh"},
           TellModes(c), UNCHANGED srv, IsInfo(info'), IsSet(info'.set),
           \A f \in Modes : /\ c.kind \in {"refresh", f} => info'.set[f] = c.set[f]
                            /\ c.kind \notin {"refresh", f} => info'.set[f] = info.set[f]
    PROVE  ModeInv'
<1>1. calls' = calls \ {c} /\ Told /\ IsTrue(c, srv) /\ c.at \in Nat /\ newest \in Nat
      /\ c.at <= srv.time /\ newest <= srv.time /\ \A e \in calls : e.at \in Nat
    BY DEF Done, ModeInv, Told, IsTrue
<1>2. newest' = IF c.at > newest THEN c.at ELSE newest
    BY DEF TellModes
<1>3. newest' \in Nat /\ newest' <= srv.time /\ c.at <= newest' /\ newest <= newest'
    BY <1>1, <1>2
<1>4. Told'
    BY <1>1, <1>3 DEF Told
<1>5. CASE c.kind = "refresh" /\ c.at = srv.time /\ calls = {c}
    <2>1. calls' = {} /\ \A f \in Modes : c.set[f] = srv.set[f]
        BY <1>1, <1>5 DEF IsTrue
    <2>2. \A f \in Modes : Right(f)'
        BY <1>5, <2>1 DEF Right
    <2> QED BY <1>4, <2>2 DEF ModeInv
<1>6. CASE ~(c.kind = "refresh" /\ c.at = srv.time /\ calls = {c})
    <2>1. excused' = (excused \/ c.at < newest)
        BY Zenon, <1>6 DEF TellModes
    <2>2. excused' <=> excused \/ c.at < newest
        BY Zenon, <2>1
    <2>3. ASSUME ~excused', NEW f \in Modes PROVE Right(f)'
        <3>1. Right(f) /\ ~(c.at < newest)
            BY <2>2, <2>3 DEF ModeInv
        <3>2. \A d \in calls : Tells(d, f) => d \in calls' \/ d = c
            BY <1>1
        <3>3. info'.set[f] = srv.set[f] \/ \E d \in calls' : Tells(d, f)
            <4>1. CASE c.kind \in {"refresh", f}
                <5>1. \/ c.set[f] = srv.set[f]
                      \/ \E d \in calls : Tells(d, f) /\ d.at > c.at
                    BY <3>1, <4>1 DEF Right
                <5>2. \A d \in calls : d.at > c.at => d # c
                    BY <1>1
                <5> QED BY <3>2, <4>1, <5>1, <5>2
            <4>2. CASE c.kind \notin {"refresh", f}
                BY <3>1, <3>2, <4>2 DEF Right, Tells
            <4> QED BY <4>1, <4>2
        <3>4. ASSUME NEW e \in calls', e.kind \in {"refresh", f}, e.state = "ok"
              PROVE  \/ e.set[f] = srv.set[f] \/ e.at < newest'
                     \/ \E x \in calls' : Tells(x, f) /\ x.at > e.at
            <4>1. e \in calls
                BY <1>1
            <4>2. \/ e.set[f] = srv.set[f] \/ e.at < newest
                  \/ \E x \in calls : Tells(x, f) /\ x.at > e.at
                BY <3>1, <3>4, <4>1 DEF Right
            <4>3. CASE e.at < newest
                BY <1>1, <1>3, <4>1, <4>3
            <4>4. ASSUME NEW x \in calls, Tells(x, f), x.at > e.at
                  PROVE  e.at < newest' \/ x \in calls'
                BY <1>1, <1>3, <3>2, <4>1, <4>4
            <4> QED BY <4>2, <4>3, <4>4
        <3> QED BY <3>3, <3>4 DEF Right, Tells
    <2> QED BY <1>4, <2>3 DEF ModeInv
<1> QED BY <1>5, <1>6

LEMMA ResumeModes ==
    ASSUME ModeInv, NEW c \in calls, Resume(c)
    PROVE  ModeInv'
<1>1. UNCHANGED srv /\ IsInfo(info) /\ IsSet(info.set) /\ IsSet(c.set)
    BY DEF Resume, ModeInv, Told, IsTrue
<1>2. CASE RefreshDone(c)
    <2>1. IsInfo(info') /\ info'.set = c.set
        BY <1>2 DEF RefreshDone, IsInfo
    <2>2. Done(c) /\ TellModes(c) /\ c.kind = "refresh" /\ c.state = "ok"
        BY <1>2 DEF RefreshDone
    <2> QED BY <1>1, <2>1, <2>2, TellInv
<1>3. CASE ModeDone(c)
    <2> DEFINE k == c.kind
               v == c.set[k]
    <2>1. info' = [info EXCEPT !.set[k] = v]
        BY <1>3 DEF ModeDone
    <2>2. Done(c) /\ TellModes(c) /\ k \in Modes /\ c.state = "ok"
        BY <1>3 DEF ModeDone
    <2>3. k # "refresh" /\ k \in Field
        BY <2>2, ModeIs
    <2> HIDE DEF v
    <2>4. IsInfo(info') /\ info'.set = [info.set EXCEPT ![k] = v]
        BY <1>1, <2>1 DEF IsInfo
    <2>5. IsSet(info'.set)
        BY <1>1, <2>4 DEF IsSet
    <2>6. ASSUME NEW f \in Modes
          PROVE  /\ k = f => info'.set[f] = c.set[f]
                 /\ k # f => info'.set[f] = info.set[f]
        BY <1>1, <2>3, <2>4, ModeIs DEF IsSet, v
    <2> QED BY <1>1, <2>2, <2>3, <2>4, <2>5, <2>6, TellInv
<1>4. CASE VolumeDone(c)
    <2>1. calls' = calls \ {c} /\ UNCHANGED <<newest, excused>> /\ c.kind \in {"volume", "unmute"}
        BY <1>4 DEF VolumeDone, VolumeKind, Done
    <2>2. c.kind \notin Modes \cup {"refresh"}
        BY <2>1, PlayAssumption
    <2>3. info' = info \/ info' = [info EXCEPT !.set["volume"] = old]
        BY <1>4 DEF VolumeDone
    <2>4. IsInfo(info') /\ IsSet(info'.set) /\ \A f \in Modes : info'.set[f] = info.set[f]
        BY <1>1, <2>3, WrittenIs
    <2> QED BY <1>1, <2>1, <2>2, <2>4, FewerModes
<1>5. CASE TrackDone(c) \/ SeekDone(c) \/ PlayDone(c)
    <2>1. calls' = calls \ {c} /\ UNCHANGED <<newest, excused>> /\ c.kind \in {"next", "seek", "play", "pause"}
        BY Zenon, <1>5 DEF TrackDone, SeekDone, PlayDone, Done
    <2>2. c.kind \notin Modes \cup {"refresh"}
        BY <2>1, PlayAssumption
    <2>3. IsInfo(info') /\ info'.set = info.set
        <3>1. UNCHANGED info \/ \E s, p, t : ShowSong(s, p, t)
            BY Zenon, <1>5 DEF TrackDone, SeekDone, PlayDone
        <3> QED BY <1>1, <3>1, SongShown
    <2> QED BY <1>1, <2>1, <2>2, <2>3, FewerModes
<1>6. CASE StartDone(c)
    <2>1. calls' = (calls \ {c}) \cup {Request(c.n, "refresh", 0)}
          /\ UNCHANGED <<info, newest, excused>> /\ c.kind \in {"start", "add"}
        BY <1>6 DEF StartDone
    <2>2. c.kind \notin Modes \cup {"refresh"}
        BY <2>1, PlayAssumption
    <2>3. \A e \in calls' : e \in calls \/ \E n, kind, arg : e = Request(n, kind, arg)
        BY <2>1
    <2>4. \A e \in calls : e \in calls' \/ e.state # "ok" \/ e.kind \notin Modes \cup {"refresh"}
        BY <2>1, <2>2
    <2> QED BY <1>1, <2>1, <2>3, <2>4, Quiet
<1>7. CASE Failed(c)
    <2>1. calls' = calls \ {c} /\ UNCHANGED <<info, newest, excused>> /\ c.state = "failed"
        BY <1>7 DEF Failed, Done
    <2> QED BY <1>1, <2>1, FewerModes
<1> QED BY <1>2, <1>3, <1>4, <1>5, <1>6, <1>7 DEF Resume

LEMMA InitModes == Init => ModeInv
<1> SUFFICES ASSUME Init PROVE ModeInv
    OBVIOUS
<1>1. calls = {Request(1, "refresh", 0)} /\ excused /\ newest = 0 /\ srv.time = 0
    BY DEF Init
<1>2. IsServer(srv)
    BY DEF Init, IsServer, IsSet
<1>3. IsInfo(info) /\ IsSet(info.set)
    BY DEF Init, IsInfo, IsSet, Zero
<1>4. \A c \in calls : IsTrue(c, srv)
    <2> DEFINE c == Request(1, "refresh", 0)
    <2>1. IsCall(c) /\ c.state = "sent" /\ c.at = 0 /\ c.set = Zero
        BY RequestIs DEF Request
    <2> HIDE DEF c
    <2>2. IsTrue(c, srv)
        BY <1>1, <2>1 DEF IsTrue, IsSet, Zero
    <2> QED BY <1>1, <2>2 DEF c
<1> QED BY <1>1, <1>2, <1>3, <1>4 DEF ModeInv, Told

LEMMA StepModes ==
    ASSUME ModeInv, [Next]_vars
    PROVE  ModeInv'
<1>1. CASE UNCHANGED vars
    BY <1>1, InfoIs, FewerModes
<1> QED BY <1>1, TimersModes, UserModes, ServeModes, FailModes, ResumeModes, ForeignModes, SongEndsModes
        DEF Next, Network

\* Once nothing is under way that will tell of a mode, the page shows the
\* player's, however clicks and refreshes overlap and their answers overtake
\* each other: unless an old answer came last, a click failed, or somebody
\* else has changed it.
THEOREM ModesAreRight == Spec => []ModesShown
<1>1. ModeInv => ModesShown
    <2> SUFFICES ASSUME ModeInv, ~excused, NEW f \in Modes, About({"refresh", f}) = {}
                 PROVE  info.set[f] = srv.set[f]
        BY DEF ModesShown
    <2>1. \A d \in calls : ~Tells(d, f)
        BY DEF About, Tells
    <2> QED BY <2>1 DEF ModeInv, Right
<1> QED BY <1>1, InitModes, StepModes, PTL DEF Spec

-----------------------------------------------------------------------------
(* The volume the user chose *)

level == srv.set["volume"]

\* A choice nothing interfered with is on its way or has arrived, and nothing
\* else is: a refresh is asked for only when it has arrived.
Wanted ==
    wish # Null =>
        /\ wait \in {Null, wish}
        /\ \A c \in calls : c.kind \in VolumeKind => c.arg = wish /\ c.state # "failed"
        /\ \A c \in calls : c.kind = "refresh" =>
              level = wish /\ (c.state = "ok" => c.set["volume"] = wish \/ wish \in Lossy)
        /\ \/ level = wish \/ wait = wish
           \/ \E c \in calls : c.kind \in VolumeKind /\ c.state = "sent"

VolumeInv == ModeInv /\ Wanted

LEMMA KindsIs == VolumeKind = {"volume", "unmute"} /\ \A f \in Modes : f \notin VolumeKind
    BY PlayAssumption DEF VolumeKind

LEMMA RequestVolume ==
    ASSUME NEW n, NEW kind, NEW arg
    PROVE  LET c == Request(n, kind, arg)
           IN  c.kind = kind /\ c.arg = arg /\ c.state = "sent"
    BY DEF Request

LEMMA SetVolume ==
    ASSUME Told, NEW f, NEW v, NEW t \in Nat
    PROVE  /\ f = "volume" => With(f, v, t).set["volume"] = v
           /\ f # "volume" => With(f, v, t).set["volume"] = level
<1>1. With(f, v, t).set = [srv.set EXCEPT ![f] = v] /\ IsSet(srv.set)
    BY DEF Told, IsServer, With
<1>2. "volume" \in Field
    BY DEF Field
<1> QED BY <1>1, <1>2 DEF IsSet, level

LEMMA AfterVolume ==
    ASSUME Told, NEW c
    PROVE  /\ c.kind \in VolumeKind => After(c).set["volume"] = c.arg
           /\ c.kind \notin VolumeKind => After(c).set["volume"] = level
<1>1. IsServer(srv) /\ srv.time \in Nat
    BY DEF Told, IsServer
<1> DEFINE k == c.kind
           v == c.arg
           u == ~srv.paused
           t == srv.time
<1>2. \/ k \in Modes /\ After(c) = [srv EXCEPT !.set[k] = v, !.time = t + 1]
      \/ k \in VolumeKind /\ After(c) = [srv EXCEPT !.set["volume"] = v, !.time = t]
      \/ k \notin VolumeKind /\ After(c) \in {srv, Starts(srv), [srv EXCEPT !.paused = u], [srv EXCEPT !.paused = FALSE]}
    <2>1. CASE k \in Modes
        <3>1. k \notin {"next", "start", "pause", "play", "volume", "unmute"}
            BY <2>1, PlayAssumption
        <3>2. After(c) = [srv EXCEPT !.set[k] = v, !.time = @ + 1]
            BY <1>1, <2>1, <3>1 DEF After, VolumeKind, IsServer
        <3> QED BY <2>1, <3>2
    <2>2. CASE k \in VolumeKind
        <3>1. k \in {"volume", "unmute"} /\ k \notin Modes
            BY <2>2, KindsIs
        <3>2. After(c) = [srv EXCEPT !.set["volume"] = v]
            BY <2>2, <3>1 DEF After
        <3> QED BY <1>1, <2>2, <3>1, <3>2 DEF IsServer
    <2>3. CASE k \notin Modes /\ k \notin VolumeKind
        BY <1>1, <2>3 DEF After, IsServer
    <2> QED BY <2>1, <2>2, <2>3
<1>3. CASE k \in Modes /\ After(c) = [srv EXCEPT !.set[k] = v, !.time = t + 1]
    <2> DEFINE w == t + 1
               s == With(k, v, w)
    <2>1. After(c) = s /\ w \in Nat
        BY <1>1, <1>3 DEF With
    <2>2. k # "volume" /\ k \notin VolumeKind
        BY <1>3, ModeIs, KindsIs
    <2> HIDE DEF w, v
    <2>3. s.set["volume"] = level
        BY <2>1, <2>2, SetVolume
    <2> HIDE DEF s
    <2> QED BY <2>1, <2>2, <2>3
<1>4. CASE k \in VolumeKind /\ After(c) = [srv EXCEPT !.set["volume"] = v, !.time = t]
    <2> DEFINE s == With("volume", v, t)
    <2>1. After(c) = s /\ t \in Nat
        BY <1>1, <1>4 DEF With
    <2>2. s.set["volume"] = v
        <3> HIDE DEF v, t
        <3> QED BY <2>1, SetVolume
    <2> HIDE DEF s
    <2> QED BY <1>4, <2>1, <2>2
<1>5. CASE /\ k \notin VolumeKind
           /\ After(c) \in {srv, Starts(srv), [srv EXCEPT !.paused = u], [srv EXCEPT !.paused = FALSE]}
    <2> HIDE DEF u
    <2>1. After(c).set = srv.set
        BY <1>1, <1>5, StartsIs DEF IsServer
    <2> QED BY <1>5, <2>1 DEF level
<1> QED BY <1>2, <1>3, <1>4, <1>5

\* A step that leaves the player's volume and what is on its way alone.
LEMMA StillWanted ==
    ASSUME Wanted, level' = level, wish' \in {wish, Null}, wait' = wait,
           \A c \in calls' : c.kind \in VolumeKind \cup {"refresh"} => c \in calls,
           \A c \in calls : c.kind \in VolumeKind /\ c.state = "sent" => c \in calls'
    PROVE  Wanted'
    BY DEF Wanted, level

\* A request comes that is not about the volume.
LEMMA AskOther ==
    ASSUME Wanted, NEW kind, NEW arg, Ask(kind, arg), kind \notin VolumeKind \cup {"refresh"},
           UNCHANGED <<srv, wish, wait>>
    PROVE  Wanted'
<1> DEFINE d == Request(Free, kind, arg)
<1>1. calls' = calls \cup {d} /\ d.kind = kind
    BY RequestIs DEF Ask
<1> HIDE DEF d
<1>2. level' = level
    BY DEF level
<1> QED BY <1>1, <1>2, StillWanted

\* A refresh is asked for.
LEMMA AskRefresh ==
    ASSUME Wanted, UNCHANGED <<srv, wait>>, wish' = IF Sent THEN wish ELSE Null,
           NEW d, d.kind = "refresh", d.state = "sent",
           \A c \in calls' : c \in calls \/ c = d
    PROVE  Wanted'
<1> SUFFICES ASSUME wish' # Null PROVE Wanted'
    BY DEF Wanted
<1>1. wish' = wish /\ wait = Null /\ \A c \in calls : c.kind \notin VolumeKind
    BY DEF Sent, About
<1>2. level = wish /\ level' = level
    BY <1>1 DEF Wanted, level
<1>3. d.kind \notin VolumeKind
    BY KindsIs
<1> QED BY <1>1, <1>2, <1>3 DEF Wanted

LEMMA TimersWanted ==
    ASSUME VolumeInv, Timers
    PROVE  Wanted'
<1>1. CASE PlayTick \/ Second
    <2>1. UNCHANGED <<srv, wish, wait, calls>>
        BY <1>1 DEF PlayTick, Second
    <2> QED BY <2>1, StillWanted DEF VolumeInv, level
<1>2. CASE EchoTick
    <2>1. CASE Ask("refresh", 0) /\ wish' = IF Sent THEN wish ELSE Null
        <3> DEFINE d == Request(Free, "refresh", 0)
        <3>1. d.kind = "refresh" /\ d.state = "sent" /\ calls' = calls \cup {d}
            BY <2>1, RequestVolume DEF Ask
        <3>2. UNCHANGED <<srv, wait>>
            BY <1>2 DEF EchoTick
        <3> HIDE DEF d
        <3>3. \A c \in calls' : c \in calls \/ c = d
            BY <3>1
        <3> QED BY <2>1, <3>1, <3>2, <3>3, AskRefresh DEF VolumeInv
    <2>2. CASE UNCHANGED <<calls, wish>>
        BY <1>2, <2>2, StillWanted DEF EchoTick, VolumeInv, level
    <2> QED BY <1>2, <2>1, <2>2 DEF EchoTick
<1>3. CASE SetVD
    <2> DEFINE d == Request(Free, "volume", wait)
    <2>1. d.kind = "volume" /\ d.arg = wait /\ d.state = "sent" /\ calls' = calls \cup {d}
        BY <1>3, RequestVolume DEF SetVD, Ask
    <2>2. UNCHANGED <<srv, wish>> /\ wait' = Null /\ wait # Null
        BY <1>3 DEF SetVD
    <2> HIDE DEF d
    <2>3. level' = level /\ d.kind \in VolumeKind
        BY <2>1, <2>2, KindsIs DEF level
    <2>4. d \in calls'
        BY <2>1
    <2> QED BY <2>1, <2>2, <2>3, <2>4 DEF VolumeInv, Wanted
<1> QED BY <1>1, <1>2, <1>3 DEF Timers

LEMMA UserWanted ==
    ASSUME VolumeInv, User
    PROVE  Wanted'
<1>1. ASSUME NEW v \in Levels, Slide(v) PROVE Wanted'
    <2> SUFFICES ASSUME wish' # Null PROVE Wanted'
        BY DEF Wanted
    <2>1. wait' = v /\ wish' = v /\ UNCHANGED calls /\ Settled
        BY <1>1 DEF Slide, Moved
    <2>2. \A c \in calls' : c.kind \notin VolumeKind \cup {"refresh"}
        BY <2>1 DEF Settled, About
    <2> QED BY <2>1, <2>2 DEF Wanted
<1>2. CASE ClickVolume
    <2> SUFFICES ASSUME wish' # Null PROVE Wanted'
        BY DEF Wanted
    <2>1. PICK kind, arg : kind \in VolumeKind /\ Ask(kind, arg) /\ wish' = arg /\ Settled /\ wait' = Null
        BY <1>2, KindsIs DEF ClickVolume
    <2> DEFINE d == Request(Free, kind, arg)
    <2>2. d.kind = kind /\ d.arg = arg /\ d.state = "sent" /\ calls' = calls \cup {d}
        BY <2>1, RequestVolume DEF Ask
    <2> HIDE DEF d
    <2>3. \A c \in calls : c.kind \notin VolumeKind \cup {"refresh"}
        BY <2>1 DEF Settled, About
    <2>4. kind # "refresh"
        BY <2>1, KindsIs
    <2>5. d \in calls' /\ \A c \in calls' : c.kind \in VolumeKind \cup {"refresh"} => c = d
        BY <2>2, <2>3
    <2> QED BY <2>1, <2>2, <2>4, <2>5 DEF Wanted
<1>3. CASE \/ ClickPlay
           \/ \E f \in Modes : ClickMode(f)
           \/ \E k \in {"next", "start", "add"} : ClickTrack(k)
           \/ \E p \in 0 .. Length : SetPosition(p)
    <2>1. UNCHANGED <<srv, wish, wait>>
        BY <1>3 DEF ClickPlay, ClickMode, ClickTrack, SetPosition, Click
    <2>2. PICK kind, arg : /\ Ask(kind, arg)
                              /\ kind \in Modes \cup {"play", "pause", "seek", "next", "start", "add"}
        BY <1>3 DEF ClickPlay, ClickMode, ClickTrack, SetPosition
    <2>3. kind \notin VolumeKind \cup {"refresh"}
        BY <2>2, PlayAssumption DEF VolumeKind
    <2> QED BY <2>1, <2>2, <2>3, AskOther DEF VolumeInv
<1> QED BY <1>1, <1>2, <1>3 DEF User

LEMMA ReportedVolume ==
    ASSUME NEW s
    PROVE  Reported(s)["volume"] = s.set["volume"] \/ s.set["volume"] \in Lossy
    BY DEF Reported, Field

LEMMA ServeWanted ==
    ASSUME VolumeInv, NEW c \in calls, Serve(c)
    PROVE  Wanted'
<1> SUFFICES ASSUME wish' # Null PROVE Wanted'
    BY DEF Wanted
<1>1. UNCHANGED <<wish, wait>> /\ c.state = "sent" /\ Told /\ IsCall(c) /\ Wanted
    BY DEF Serve, VolumeInv, ModeInv, Told, IsTrue
<1>2. CASE Refused(c) /\ Answered(c, [c EXCEPT !.state = "failed"]) /\ UNCHANGED srv
    <2> DEFINE d == [c EXCEPT !.state = "failed"]
    <2>1. d.kind = c.kind /\ d.state = "failed"
        BY <1>1 DEF IsCall
    <2>2. calls' = (calls \ {c}) \cup {d} /\ level' = level
        BY <1>2 DEF Answered, level
    <2> HIDE DEF d
    <2>3. c.kind \notin VolumeKind \cup {"refresh"}
        BY <1>2, KindsIs DEF Refused
    <2> QED BY <1>1, <2>1, <2>2, <2>3, StillWanted
<1>3. CASE /\ srv' = After(c)
           /\ Answered(c, [c EXCEPT !.state = "ok", !.song = SongOf(srv'),
                                    !.set = Reported(srv'), !.at = srv'.time])
    <2> DEFINE m == Reported(srv')
               t == srv'.time
               g == SongOf(srv')
               d == [c EXCEPT !.state = "ok", !.song = g, !.set = m, !.at = t]
    <2>1. calls' = (calls \ {c}) \cup {d}
        BY <1>3 DEF Answered
    <2>2. m["volume"] = level' \/ level' \in Lossy
        BY ReportedVolume DEF level
    <2>3. /\ c.kind \in VolumeKind => level' = c.arg
          /\ c.kind \notin VolumeKind => level' = level
        BY <1>1, <1>3, AfterVolume DEF level
    <2> HIDE DEF m, t, g
    <2>4. d.kind = c.kind /\ d.arg = c.arg /\ d.state = "ok" /\ d.set = m
        BY <1>1 DEF IsCall
    <2> HIDE DEF d
    <2>5. "refresh" \notin VolumeKind
        BY KindsIs
    <2>6. CASE c.kind \in VolumeKind
        <3>1. level' = wish /\ c.arg = wish
            BY <1>1, <2>3, <2>6 DEF Wanted
        <3>2. \A e \in calls' : e \in calls \/ (e.kind \in VolumeKind /\ e.arg = wish /\ e.state = "ok")
            BY <2>1, <2>4, <2>6, <3>1
        <3> QED BY <1>1, <2>5, <3>1, <3>2 DEF Wanted
    <2>7. CASE c.kind \notin VolumeKind
        <3>1. level' = level
            BY <2>3, <2>7
        <3>2. \A e \in calls' : e \in calls \/ (e = d /\ d.kind \notin VolumeKind)
            BY <2>1, <2>4, <2>7
        <3>3. \A e \in calls : e.kind \in VolumeKind => e \in calls'
            BY <2>1, <2>7
        <3>4. d.kind = "refresh" => level = wish
            BY <1>1, <2>4 DEF Wanted
        <3> QED BY <1>1, <2>2, <2>4, <3>1, <3>2, <3>3, <3>4 DEF Wanted
    <2> QED BY <2>6, <2>7
<1> QED BY Zenon, <1>2, <1>3 DEF Serve

\* A request about the volume that fails ends what is known of the choice.
LEMMA FailWanted ==
    ASSUME VolumeInv, NEW c \in calls, Fail(c)
    PROVE  Wanted'
<1> SUFFICES ASSUME wish' # Null PROVE Wanted'
    BY DEF Wanted
<1> DEFINE d == [c EXCEPT !.state = "failed"]
<1>1. wait' = wait /\ wish' = wish /\ c.kind \notin VolumeKind
    BY DEF Fail, Trouble
<1>2. Told /\ IsCall(c) /\ Wanted
    BY DEF VolumeInv, ModeInv, Told, IsTrue
<1>3. calls' = (calls \ {c}) \cup {d} /\ (srv' = srv \/ srv' = After(c))
    BY DEF Fail, Answered
<1>4. level' = level
    BY <1>1, <1>2, <1>3, AfterVolume DEF level
<1>5. d.kind = c.kind /\ d.state = "failed"
    BY <1>2 DEF IsCall
<1> HIDE DEF d
<1>6. \A e \in calls' : e \in calls \/ (e = d /\ d.kind \notin VolumeKind)
    BY <1>1, <1>3, <1>5
<1>7. \A e \in calls : e.kind \in VolumeKind => e \in calls'
    BY <1>1, <1>3
<1>8. d.kind = "refresh" => level = wish
    BY <1>1, <1>2, <1>5 DEF Wanted
<1> QED BY <1>1, <1>2, <1>4, <1>5, <1>6, <1>7, <1>8 DEF Wanted

LEMMA SongEndsWanted ==
    ASSUME VolumeInv, SongEnds
    PROVE  Wanted'
<1>1. UNCHANGED <<wish, wait, calls>> /\ Told /\ IsServer(srv) /\ Wanted
    BY DEF SongEnds, VolumeInv, ModeInv, Told
<1>2. CASE srv' = Starts(srv)
    <2>1. level' = level
        BY <1>1, <1>2, StartsIs DEF level
    <2> QED BY <1>1, <2>1, StillWanted
<1>3. CASE srv' = [srv EXCEPT !.id = Null]
    <2>1. level' = level
        BY <1>1, <1>3 DEF IsServer, level
    <2> QED BY <1>1, <2>1, StillWanted
<1> QED BY <1>2, <1>3 DEF SongEnds

LEMMA ForeignWanted ==
    ASSUME VolumeInv, Foreign
    PROVE  Wanted'
<1>1. UNCHANGED <<wait, calls>> /\ Told /\ Wanted
    BY ForeignIs DEF VolumeInv, ModeInv
<1>2. srv.time \in Nat /\ later \in Nat
    BY <1>1 DEF Told, IsServer, later
<1>3. CASE OtherSong /\ wish' = wish
    <2>1. level' = level
        BY <1>1, <1>3, OtherSongIs DEF level
    <2> QED BY <1>1, <1>3, <2>1, StillWanted
<1>4. CASE wish' = Null
    BY <1>4 DEF Wanted
<1>5. CASE wish' = wish /\ \E f \in Modes : \E v \in Settings[f] : srv' = With(f, v, later)
    <2>1. PICK f \in Modes : \E v \in Settings[f] : srv' = With(f, v, later)
        BY <1>5
    <2>2. level' = level
        BY <1>1, <1>2, <2>1, ModeIs, SetVolume DEF level
    <2> QED BY <1>1, <1>5, <2>2, StillWanted
<1> QED BY Zenon, <1>1, <1>3, <1>4, <1>5, ForeignIs

LEMMA ResumeWanted ==
    ASSUME VolumeInv, NEW c \in calls, Resume(c)
    PROVE  Wanted'
<1> SUFFICES ASSUME wish' # Null PROVE Wanted'
    BY DEF Wanted
<1>1. srv' = srv /\ level' = level /\ Wanted
    BY DEF Resume, VolumeInv, level
<1>2. CASE RefreshDone(c)
    <2>1. /\ c.kind = "refresh" /\ c.state = "ok" /\ calls' = calls \ {c}
          /\ wish' = wish /\ wish \notin Lossy /\ Moved(c.set["volume"])
        BY <1>2 DEF RefreshDone, Done
    <2>2. level = wish /\ c.set["volume"] = wish
        BY <1>1, <2>1 DEF Wanted
    <2>3. wait' \in {wait, wish}
        BY <2>1, <2>2 DEF Moved
    <2> QED BY <1>1, <2>1, <2>2, <2>3 DEF Wanted
<1>3. CASE VolumeDone(c)
    <2>1. wish' = wish /\ calls' = calls \ {c} /\ c.kind \in VolumeKind
        BY <1>3 DEF VolumeDone, Done
    <2>2. c.state # "failed"
        BY <1>1, <2>1 DEF Wanted
    <2>3. wait' = wait /\ c.state = "ok"
        BY <1>3, <2>2 DEF VolumeDone
    <2> QED BY <1>1, <2>1, <2>3, StillWanted
<1>4. CASE StartDone(c)
    <2> DEFINE d == Request(c.n, "refresh", 0)
    <2>1. calls' = (calls \ {c}) \cup {d} /\ d.kind = "refresh" /\ d.state = "sent"
        BY <1>4, RequestVolume DEF StartDone
    <2>2. UNCHANGED <<srv, wait>> /\ wish' = IF Sent THEN wish ELSE Null
        BY <1>1, <1>4 DEF StartDone
    <2> HIDE DEF d
    <2>3. \A e \in calls' : e \in calls \/ e = d
        BY <2>1
    <2> QED BY <1>1, <2>1, <2>2, <2>3, AskRefresh
<1>5. CASE ModeDone(c) \/ TrackDone(c) \/ PlayDone(c) \/ SeekDone(c) \/ Failed(c)
    <2>1. UNCHANGED <<wish, wait>> /\ calls' = calls \ {c}
        BY Zenon, <1>5 DEF ModeDone, TrackDone, PlayDone, SeekDone, Failed, Done, volume
    <2>2. \/ c.kind \in Modes \cup {"next", "play", "pause", "seek"}
          \/ c.state = "failed"
        BY Zenon, <1>5 DEF ModeDone, TrackDone, PlayDone, SeekDone, Failed
    <2>3. c.kind \notin VolumeKind \/ c.state = "failed"
        BY <2>2, KindsIs
    <2> QED BY <1>1, <2>1, <2>3, StillWanted
<1> QED BY <1>2, <1>3, <1>4, <1>5 DEF Resume

LEMMA StepVolume ==
    ASSUME VolumeInv, [Next]_vars
    PROVE  VolumeInv'
<1>1. CASE UNCHANGED vars
    <2>1. UNCHANGED <<srv, wish, wait, calls>>
        BY <1>1 DEF vars, volume
    <2> QED BY <1>1, <2>1, StepModes, StillWanted DEF VolumeInv, level
<1>2. CASE Foreign
    BY <1>2, StepModes, ForeignWanted DEF VolumeInv
<1> QED BY <1>1, <1>2, StepModes, TimersWanted, UserWanted, ServeWanted, FailWanted, ResumeWanted,
           SongEndsWanted DEF Next, Network, VolumeInv

\* The volume the user chose last, while no request about the volume was under
\* way, is the player's once nothing is: the slider's pause, the refreshes and
\* the echoes that overlap with it never undo it, unless a request about the
\* volume fails or somebody else chooses.
THEOREM WishArrives == Spec => []WishKept
<1>1. VolumeInv => WishKept
    BY DEF VolumeInv, Wanted, WishKept, Settled, About, level
<1>2. Init => VolumeInv
    BY InitModes DEF Init, VolumeInv, Wanted
<1> QED BY <1>1, <1>2, StepVolume, PTL DEF Spec

-----------------------------------------------------------------------------
(* Types *)

\* The settings m and the song i are ones the page knows.
Fit(m) == \A f \in Field : m[f] \in Settings[f]
Song(i) == i \in 1 .. Songs \cup {Null}

ServerFit(s) == Song(s.id) /\ s.next \in 1 .. Songs + 1 /\ Fit(s.set)

ArgFit(kind, arg) == /\ kind \in VolumeKind => arg \in Levels
                     /\ kind \in Modes => arg \in Settings[kind]
                     /\ kind = "seek" => arg \in 0 .. Length

CallFit(c) == ArgFit(c.kind, c.arg) /\ Song(c.song.id) /\ Fit(c.set)

CallsFit == /\ IsFiniteSet(calls) /\ \A c \in calls : CallFit(c)
            /\ \A c, d \in calls : c.n = d.n => c = d

ClocksFit == /\ playTick \in BOOLEAN /\ echoTick \in BOOLEAN /\ echoCounter \in 0 .. 6
             /\ due \subseteq {"play", "echo"}
ShownFit == Song(info.id) /\ info.pos \in 0 .. Length /\ Fit(info.set)
SliderFit == wait \in Levels \cup {Null} /\ mute \in Levels /\ old \in Levels

Fits == Inv /\ ModeInv /\ ServerFit(srv) /\ CallsFit /\ ClocksFit /\ ShownFit /\ SliderFit

LEMMA SettingsAre ==
    /\ "volume" \in Field /\ Settings["volume"] = Levels
    /\ \A f \in Modes : f \in Field /\ f # "volume" /\ Settings[f] = 0 .. Size(f) - 1
    /\ \A f \in Field : f \in Modes \/ f = "volume"
    /\ \A f \in Modes : Size(f) \in {2, 3}
BY ModeIs DEF Settings, Field, Size

LEMMA ZeroFits == Fit(Zero) /\ Song(Null)
<1>1. \A f \in Field : Zero[f] = 0
    BY DEF Zero
<1>2. \A f \in Field : 0 \in Settings[f]
    <2>1. ASSUME NEW f \in Modes PROVE 0 \in Settings[f]
        <3>1. Size(f) \in {2, 3} /\ Settings[f] = 0 .. Size(f) - 1
            BY SettingsAre
        <3> QED BY <3>1
    <2>2. 0 \in Settings["volume"]
        BY SettingsAre, PlayAssumption
    <2> QED BY <2>1, <2>2, SettingsAre
<1> QED BY <1>1, <1>2 DEF Fit, Song

LEMMA WithFits ==
    ASSUME NEW m, IsSet(m), Fit(m), NEW f \in Field, NEW v \in Settings[f]
    PROVE  Fit([m EXCEPT ![f] = v])
BY DEF IsSet, Fit

LEMMA ReportedFits ==
    ASSUME NEW s, Fit(s.set)
    PROVE  Fit(Reported(s))
<1> SUFFICES ASSUME NEW f \in Field PROVE Reported(s)[f] \in Settings[f]
    BY DEF Fit
<1>1. s.set[f] \in Settings[f]
    BY DEF Fit
<1>2. CASE f = "volume" /\ s.set[f] \in Lossy
    <2>1. Reported(s)[f] = s.set[f] - 1
        BY <1>2 DEF Reported
    <2> QED BY <1>2, <2>1, SettingsAre, PlayAssumption
<1>3. CASE ~(f = "volume" /\ s.set[f] \in Lossy)
    <2>1. Reported(s)[f] = s.set[f]
        BY <1>3 DEF Reported
    <2> QED BY <1>1, <2>1
<1> QED BY <1>2, <1>3

-----------------------------------------------------------------------------
(* The numbers of requests *)

LEMMA FreeIs ==
    ASSUME Cardinality(calls) < MaxCalls, IsFiniteSet(calls)
    PROVE  Free \in 1 .. MaxCalls /\ \A c \in calls : c.n # Free
<1>1. \E n \in 1 .. MaxCalls : \A c \in calls : c.n # n
    <2> SUFFICES ASSUME \A n \in 1 .. MaxCalls : \E c \in calls : c.n = n
                 PROVE  FALSE
        OBVIOUS
    <2> DEFINE by == [n \in 1 .. MaxCalls |-> CHOOSE c \in calls : c.n = n]
    <2>1. by \in [1 .. MaxCalls -> calls] /\ \A n \in 1 .. MaxCalls : by[n].n = n
        OBVIOUS
    <2>2. IsFiniteSet(1 .. MaxCalls) /\ Cardinality(1 .. MaxCalls) = MaxCalls
        BY FS_Interval, PlayAssumption
    <2>3. \E m, n \in 1 .. MaxCalls : m # n /\ by[m] = by[n]
        <3> HIDE DEF by
        <3> QED BY <2>1, <2>2, FS_PigeonHole
    <2> QED BY <2>1, <2>3
<1> QED BY <1>1 DEF Free

LEMMA RequestFits ==
    ASSUME NEW n, NEW kind, NEW arg, ArgFit(kind, arg)
    PROVE  CallFit(Request(n, kind, arg)) /\ Request(n, kind, arg).n = n
<1> DEFINE c == Request(n, kind, arg)
<1>1. /\ c.n = n /\ c.kind = kind /\ c.arg = arg /\ c.song = NoSong /\ c.set = Zero
    BY DEF Request
<1> HIDE DEF c
<1>2. c.song.id = Null
    BY <1>1 DEF NoSong
<1>3. CallFit(c) /\ c.n = n
    BY <1>1, <1>2, ZeroFits DEF CallFit
<1> QED BY <1>3 DEF c

\* Some requests go, and one comes with a number that none of the others has.
LEMMA CallsAre ==
    ASSUME CallsFit, NEW C \in SUBSET calls, NEW d, CallFit(d), calls' = C \cup {d},
           \A c \in C : c.n # d.n
    PROVE  CallsFit'
<1>1. IsFiniteSet(calls')
    BY FS_Subset, FS_AddElement DEF CallsFit
<1>2. \A c \in calls' : CallFit(c)
    BY DEF CallsFit
<1>3. \A c, e \in calls' : c.n = e.n => c = e
    BY DEF CallsFit
<1> QED BY <1>1, <1>2, <1>3 DEF CallsFit, CallFit, ArgFit

LEMMA AskFits ==
    ASSUME CallsFit, NEW kind, NEW arg, ArgFit(kind, arg), Ask(kind, arg)
    PROVE  CallsFit'
<1> DEFINE d == Request(Free, kind, arg)
<1>1. CallFit(d) /\ d.n = Free
    BY RequestFits
<1>2. \A c \in calls : c.n # Free
    BY FreeIs DEF Ask, CallsFit
<1>3. calls' = calls \cup {d}
    BY DEF Ask
<1> HIDE DEF d
<1>4. calls \in SUBSET calls /\ \A c \in calls : c.n # d.n
    BY <1>1, <1>2
<1> QED BY <1>1, <1>3, <1>4, CallsAre

LEMMA AnswerFits ==
    ASSUME CallsFit, NEW c \in calls, NEW d, Answered(c, d), CallFit(d), d.n = c.n
    PROVE  CallsFit'
<1>1. calls' = (calls \ {c}) \cup {d} /\ calls \ {c} \in SUBSET calls
    BY DEF Answered
<1>2. \A e \in calls \ {c} : e.n # d.n
    BY DEF CallsFit
<1> QED BY <1>1, <1>2, CallsAre

LEMMA FewerFit ==
    ASSUME CallsFit, calls' \subseteq calls
    PROVE  CallsFit'
BY FS_Subset DEF CallsFit, CallFit, ArgFit

-----------------------------------------------------------------------------
(* The player *)

LEMMA StartsFit ==
    ASSUME Told, ServerFit(srv), srv.next <= Songs
    PROVE  ServerFit(Starts(srv))
<1> DEFINE i == srv.next
           j == srv.next + 1
           s == [srv EXCEPT !.id = i, !.next = j, !.paused = FALSE]
<1>1. Starts(srv) = s
    BY DEF Starts, Told, IsServer
<1>2. i \in 1 .. Songs /\ j \in 1 .. Songs + 1
    BY PlayAssumption DEF ServerFit
<1> HIDE DEF i, j
<1>3. s.id = i /\ s.next = j /\ s.set = srv.set
    BY DEF Told, IsServer
<1>4. Starts(srv).id = i /\ Starts(srv).next = j /\ Starts(srv).set = srv.set
    BY <1>1, <1>3
<1> QED BY <1>2, <1>4 DEF ServerFit, Song

LEMMA SetFits ==
    ASSUME Told, ServerFit(srv), NEW f \in Field, NEW v \in Settings[f], NEW t
    PROVE  ServerFit(With(f, v, t))
<1> DEFINE s == With(f, v, t)
<1>1. s.set = [srv.set EXCEPT ![f] = v] /\ s.id = srv.id /\ s.next = srv.next /\ IsSet(srv.set)
    BY DEF Told, IsServer, With
<1>2. Fit([srv.set EXCEPT ![f] = v])
    BY <1>1, WithFits DEF ServerFit
<1> HIDE DEF s
<1>3. ServerFit(s)
    BY <1>1, <1>2 DEF ServerFit
<1> QED BY <1>3 DEF s

LEMMA PausedFits ==
    ASSUME Told, ServerFit(srv), NEW u
    PROVE  ServerFit([srv EXCEPT !.paused = u]) /\ ServerFit([srv EXCEPT !.id = Null])
<1> DEFINE s == [srv EXCEPT !.paused = u]
           e == [srv EXCEPT !.id = Null]
<1>1. /\ s.id = srv.id /\ s.next = srv.next /\ s.set = srv.set
      /\ e.id = Null /\ e.next = srv.next /\ e.set = srv.set
    BY DEF Told, IsServer
<1> HIDE DEF s, e
<1>2. ServerFit(s) /\ ServerFit(e)
    BY <1>1 DEF ServerFit, Song
<1> QED BY <1>2 DEF s, e

LEMMA AfterFits ==
    ASSUME Told, ServerFit(srv), NEW c, CallFit(c), ~Refused(c)
    PROVE  ServerFit(After(c))
<1>1. IsServer(srv) /\ srv.time \in Nat
    BY DEF Told, IsServer
<1> DEFINE k == c.kind
           v == c.arg
           u == ~srv.paused
           t == srv.time
<1>2. srv.next \in Nat /\ Songs \in Nat
    BY PlayAssumption DEF ServerFit
<1>3. \/ k \in Modes /\ After(c) = [srv EXCEPT !.set[k] = v, !.time = t + 1]
      \/ k \in VolumeKind /\ After(c) = [srv EXCEPT !.set["volume"] = v, !.time = t]
      \/ srv.next <= Songs /\ After(c) = Starts(srv)
      \/ After(c) \in {srv, [srv EXCEPT !.paused = u], [srv EXCEPT !.paused = FALSE]}
    <2>1. CASE k \in Modes
        <3>1. k \notin {"next", "start", "pause", "play", "volume", "unmute"}
            BY <2>1, PlayAssumption
        <3>2. After(c) = [srv EXCEPT !.set[k] = v, !.time = @ + 1]
            BY <1>1, <2>1, <3>1 DEF After, VolumeKind, IsServer
        <3> QED BY <2>1, <3>2
    <2>2. CASE k \in VolumeKind
        <3>1. k \in {"volume", "unmute"} /\ k \notin Modes
            BY <2>2, KindsIs
        <3>2. After(c) = [srv EXCEPT !.set["volume"] = v]
            BY <2>2, <3>1 DEF After
        <3> QED BY <1>1, <2>2, <3>1, <3>2 DEF IsServer
    <2>3. CASE k \in {"next", "start"}
        <3>1. After(c) = Starts(srv)
            BY <2>3, PlayAssumption DEF After, VolumeKind
        <3>2. srv.next <= Songs
            BY <1>2, <2>3 DEF Refused
        <3> QED BY <3>1, <3>2
    <2>4. CASE k \notin Modes /\ k \notin VolumeKind /\ k \notin {"next", "start"}
        BY <1>1, <2>4 DEF After, IsServer
    <2> QED BY <2>1, <2>2, <2>3, <2>4
<1>4. CASE k \in Modes /\ After(c) = [srv EXCEPT !.set[k] = v, !.time = t + 1]
    <2> DEFINE w == t + 1
    <2>1. After(c) = With(k, v, w)
        BY <1>4 DEF With
    <2>2. k \in Field /\ v \in Settings[k]
        BY <1>4, SettingsAre DEF CallFit, ArgFit
    <2> HIDE DEF w, v, k
    <2> QED BY <2>1, <2>2, SetFits
<1>5. CASE k \in VolumeKind /\ After(c) = [srv EXCEPT !.set["volume"] = v, !.time = t]
    <2>1. After(c) = With("volume", v, t)
        BY <1>5 DEF With
    <2>2. "volume" \in Field /\ v \in Settings["volume"]
        BY <1>5, SettingsAre DEF CallFit, ArgFit
    <2> HIDE DEF v, t
    <2> QED BY <2>1, <2>2, SetFits
<1>6. CASE srv.next <= Songs /\ After(c) = Starts(srv)
    BY <1>6, StartsFit
<1>7. CASE After(c) \in {srv, [srv EXCEPT !.paused = u], [srv EXCEPT !.paused = FALSE]}
    <2> HIDE DEF u
    <2>1. CASE After(c) = [srv EXCEPT !.paused = u]
        BY <2>1, PausedFits
    <2>2. CASE After(c) = [srv EXCEPT !.paused = FALSE]
        BY <2>2, PausedFits
    <2> QED BY <1>7, <2>1, <2>2
<1> QED BY <1>3, <1>4, <1>5, <1>6, <1>7

\* The page is left alone.
PageStays == UNCHANGED <<info, timers, wait, mute, old>>

LEMMA PageFits ==
    ASSUME Fits, PageStays
    PROVE  ClocksFit' /\ ShownFit' /\ SliderFit'
BY DEF Fits, PageStays, ClocksFit, ShownFit, SliderFit, Fit

LEMMA ServeFits ==
    ASSUME Fits, NEW c \in calls, Serve(c)
    PROVE  ServerFit(srv)' /\ CallsFit' /\ PageStays
<1>1. Told /\ ServerFit(srv) /\ CallsFit /\ CallFit(c) /\ IsCall(c)
    BY DEF Fits, ModeInv, CallsFit, Told, IsTrue
<1>2. PageStays
    BY DEF Serve, PageStays
<1>3. CASE Answered(c, [c EXCEPT !.state = "failed"]) /\ UNCHANGED srv
    <2> DEFINE d == [c EXCEPT !.state = "failed"]
    <2>1. d.n = c.n /\ d.kind = c.kind /\ d.arg = c.arg /\ d.song = c.song /\ d.set = c.set
        BY <1>1 DEF IsCall
    <2>2. Answered(c, d)
        BY <1>3
    <2> HIDE DEF d
    <2>3. CallFit(d)
        BY <1>1, <2>1 DEF CallFit
    <2> QED BY <1>1, <1>2, <1>3, <2>1, <2>2, <2>3, AnswerFits DEF ServerFit, Fit
<1>4. CASE /\ ~Refused(c) /\ srv' = After(c)
           /\ Answered(c, [c EXCEPT !.state = "ok", !.song = SongOf(srv'),
                                    !.set = Reported(srv'), !.at = srv'.time])
    <2> DEFINE m == Reported(srv')
               t == srv'.time
               g == SongOf(srv')
               d == [c EXCEPT !.state = "ok", !.song = g, !.set = m, !.at = t]
    <2>1. ServerFit(srv')
        BY <1>1, <1>4, AfterFits
    <2>2. Fit(m) /\ Song(g.id)
        BY <2>1, ReportedFits DEF ServerFit, SongOf
    <2>3. Answered(c, d)
        BY <1>4
    <2> HIDE DEF m, t, g
    <2>4. d.n = c.n /\ d.kind = c.kind /\ d.arg = c.arg /\ d.song = g /\ d.set = m
        BY <1>1 DEF IsCall
    <2> HIDE DEF d
    <2>5. CallFit(d)
        BY <1>1, <2>2, <2>4 DEF CallFit
    <2>6. CallsFit'
        BY <1>1, <2>3, <2>4, <2>5, AnswerFits
    <2> QED BY <1>2, <2>1, <2>6 DEF ServerFit, Fit
<1> QED BY Zenon, <1>3, <1>4 DEF Serve

LEMMA FailFits ==
    ASSUME Fits, NEW c \in calls, Fail(c)
    PROVE  ServerFit(srv)' /\ CallsFit' /\ PageStays
<1>1. Told /\ ServerFit(srv) /\ CallsFit /\ CallFit(c) /\ IsCall(c)
    BY DEF Fits, ModeInv, CallsFit, Told, IsTrue
<1>2. PageStays
    BY DEF Fail, Trouble, PageStays
<1> DEFINE d == [c EXCEPT !.state = "failed"]
<1>3. d.n = c.n /\ d.kind = c.kind /\ d.arg = c.arg /\ d.song = c.song /\ d.set = c.set
    BY <1>1 DEF IsCall
<1>4. Answered(c, d)
    BY DEF Fail
<1> HIDE DEF d
<1>5. CallFit(d)
    BY <1>1, <1>3 DEF CallFit
<1>6. CallsFit'
    BY <1>1, <1>3, <1>4, <1>5, AnswerFits
<1>7. srv' = srv \/ (srv' = After(c) /\ ~Refused(c))
    BY Zenon DEF Fail
<1>8. ServerFit(srv')
    BY <1>1, <1>7, AfterFits
<1> QED BY <1>2, <1>6, <1>8 DEF ServerFit, Fit

LEMMA OthersFit ==
    ASSUME Fits, Foreign \/ SongEnds
    PROVE  ServerFit(srv)' /\ CallsFit' /\ PageStays
<1>1. Told /\ ServerFit(srv) /\ CallsFit /\ srv.time \in Nat
    BY DEF Fits, ModeInv, Told, IsServer
<1>2. UNCHANGED calls /\ PageStays
    BY Zenon DEF Foreign, Trouble, SongEnds, PageStays
<1>3. CallsFit'
    BY <1>1, <1>2, FewerFit
<1>4. \/ OtherSong
      \/ \E f \in Field : \E v \in Settings[f], t \in Nat : srv' = With(f, v, t)
    <2>1. SongEnds => OtherSong
        BY Zenon DEF SongEnds, OtherSong
    <2>2. later \in Nat /\ "volume" \in Field /\ Settings["volume"] = Levels
        BY <1>1, SettingsAre DEF later, Field
    <2>3. \A f \in Modes : f \in Field
        BY ModeIs
    <2> QED BY Zenon, <1>1, <2>1, <2>2, <2>3, ForeignIs
<1>5. CASE srv' = [srv EXCEPT !.paused = toggled]
    BY <1>1, <1>2, <1>3, <1>5, PausedFits DEF ServerFit, Fit
<1>6. CASE srv' = [srv EXCEPT !.id = Null]
    BY <1>1, <1>2, <1>3, <1>6, PausedFits DEF ServerFit, Fit
<1>7. CASE srv.next <= Songs /\ srv' = Starts(srv)
    BY <1>1, <1>2, <1>3, <1>7, StartsFit DEF ServerFit, Fit
<1>8. CASE \E f \in Field : \E v \in Settings[f], t \in Nat : srv' = With(f, v, t)
    BY <1>1, <1>2, <1>3, <1>8, SetFits DEF ServerFit, Fit
<1> QED BY <1>4, <1>5, <1>6, <1>7, <1>8 DEF OtherSong

-----------------------------------------------------------------------------
(* The page *)

LEMMA TickIs ==
    ASSUME NEW s, NEW tick, UpdateTimers(s, tick), tick \in BOOLEAN
    PROVE  playTick' \in BOOLEAN
BY Zenon DEF UpdateTimers, Playing

\* A song that the page knows is shown, at a second of it.
LEMMA SongFits ==
    ASSUME Fits, NEW s, Song(s.id), NEW p \in 0 .. Length, NEW tick, tick \in BOOLEAN,
           ShowSong(s, p, tick)
    PROVE  ShownFit' /\ playTick' \in BOOLEAN
<1>1. playTick' \in BOOLEAN
    BY Zenon, TickIs DEF ShowSong
<1> DEFINE i == s.id
           u == s.paused
<1>2. info' = [info EXCEPT !.id = i, !.paused = u, !.pos = p]
    BY Zenon DEF ShowSong
<1>3. Song(i)
    OBVIOUS
<1> HIDE DEF i, u
<1>4. info'.id = i /\ info'.pos = p /\ info'.set = info.set
    BY <1>2 DEF Fits, Inv, Shape, IsInfo
<1> QED BY <1>1, <1>3, <1>4 DEF Fits, ShownFit, Fit, Song

\* A setting is shown.
LEMMA EditFits ==
    ASSUME Fits, NEW f \in Field, NEW v \in Settings[f], info' = [info EXCEPT !.set[f] = v]
    PROVE  ShownFit' /\ info'.set[f] = v
<1>1. /\ info'.id = info.id /\ info'.pos = info.pos /\ info'.set = [info.set EXCEPT ![f] = v]
      /\ IsSet(info.set) /\ Fit(info.set)
    BY DEF Fits, ModeInv, Told, IsInfo, ShownFit
<1>2. Fit(info'.set)
    BY <1>1, WithFits
<1> QED BY <1>1, <1>2 DEF Fits, ShownFit, Fit, Song, IsSet

LEMMA MovedFits ==
    ASSUME Fits, NEW v \in Levels, Moved(v)
    PROVE  wait' \in Levels \cup {Null}
BY Zenon DEF Moved, Fits, SliderFit

PlayerStays == UNCHANGED srv
ShownStays == UNCHANGED info
ClocksStay == UNCHANGED timers
SlidersStay == UNCHANGED <<wait, mute, old>>

LEMMA StaysFit ==
    ASSUME Fits
    PROVE  /\ PlayerStays => ServerFit(srv)'
           /\ ShownStays => ShownFit'
           /\ ClocksStay => ClocksFit'
           /\ SlidersStay => SliderFit'
           /\ UNCHANGED calls => CallsFit'
<1>1. UNCHANGED calls => CallsFit'
    BY FewerFit DEF Fits
<1>2. PlayerStays => ServerFit(srv)'
    BY DEF Fits, PlayerStays, ServerFit, Song, Fit
<1>3. ShownStays => ShownFit'
    BY DEF Fits, ShownStays, ShownFit, Song, Fit
<1>4. (ClocksStay => ClocksFit') /\ (SlidersStay => SliderFit')
    BY DEF Fits, ClocksStay, ClocksFit, SlidersStay, SliderFit
<1> QED BY <1>1, <1>2, <1>3, <1>4

PartsFit == ServerFit(srv) /\ CallsFit /\ ClocksFit /\ ShownFit /\ SliderFit

LEMMA PlayTickFits ==
    ASSUME Fits, PlayTick
    PROVE  PartsFit'
<1>1. PlayerStays /\ SlidersStay /\ UNCHANGED calls /\ due' \subseteq due
    BY DEF PlayTick, PlayerStays, SlidersStay
<1>2. CASE ShownStays /\ playTick' = FALSE /\ (UNCHANGED <<echoTick, echoCounter>> \/ StartEcho)
    <2>1. UNCHANGED <<echoTick, echoCounter>> \/ (echoTick' = TRUE /\ echoCounter' = 0)
        BY <1>2 DEF StartEcho
    <2>2. playTick' \in BOOLEAN /\ echoTick' \in BOOLEAN
        BY Zenon, <1>2, <2>1 DEF Fits, ClocksFit
    <2>3. echoCounter' \in 0 .. 6 /\ due' \subseteq {"play", "echo"}
        BY <1>1, <2>1 DEF Fits, ClocksFit
    <2>4. ClocksFit'
        BY <2>2, <2>3 DEF ClocksFit
    <2> QED BY <1>1, <1>2, <2>4, StaysFit DEF PartsFit
<1>3. CASE /\ info.pos < Length /\ ShowSong(SongOf(info), info.pos + 1, playTick)
           /\ UNCHANGED <<echoTick, echoCounter>>
    <2>1. info.pos + 1 \in 0 .. Length /\ Song(info.id) /\ SongOf(info).id = info.id
        BY <1>3, PlayAssumption DEF Fits, ShownFit, SongOf
    <2>2. playTick \in BOOLEAN
        BY DEF Fits, ClocksFit
    <2>3. ShownFit' /\ playTick' \in BOOLEAN
        BY <1>3, <2>1, <2>2, SongFits
    <2>4. ClocksFit'
        BY <1>1, <1>3, <2>3 DEF Fits, ClocksFit
    <2> QED BY <1>1, <2>3, <2>4, StaysFit DEF PartsFit
<1> QED BY Zenon, <1>2, <1>3 DEF PlayTick, ShownStays

LEMMA EchoTickFits ==
    ASSUME Fits, EchoTick
    PROVE  PartsFit'
<1>1. PlayerStays /\ ShownStays /\ SlidersStay
    BY DEF EchoTick, PlayerStays, ShownStays, SlidersStay
<1>2. CallsFit'
    <2>1. Ask("refresh", 0) \/ UNCHANGED calls
        BY Zenon DEF EchoTick
    <2>2. ArgFit("refresh", 0)
        BY ModeIs DEF ArgFit, VolumeKind
    <2> QED BY <2>1, <2>2, AskFits, StaysFit DEF Fits
<1>3. ClocksFit'
    <2>1. echoCounter \in 0 .. 5 /\ echoCounter' = echoCounter + 1
        BY DEF EchoTick, Fits, Inv, Echoes
    <2> DEFINE b == echoCounter + 1 < 6
    <2>2. b \in BOOLEAN
        BY <2>1
    <2>3. echoTick' = b /\ UNCHANGED playTick /\ due' \subseteq due
        BY DEF EchoTick
    <2> HIDE DEF b
    <2> QED BY <2>1, <2>2, <2>3 DEF Fits, ClocksFit
<1> QED BY <1>1, <1>2, <1>3, StaysFit DEF PartsFit

LEMMA SecondFits ==
    ASSUME Fits, Second
    PROVE  PartsFit'
<1>1. PlayerStays /\ ShownStays /\ SlidersStay /\ UNCHANGED calls
    BY DEF Second, PlayerStays, ShownStays, SlidersStay
<1>2. ClocksFit'
    BY DEF Second, Running, Fits, ClocksFit
<1> QED BY <1>1, <1>2, StaysFit DEF PartsFit

LEMMA SetVDFits ==
    ASSUME Fits, SetVD
    PROVE  PartsFit'
<1>1. PlayerStays /\ ShownStays /\ ClocksStay
    BY DEF SetVD, PlayerStays, ShownStays, ClocksStay
<1>2. SliderFit'
    BY DEF SetVD, Fits, SliderFit
<1>3. ArgFit("volume", wait) /\ Ask("volume", wait)
    BY ModeIs DEF SetVD, Fits, SliderFit, ArgFit
<1> QED BY <1>1, <1>2, <1>3, AskFits, StaysFit DEF PartsFit, Fits

-----------------------------------------------------------------------------
(* The user *)

\* The value after the one that is shown.
LEMMA NextFits ==
    ASSUME Fits, NEW f \in Modes
    PROVE  ArgFit(f, (info.set[f] + 1) % Size(f))
<1>1. info.set[f] \in 0 .. Size(f) - 1 /\ Size(f) \in {2, 3}
    BY SettingsAre DEF Fits, ShownFit, Fit
<1>2. (info.set[f] + 1) % Size(f) \in 0 .. Size(f) - 1
    BY <1>1
<1> QED BY <1>2, SettingsAre, ModeIs DEF ArgFit, VolumeKind

\* A request without an argument.
LEMMA PlainFits ==
    ASSUME NEW k \in {"refresh", "next", "start", "add", "play", "pause"}
    PROVE  ArgFit(k, 0)
BY ModeIs DEF ArgFit, VolumeKind

LEMMA UserFits ==
    ASSUME Fits, User
    PROVE  PartsFit'
<1>1. ASSUME NEW v \in Levels, Slide(v) PROVE PartsFit'
    <2>1. PlayerStays /\ ClocksStay /\ UNCHANGED <<calls, mute, old>>
        BY <1>1 DEF Slide, Click, PlayerStays, ClocksStay
    <2>2. ShownFit'
        BY <1>1, SettingsAre, EditFits DEF Slide
    <2>3. SliderFit'
        BY <1>1, <2>1, MovedFits DEF Slide, Fits, SliderFit
    <2> QED BY <2>1, <2>2, <2>3, StaysFit DEF PartsFit
<1>2. CASE ClickVolume
    <2>1. PlayerStays /\ ShownStays /\ ClocksStay /\ UNCHANGED <<wait, old>>
        BY <1>2 DEF ClickVolume, Click, PlayerStays, ShownStays, ClocksStay
    <2>2. (Ask("unmute", mute) /\ UNCHANGED mute) \/ (Ask("volume", 0) /\ mute' = info.set["volume"])
        BY Zenon, <1>2 DEF ClickVolume
    <2>3. ArgFit("unmute", mute) /\ ArgFit("volume", 0)
        BY ModeIs, PlayAssumption DEF Fits, SliderFit, ArgFit
    <2>4. info.set["volume"] \in Levels
        BY SettingsAre DEF Fits, ShownFit, Fit
    <2>5. CallsFit'
        BY <2>2, <2>3, AskFits DEF Fits
    <2>6. SliderFit'
        BY <2>1, <2>2, <2>4 DEF Fits, SliderFit
    <2> QED BY <2>1, <2>5, <2>6, StaysFit DEF PartsFit
<1>3. ASSUME NEW p \in 0 .. Length, SetPosition(p) PROVE PartsFit'
    <2>1. PlayerStays /\ SlidersStay /\ UNCHANGED <<echoTick, echoCounter, due>>
        BY <1>3 DEF SetPosition, Click, PlayerStays, SlidersStay
    <2>2. playTick' \in BOOLEAN
        BY Zenon, <1>3 DEF SetPosition
    <2>3. ClocksFit'
        BY <2>1, <2>2 DEF Fits, ClocksFit
    <2>4. ShownFit'
        <3>1. info' = [info EXCEPT !.pos = p]
            BY <1>3 DEF SetPosition
        <3>2. info'.id = info.id /\ info'.pos = p /\ info'.set = info.set
            BY <3>1 DEF Fits, Inv, Shape, IsInfo
        <3> QED BY <3>2 DEF Fits, ShownFit, Fit, Song
    <2>5. Ask("seek", p) /\ ArgFit("seek", p)
        BY <1>3, ModeIs DEF SetPosition, ArgFit, VolumeKind
    <2> QED BY <2>1, <2>3, <2>4, <2>5, AskFits, StaysFit DEF PartsFit, Fits
<1>4. CASE ClickPlay \/ (\E f \in Modes : ClickMode(f)) \/ \E k \in {"next", "start", "add"} : ClickTrack(k)
    <2>1. PlayerStays /\ ShownStays /\ ClocksStay /\ SlidersStay
        BY <1>4 DEF ClickPlay, ClickMode, ClickTrack, Click,
                    PlayerStays, ShownStays, ClocksStay, SlidersStay
    <2>2. \E k, v : Ask(k, v) /\ ArgFit(k, v)
        <3>1. CASE ClickPlay
            <4>1. PICK k \in {"play", "pause"} : Ask(k, 0)
                BY Zenon, <3>1 DEF ClickPlay
            <4> QED BY <4>1, PlainFits
        <3>2. ASSUME NEW f \in Modes, ClickMode(f) PROVE <2>2!:
            BY <3>2, NextFits DEF ClickMode
        <3>3. ASSUME NEW k \in {"next", "start", "add"}, ClickTrack(k) PROVE <2>2!:
            BY <3>3, PlainFits DEF ClickTrack
        <3> QED BY <1>4, <3>1, <3>2, <3>3
    <2> QED BY <2>1, <2>2, AskFits, StaysFit DEF PartsFit, Fits
<1> QED BY <1>1, <1>2, <1>3, <1>4 DEF User

-----------------------------------------------------------------------------
(* The answers *)

\* A request is done with.
LEMMA DoneFits ==
    ASSUME Fits, NEW c \in calls, Done(c)
    PROVE  CallsFit' /\ CallFit(c)
BY FewerFit DEF Fits, Done, CallsFit

\* The echo starts, or goes on as it was.
LEMMA EchoFits ==
    ASSUME Fits, playTick' \in BOOLEAN, UNCHANGED due,
           StartEcho \/ UNCHANGED <<echoTick, echoCounter>>
    PROVE  ClocksFit'
<1>1. echoTick' \in BOOLEAN
    BY Zenon DEF Fits, ClocksFit, StartEcho
<1>2. echoCounter' \in 0 .. 6 /\ due' \subseteq {"play", "echo"}
    BY DEF Fits, ClocksFit, StartEcho
<1> QED BY <1>1, <1>2 DEF ClocksFit

LEMMA RefreshDoneFits ==
    ASSUME Fits, NEW c \in calls, RefreshDone(c), PlayerStays
    PROVE  PartsFit'
<1>1. UNCHANGED <<echoTick, echoCounter, due, mute, old>> /\ Done(c) /\ Moved(c.set["volume"])
    BY DEF RefreshDone
<1>2. CallFit(c)
    BY <1>1, DoneFits
<1>3. playTick' \in BOOLEAN
    BY Zenon, TickIs DEF RefreshDone, Fits, ClocksFit
<1>4. ShownFit'
    <2> DEFINE i == c.song.id
               u == c.song.paused
               m == c.set
    <2>1. PICK p \in Positions(c) : info' = [id |-> i, paused |-> u, pos |-> p, set |-> m]
        BY DEF RefreshDone
    <2>2. p \in 0 .. Length /\ Song(i) /\ Fit(m)
        BY <1>2, PlayAssumption DEF Positions, CallFit
    <2> HIDE DEF i, u, m
    <2>3. info'.id = i /\ info'.pos = p /\ info'.set = m
        BY <2>1
    <2> QED BY <2>2, <2>3 DEF ShownFit, Fit, Song
<1>5. c.set["volume"] \in Levels
    BY <1>2, SettingsAre DEF CallFit, Fit
<1>6. SliderFit'
    BY <1>1, <1>5, MovedFits DEF Fits, SliderFit
<1> QED BY <1>1, <1>3, <1>4, <1>6, EchoFits, DoneFits, StaysFit DEF PartsFit

LEMMA ModeDoneFits ==
    ASSUME Fits, NEW c \in calls, ModeDone(c), PlayerStays
    PROVE  PartsFit'
<1>1. ClocksStay /\ SlidersStay /\ Done(c)
    BY DEF ModeDone, ClocksStay, SlidersStay
<1> DEFINE f == c.kind
           v == c.set[f]
<1>2. info' = [info EXCEPT !.set[f] = v] /\ f \in Modes
    BY DEF ModeDone
<1>3. f \in Field /\ v \in Settings[f]
    BY <1>1, <1>2, DoneFits, SettingsAre DEF CallFit, Fit
<1> HIDE DEF f, v
<1>4. ShownFit'
    BY <1>2, <1>3, EditFits
<1> QED BY <1>1, <1>4, DoneFits, StaysFit DEF PartsFit

LEMMA VolumeDoneFits ==
    ASSUME Fits, NEW c \in calls, VolumeDone(c), PlayerStays
    PROVE  PartsFit'
<1>1. ClocksStay /\ Done(c)
    BY DEF VolumeDone, ClocksStay
<1>2. mute' \in Levels
    BY Zenon, PlayAssumption DEF VolumeDone, Fits, SliderFit
<1>3. CASE old' = info.set["volume"] /\ UNCHANGED <<info, wait>>
    <2>1. old' \in Levels
        BY <1>3, SettingsAre DEF Fits, ShownFit, Fit
    <2>2. SliderFit' /\ ShownStays
        BY <1>2, <1>3, <2>1 DEF Fits, SliderFit, ShownStays
    <2> QED BY <1>1, <2>2, DoneFits, StaysFit DEF PartsFit
<1>4. CASE info' = [info EXCEPT !.set["volume"] = old] /\ Moved(old) /\ UNCHANGED old
    <2>1. old \in Levels
        BY DEF Fits, SliderFit
    <2>2. SliderFit'
        BY <1>2, <1>4, <2>1, MovedFits DEF SliderFit
    <2>3. ShownFit'
        BY <1>4, <2>1, SettingsAre, EditFits
    <2> QED BY <1>1, <2>2, <2>3, DoneFits, StaysFit DEF PartsFit
<1> QED BY Zenon, <1>3, <1>4 DEF VolumeDone

LEMMA TrackDoneFits ==
    ASSUME Fits, NEW c \in calls, TrackDone(c), PlayerStays
    PROVE  PartsFit'
<1>1. ShownStays /\ SlidersStay /\ Done(c) /\ StartEcho /\ UNCHANGED <<playTick, due>>
    BY DEF TrackDone, ShownStays, SlidersStay
<1>2. playTick' \in BOOLEAN
    BY Zenon, <1>1 DEF Fits, ClocksFit
<1> QED BY <1>1, <1>2, EchoFits, DoneFits, StaysFit DEF PartsFit

LEMMA StartDoneFits ==
    ASSUME Fits, NEW c \in calls, StartDone(c), PlayerStays
    PROVE  PartsFit'
<1> DEFINE d == Request(c.n, "refresh", 0)
<1>1. calls' = (calls \ {c}) \cup {d} /\ ShownStays /\ ClocksStay /\ SlidersStay
    BY DEF StartDone, ShownStays, ClocksStay, SlidersStay
<1>2. CallFit(d) /\ d.n = c.n
    BY RequestFits, PlainFits
<1> HIDE DEF d
<1>3. CallsFit'
    BY <1>1, <1>2, AnswerFits DEF Answered, Fits
<1> QED BY <1>1, <1>3, StaysFit DEF PartsFit

LEMMA PlayDoneFits ==
    ASSUME Fits, NEW c \in calls, PlayDone(c), PlayerStays
    PROVE  PartsFit'
<1>1. SlidersStay /\ Done(c) /\ UNCHANGED due
    BY DEF PlayDone, SlidersStay
<1> DEFINE b == c.kind = "play"
<1>2. b \in BOOLEAN
    OBVIOUS
<1>3. CASE (\E p \in Positions(c) : ShowSong(c.song, p, b)) /\ StartEcho
    <2>1. PICK p \in Positions(c) : ShowSong(c.song, p, b)
        BY <1>3
    <2>2. p \in 0 .. Length /\ Song(c.song.id)
        BY <1>1, DoneFits, PlayAssumption DEF Positions, CallFit
    <2> HIDE DEF b
    <2>3. ShownFit' /\ playTick' \in BOOLEAN
        BY <1>2, <2>1, <2>2, SongFits
    <2> QED BY <1>1, <1>3, <2>3, EchoFits, DoneFits, StaysFit DEF PartsFit
<1>4. CASE playTick' = b /\ UNCHANGED <<info, echoTick, echoCounter>>
    <2>1. playTick' \in BOOLEAN /\ ShownStays
        BY Zenon, <1>4 DEF ShownStays
    <2> QED BY <1>1, <1>4, <2>1, EchoFits, DoneFits, StaysFit DEF PartsFit
<1> QED BY Zenon, <1>3, <1>4 DEF PlayDone

LEMMA SeekDoneFits ==
    ASSUME Fits, NEW c \in calls, SeekDone(c), PlayerStays
    PROVE  PartsFit'
<1>1. SlidersStay /\ Done(c) /\ UNCHANGED <<echoTick, echoCounter, due>> /\ c.kind = "seek"
    BY DEF SeekDone, SlidersStay
<1> DEFINE b == playTick \/ c.was
           p == c.arg
<1>2. b \in BOOLEAN
    BY Zenon
<1>3. p \in 0 .. Length
    BY <1>1, DoneFits DEF CallFit, ArgFit
<1>4. ShowSong(SongOf(info), p, b) \/ (playTick' = b /\ ShownStays)
    BY Zenon DEF SeekDone, ShownStays
<1> HIDE DEF b, p
<1>5. CASE ShowSong(SongOf(info), p, b)
    <2>1. Song(SongOf(info).id)
        BY DEF Fits, ShownFit, SongOf
    <2>2. ShownFit' /\ playTick' \in BOOLEAN
        BY <1>2, <1>3, <1>5, <2>1, SongFits
    <2> QED BY <1>1, <2>2, EchoFits, DoneFits, StaysFit DEF PartsFit
<1>6. CASE playTick' = b /\ ShownStays
    <2>1. playTick' \in BOOLEAN
        BY Zenon, <1>2, <1>6
    <2> QED BY <1>1, <1>6, <2>1, EchoFits, DoneFits, StaysFit DEF PartsFit
<1> QED BY <1>4, <1>5, <1>6

LEMMA ResumeFits ==
    ASSUME Fits, NEW c \in calls, Resume(c)
    PROVE  PartsFit'
<1>1. PlayerStays
    BY DEF Resume, PlayerStays
<1>2. CASE Failed(c)
    <2>1. ShownStays /\ ClocksStay /\ SlidersStay /\ Done(c)
        BY <1>2 DEF Failed, ShownStays, ClocksStay, SlidersStay
    <2> QED BY <1>1, <2>1, DoneFits, StaysFit DEF PartsFit
<1> QED BY <1>1, <1>2, RefreshDoneFits, ModeDoneFits, VolumeDoneFits, TrackDoneFits,
           StartDoneFits, PlayDoneFits, SeekDoneFits DEF Resume

-----------------------------------------------------------------------------

LEMMA InitFits == Init => Fits
<1> SUFFICES ASSUME Init PROVE Fits
    OBVIOUS
<1>1. Inv /\ ModeInv
    BY InitInv, InitModes
<1>2. ServerFit(srv)
    <2>1. /\ srv.id \in {Null} \cup (1 .. Songs \cap {1}) /\ srv.next \in {1, 2} /\ Fit(srv.set)
          /\ IF srv.id = Null THEN ~srv.paused /\ srv.next = 1 ELSE srv.next = srv.id + 1
        BY DEF Init, Fit
    <2>2. srv.next \in 1 .. Songs + 1
        BY <2>1, PlayAssumption
    <2> QED BY <2>1, <2>2 DEF ServerFit, Song
<1>3. CallsFit
    <2> DEFINE d == Request(1, "refresh", 0)
    <2>1. calls = {d} /\ CallFit(d)
        BY RequestFits, PlainFits DEF Init
    <2> HIDE DEF d
    <2>2. IsFiniteSet(calls)
        BY <2>1, FS_Singleton
    <2> QED BY <2>1, <2>2 DEF CallsFit
<1>4. ClocksFit
    <2>1. playTick \in BOOLEAN /\ echoTick \in BOOLEAN
        BY Zenon DEF Init
    <2>2. echoCounter \in 0 .. 6 /\ due \subseteq {"play", "echo"}
        BY DEF Init
    <2> QED BY <2>1, <2>2 DEF ClocksFit
<1>5. ShownFit
    <2>1. info.id = Null /\ info.pos = 0 /\ info.set = Zero
        BY DEF Init
    <2> QED BY <2>1, ZeroFits, PlayAssumption DEF ShownFit
<1>6. SliderFit
    BY PlayAssumption DEF Init, SliderFit
<1> QED BY <1>1, <1>2, <1>3, <1>4, <1>5, <1>6 DEF Fits

LEMMA StepFits == Fits /\ [Next]_vars => Fits'
<1> SUFFICES ASSUME Fits, [Next]_vars PROVE Fits'
    OBVIOUS
<1>1. Inv' /\ ModeInv'
    BY StepInv, StepModes DEF Fits
<1>2. CASE UNCHANGED vars
    BY <1>1, <1>2, StaysFit DEF Fits, PlayerStays, ShownStays, ClocksStay, SlidersStay
<1>3. CASE Timers
    BY <1>1, <1>3, PlayTickFits, EchoTickFits, SecondFits, SetVDFits DEF Timers, PartsFit, Fits
<1>4. CASE User
    BY <1>1, <1>4, UserFits DEF PartsFit, Fits
<1>5. ASSUME NEW c \in calls, Serve(c) \/ Fail(c) PROVE Fits'
    BY <1>1, <1>5, ServeFits, FailFits, PageFits DEF Fits
<1>6. ASSUME NEW c \in calls, Resume(c) PROVE Fits'
    BY <1>1, <1>6, ResumeFits DEF PartsFit, Fits
<1>7. CASE Foreign \/ SongEnds
    BY <1>1, <1>7, OthersFit, PageFits DEF Fits
<1> QED BY <1>2, <1>3, <1>4, <1>5, <1>6, <1>7 DEF Next, Network

\* Every part of the page's state keeps its type: the sliders and the modes
\* only ever show and send what the player knows, the clock stays within the
\* song, the echo ends with its sixth second, and a request gets a number
\* that no request under way has.
THEOREM BotPageTyped == Spec => []TypeOK
<1>1. Fits => TypeOK
    BY DEF Fits, ServerFit, CallsFit, ClocksFit, ShownFit, SliderFit, Fit, Song, TypeOK
<1> QED BY <1>1, InitFits, StepFits, PTL DEF Spec

=============================================================================
