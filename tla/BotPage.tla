------------------------------ MODULE BotPage ------------------------------
(***************************************************************************)
(* The page of one bot: Bot.vue with PlayControls.vue, their timers        *)
(* (Timer.ts) and the state they share (BotInfoSync.ts), against the       *)
(* player on the server.  The page learns of the server only by asking: it *)
(* counts the seconds of a song itself, asks again after a command and at  *)
(* the end of a song, and sends back what the sliders show.  Requests      *)
(* overlap, their answers come in any order, and others use the same bot.  *)
(*                                                                         *)
(* Time is a step Second, after which every running interval is due once.  *)
(* How far the player is within a song is left open: an answer may report  *)
(* any position.                                                           *)
(***************************************************************************)
EXTENDS Integers, FiniteSets

CONSTANTS
    Null,        \* no song, no volume
    Length,      \* seconds of a song
    Levels,      \* volumes of the slider; 0 is mute
    Lossy,       \* volumes v the player reports as a little less than v
    Modes,       \* of "repeat" and "shuffle"
    Songs,       \* bound: songs the server ever starts, numbered from 1
    MaxClicks,   \* bound: what the user does
    MaxCalls,    \* bound: requests under way at one time
    MaxTrouble   \* bound: failed requests and what others do

ASSUME PlayAssumption == /\ Length \in Nat
                         /\ Levels \subseteq Nat /\ 0 \in Levels
                         /\ Lossy \subseteq Levels
                         /\ \A v \in Lossy : v - 1 \in Levels
                         /\ Modes \subseteq {"repeat", "shuffle"}
                         /\ Songs \in Nat /\ MaxCalls \in Nat \ {0}
                         /\ Null \notin Nat

VARIABLES
    srv,         \* the player: [id, paused, next, set, time]
    info,        \* BotInfoSync: [id, paused, pos, set]
    playTick,    \* playTick.isRunning
    echoTick, echoCounter,
    due,         \* intervals that have not fired in this second
    wait,        \* the volume a debounced setVD will send, or Null
    mute, old,   \* muteToggleVolume, volume_old
    calls,       \* requests whose continuation has not run
    wish,        \* the volume the user chose, if nothing interfered, or Null
    newest,      \* the latest state of the modes an answer has told of
    excused,     \* a mode may be shown wrong, for a reason
    broken,      \* a request about the song has failed
    clicks, trouble

timers == <<playTick, echoTick, echoCounter, due>>
volume == <<wait, mute, old, wish>>
modes == <<newest, excused>>
bounds == <<clicks, trouble>>
vars == <<srv, info, timers, volume, modes, calls, broken, bounds>>

Field == Modes \cup {"volume"}
Size(f) == IF f = "repeat" THEN 3 ELSE 2
Settings == [f \in Field |-> IF f = "volume" THEN Levels ELSE 0 .. Size(f) - 1]

Zero == [f \in Field |-> 0]
NoSong == [id |-> Null, paused |-> FALSE]
SongOf(s) == [id |-> s.id, paused |-> s.paused]
Playing(s) == s.id # Null /\ ~s.paused

-----------------------------------------------------------------------------
(* Requests.                                                               *)

VolumeKind == {"volume", "unmute"}
About(K) == {c \in calls : c.kind \in K}

Free == CHOOSE n \in 1 .. MaxCalls : \A c \in calls : c.n # n

Request(n, kind, arg) ==
    [n |-> n, kind |-> kind, arg |-> arg, was |-> (kind = "seek" /\ playTick),
     state |-> "sent", song |-> NoSong, set |-> Zero, at |-> 0]

Ask(kind, arg) == /\ Cardinality(calls) < MaxCalls
                  /\ calls' = calls \cup {Request(Free, kind, arg)}

\* Answers about the volume that are still to come may undo what the user
\* chooses now, and what is asked now may undo what is still to be sent.
Settled == About(VolumeKind \cup {"refresh"}) = {}
Sent == wait = Null /\ About(VolumeKind) = {}

-----------------------------------------------------------------------------
(* The page's timers.                                                      *)

\* The deep watch on info.song calls updateTimers before anything else runs,
\* unless there was no song and there is none; tick is the clock without it.
\* Mutant: the page does not watch the song.
Unwatched(s, tick) == playTick' = tick

UpdateTimers(s, tick) ==
    playTick' = IF s.id = Null /\ info.id = Null THEN tick ELSE Playing(s)

\* The page's song becomes s, at position p.
ShowSong(s, p, tick) ==
    /\ info' = [info EXCEPT !.id = s.id, !.paused = s.paused, !.pos = p]
    /\ UpdateTimers(s, tick)

\* Mutant: the counter goes on from where the last echo stopped.
StartEchoWorn == echoTick' = TRUE /\ UNCHANGED echoCounter

StartEcho == echoTick' = TRUE /\ echoCounter' = 0

\* Mutant: the clock of the page runs one second too long.
PlayTickLate ==
    /\ "play" \in due /\ playTick /\ info.id # Null
    /\ IF info.pos <= Length
       THEN ShowSong(SongOf(info), info.pos + 1, playTick) /\ UNCHANGED <<echoTick, echoCounter>>
       ELSE playTick' = FALSE /\ StartEcho /\ UNCHANGED info
    /\ due' = due \ {"play"}
    /\ UNCHANGED <<srv, volume, modes, calls, broken, bounds>>

PlayTick ==
    /\ "play" \in due /\ playTick
    /\ \/ /\ info.id = Null
          /\ playTick' = FALSE
          /\ UNCHANGED <<info, echoTick, echoCounter>>
       \/ /\ info.id # Null /\ info.pos < Length
          /\ ShowSong(SongOf(info), info.pos + 1, playTick)
          /\ UNCHANGED <<echoTick, echoCounter>>
       \/ /\ info.id # Null /\ info.pos >= Length
          /\ playTick' = FALSE
          /\ StartEcho
          /\ UNCHANGED info
    /\ due' = due \ {"play"}
    /\ UNCHANGED <<srv, volume, modes, calls, broken, bounds>>

EchoTick ==
    /\ "echo" \in due /\ echoTick
    /\ echoCounter' = echoCounter + 1
    /\ IF echoCounter + 1 \in {1, 3, 6}
       THEN /\ Ask("refresh", 0)
            /\ wish' = IF Sent THEN wish ELSE Null
       ELSE UNCHANGED <<calls, wish>>
    /\ echoTick' = (echoCounter + 1 < 6)
    /\ due' = due \ {"echo"}
    /\ UNCHANGED <<srv, info, playTick, wait, mute, old, modes, broken, bounds>>

Running == (IF playTick THEN {"play"} ELSE {}) \cup (IF echoTick THEN {"echo"} ELSE {})

\* A second passes for every interval.
Second ==
    /\ due \cap Running = {}
    /\ due' = Running
    /\ UNCHANGED <<srv, info, playTick, echoTick, echoCounter, volume, modes, calls, broken, bounds>>

-----------------------------------------------------------------------------
(* Volume.  A change of info.volume, whoever makes it, is sent after a     *)
(* pause of the slider.                                                    *)

\* Mutant: the debounced function keeps the first value.
MovedFirst(v) == wait' = IF v = info.set["volume"] \/ wait # Null THEN wait ELSE v

\* watch "info.volume": the debounced setVD remembers the last value.
Moved(v) == wait' = IF v = info.set["volume"] THEN wait ELSE v

SetVD == /\ wait # Null
         /\ Ask("volume", wait)
         /\ wait' = Null
         /\ UNCHANGED <<srv, info, timers, mute, old, wish, modes, broken, bounds>>

-----------------------------------------------------------------------------
(* The user.                                                               *)

Click == /\ clicks < MaxClicks
         /\ clicks' = clicks + 1
         /\ UNCHANGED <<srv, modes, broken, trouble>>

Slide(v) == /\ Click
            /\ v # info.set["volume"]
            /\ Moved(v)
            /\ info' = [info EXCEPT !.set["volume"] = v]
            /\ wish' = IF Settled THEN v ELSE Null
            /\ UNCHANGED <<timers, mute, old, calls>>

\* The mute button sends its volume at once and leaves the slider alone;
\* muteToggleVolume is forgotten when the answer to an unmute has come.
ClickVolume ==
    /\ Click
    /\ IF mute # 0 /\ info.set["volume"] = 0
       THEN /\ Ask("unmute", mute)
            /\ wish' = IF Settled /\ wait = Null THEN mute ELSE Null
            /\ UNCHANGED mute
       ELSE /\ Ask("volume", 0)
            /\ wish' = IF Settled /\ wait = Null THEN 0 ELSE Null
            /\ mute' = info.set["volume"]
    /\ UNCHANGED <<info, timers, wait, old>>

\* clickRepeat and clickShuffle: to the value after the one that is shown.
ClickMode(f) ==
    /\ Click
    /\ Ask(f, (info.set[f] + 1) % Size(f))
    /\ UNCHANGED <<info, timers, volume>>

\* "next" stands for clickTrackNext and clickTrackPrev, "start" for
\* playNewSong and for startPlaylist of the playlists' page, "add" for
\* addNewSong.
ClickTrack(kind) == /\ Click
                    /\ Ask(kind, 0)
                    /\ UNCHANGED <<info, timers, volume>>

ClickPlay ==
    /\ Click
    /\ info.id # Null
    /\ Ask(IF info.paused THEN "play" ELSE "pause", 0)
    /\ UNCHANGED <<info, timers, volume>>

\* The slider has written the position already (song_pos_safe), and the
\* watch restarts the clock that setPosition has stopped.
SetPosition(p) ==
    /\ Click
    /\ info.id # Null
    /\ Ask("seek", p)
    /\ info' = [info EXCEPT !.pos = p]
    /\ playTick' = (p # info.pos /\ Playing(info))
    /\ UNCHANGED <<echoTick, echoCounter, due, volume>>

User == \/ \E v \in Levels : Slide(v)
        \/ ClickVolume \/ ClickPlay
        \/ \E f \in Modes : ClickMode(f)
        \/ \E k \in {"next", "start", "add"} : ClickTrack(k)
        \/ \E p \in 0 .. Length : SetPosition(p)

-----------------------------------------------------------------------------
(* The server.                                                             *)

Reported(s) == [f \in Field |-> IF f = "volume" /\ s.set[f] \in Lossy
                                THEN s.set[f] - 1 ELSE s.set[f]]

\* next, previous and play throw when no song is left to start.
Refused(c) == c.kind \in {"next", "start"} /\ srv.next > Songs

Starts(s) == [s EXCEPT !.id = s.next, !.next = @ + 1, !.paused = FALSE]

\* The player after a command.  "pause" toggles, and "play" without a song
\* starts one; json merge swallows the failure of that part.
After(c) ==
    CASE c.kind \in {"next", "start"}      -> Starts(srv)
      [] c.kind = "pause" /\ srv.id # Null -> [srv EXCEPT !.paused = ~@]
      [] c.kind = "play" /\ srv.id # Null  -> [srv EXCEPT !.paused = FALSE]
      [] c.kind = "play" /\ srv.id = Null /\ srv.next <= Songs -> Starts(srv)
      [] c.kind \in VolumeKind             -> [srv EXCEPT !.set["volume"] = c.arg]
      [] c.kind \in Modes -> [srv EXCEPT !.set[c.kind] = c.arg, !.time = @ + 1]
      [] OTHER                             -> srv

Answered(c, d) == calls' = (calls \ {c}) \cup {d}

Serve(c) ==
    /\ c.state = "sent"
    /\ \/ /\ Refused(c)
          /\ Answered(c, [c EXCEPT !.state = "failed"])
          /\ UNCHANGED srv
       \/ /\ ~Refused(c)
          /\ srv' = After(c)
          /\ Answered(c, [c EXCEPT !.state = "ok", !.song = SongOf(srv'),
                                   !.set = Reported(srv'), !.at = srv'.time])
    /\ UNCHANGED <<info, timers, volume, modes, broken, bounds>>

Trouble == /\ trouble < MaxTrouble
           /\ trouble' = trouble + 1
           /\ UNCHANGED <<info, timers, wait, mute, old, newest, broken, clicks>>

\* A request fails, before or after the server has done it.
Fail(c) == /\ Trouble
           /\ c.state = "sent"
           /\ srv' \in {srv} \cup (IF Refused(c) THEN {} ELSE {After(c)})
           /\ Answered(c, [c EXCEPT !.state = "failed"])
           /\ wish' = IF c.kind \in VolumeKind THEN Null ELSE wish
           /\ excused' = (excused \/ c.kind \in Modes)

\* Somebody else uses the bot: pauses, stops or replaces its song, or sets the
\* volume or a mode.
Foreign ==
    /\ Trouble
    /\ \/ /\ \/ srv' \in {[srv EXCEPT !.paused = ~@], [srv EXCEPT !.id = Null]}
             \/ srv.next <= Songs /\ srv' = Starts(srv)
          /\ UNCHANGED <<wish, excused>>
       \/ /\ \E v \in Levels : srv' = [srv EXCEPT !.set["volume"] = v]
          /\ wish' = Null
          /\ UNCHANGED excused
       \/ /\ \E f \in Modes : \E v \in Settings[f] :
                srv' = [srv EXCEPT !.set[f] = v, !.time = @ + 1]
          /\ excused' = TRUE
          /\ UNCHANGED wish
    /\ UNCHANGED calls

\* The song is over: the next one of the list, or none.
SongEnds == /\ Playing(srv)
            /\ \/ srv.next <= Songs /\ srv' = Starts(srv)
               \/ srv' = [srv EXCEPT !.id = Null]
            /\ UNCHANGED <<info, timers, volume, modes, calls, broken, bounds>>

-----------------------------------------------------------------------------
(* The continuations of the page's requests.                               *)

\* An answer about the modes; an older one than the newest is shown all the
\* same, and a refresh that nothing has overtaken puts everything right.
TellModes(c) ==
    /\ newest' = IF c.at > newest THEN c.at ELSE newest
    /\ excused' = IF c.kind = "refresh" /\ c.at = srv.time /\ calls = {c} THEN FALSE
                  ELSE excused \/ c.at < newest

Done(c) == calls' = calls \ {c}

\* What the server may report of the song's position.
Positions(c) == IF c.song.id = Null THEN {0} ELSE 0 .. Length

\* refresh of Bot.vue.
RefreshDone(c) ==
    /\ c.kind = "refresh" /\ c.state = "ok"
    /\ Done(c)
    /\ \E p \in Positions(c) :
         info' = [id |-> c.song.id, paused |-> c.song.paused, pos |-> p, set |-> c.set]
    /\ UpdateTimers(c.song, playTick)
    /\ Moved(c.set["volume"])
    /\ wish' = IF wish \in Lossy THEN Null ELSE wish
    /\ TellModes(c)
    /\ UNCHANGED <<echoTick, echoCounter, due, mute, old, broken>>

\* Mutant: the answer to a click on a mode is not shown.
ModeDoneUnshown(c) ==
    /\ c.kind \in Modes /\ c.state = "ok"
    /\ Done(c)
    /\ TellModes(c)
    /\ UNCHANGED <<info, timers, volume, broken>>

\* clickRepeat and clickShuffle: what the server tells is shown.
ModeDone(c) ==
    /\ c.kind \in Modes /\ c.state = "ok"
    /\ Done(c)
    /\ info' = [info EXCEPT !.set[c.kind] = c.set[c.kind]]
    /\ TellModes(c)
    /\ UNCHANGED <<timers, volume, broken>>

\* setVolume: a failure puts the slider back to where it was after the last
\* success, and the watch sends that.
VolumeDone(c) ==
    /\ c.kind \in VolumeKind /\ c.state \in {"ok", "failed"}
    /\ Done(c)
    /\ \/ /\ c.state = "ok"
          /\ old' = info.set["volume"]
          /\ UNCHANGED <<info, wait>>
       \/ /\ c.state = "failed"
          /\ info' = [info EXCEPT !.set["volume"] = old]
          /\ Moved(old)
          /\ UNCHANGED old
    /\ mute' = IF c.kind = "unmute" THEN 0 ELSE mute
    /\ UNCHANGED <<timers, wish, modes, broken>>

TrackDone(c) ==
    /\ c.kind = "next" /\ c.state = "ok"
    /\ Done(c)
    /\ StartEcho
    /\ UNCHANGED <<info, playTick, due, volume, modes, broken>>

\* newSong asks for everything when the song has been started.
StartDone(c) ==
    /\ c.kind \in {"start", "add"} /\ c.state = "ok"
    /\ calls' = (calls \ {c}) \cup {Request(c.n, "refresh", 0)}
    /\ wish' = IF Sent THEN wish ELSE Null
    /\ UNCHANGED <<info, timers, wait, mute, old, modes, broken>>

\* clickPlay stops or starts the clock before it looks at the answer.
PlayDone(c) ==
    /\ c.kind \in {"play", "pause"} /\ c.state \in {"ok", "failed"}
    /\ Done(c)
    /\ \/ /\ c.state = "ok"
          /\ \E p \in Positions(c) : ShowSong(c.song, p, c.kind = "play")
          /\ StartEcho
          /\ UNCHANGED broken
       \/ /\ c.state = "failed"
          /\ playTick' = (c.kind = "play")
          /\ broken' = TRUE
          /\ UNCHANGED <<info, echoTick, echoCounter>>
    /\ UNCHANGED <<due, volume, modes>>

SeekDone(c) ==
    /\ c.kind = "seek" /\ c.state = "ok"
    /\ Done(c)
    /\ LET tick == playTick \/ c.was
       IN  IF info.id # Null /\ info.pos # c.arg
           THEN ShowSong(SongOf(info), c.arg, tick)
           ELSE playTick' = tick /\ UNCHANGED info
    /\ UNCHANGED <<echoTick, echoCounter, due, volume, modes, broken>>

\* Util.check shows the error, and the handler returns.
Failed(c) ==
    /\ c.kind \in {"refresh", "next", "start", "add", "seek"} \cup Modes /\ c.state = "failed"
    /\ Done(c)
    /\ broken' = (broken \/ c.kind \in {"refresh", "seek"})
    /\ UNCHANGED <<info, timers, volume, modes>>

Resume(c) == /\ \/ RefreshDone(c) \/ ModeDone(c) \/ VolumeDone(c) \/ TrackDone(c)
                \/ StartDone(c) \/ PlayDone(c) \/ SeekDone(c) \/ Failed(c)
             /\ UNCHANGED <<srv, bounds>>

-----------------------------------------------------------------------------
\* The page is opened at any moment: created() has asked for everything, and
\* nothing has been heard yet.
Init ==
    /\ srv \in [id : {Null} \cup (1 .. Songs \cap {1}), paused : BOOLEAN, next : {1, 2},
                set : {s \in [Field -> UNION {Settings[f] : f \in Field}] :
                         \A f \in Field : s[f] \in Settings[f]},
                time : {0}]
    /\ IF srv.id = Null THEN ~srv.paused /\ srv.next = 1 ELSE srv.next = srv.id + 1
    /\ info = [id |-> Null, paused |-> FALSE, pos |-> 0, set |-> Zero]
    /\ playTick = FALSE /\ echoTick = FALSE /\ echoCounter = 0 /\ due = {}
    /\ wait = Null /\ mute = 0 /\ old = 0 /\ wish = Null
    /\ newest = 0 /\ excused = TRUE /\ broken = FALSE
    /\ calls = {Request(1, "refresh", 0)}
    /\ clicks = 0 /\ trouble = 0

Timers == PlayTick \/ EchoTick \/ Second \/ SetVD
Network == \E c \in calls : Serve(c) \/ Fail(c) \/ Resume(c)
Next == Timers \/ User \/ Network \/ Foreign \/ SongEnds

\* Intervals and debounced calls fire, every request is answered, and a song
\* comes to its end.  The user and other users need do nothing.
Fairness ==
    /\ WF_vars(PlayTick) /\ WF_vars(EchoTick) /\ WF_vars(Second) /\ WF_vars(SetVD)
    /\ \A n \in 1 .. MaxCalls : WF_vars(\E c \in calls : c.n = n /\ (Serve(c) \/ Resume(c)))
    /\ WF_vars(SongEnds)

Spec == Init /\ [][Next]_vars /\ Fairness

-----------------------------------------------------------------------------
(* Properties.                                                             *)

\* Every part of the page's state has its type, the seconds of a song never
\* pass its length, and no two requests under way are confused.
TypeOK ==
    /\ info.id \in 1 .. Songs \cup {Null} /\ info.pos \in 0 .. Length
    /\ \A f \in Field : info.set[f] \in Settings[f] /\ srv.set[f] \in Settings[f]
    /\ playTick \in BOOLEAN /\ echoTick \in BOOLEAN /\ echoCounter \in 0 .. 6
    /\ due \subseteq {"play", "echo"}
    /\ wait \in Levels \cup {Null} /\ mute \in Levels /\ old \in Levels
    /\ \A c, d \in calls : c.n = d.n => c = d

\* A page that shows a song as playing keeps an eye on it: its clock runs, or
\* the echo does, or an answer about the song is still to come.  Otherwise it
\* would show that song for ever.
PlayingIsWatched ==
    Playing(SongOf(info)) /\ ~broken =>
        playTick \/ echoTick \/ About({"refresh", "play", "pause", "seek"}) # {}

\* When nothing is under way, the volume the user chose last is the player's
\* volume: unless he chose it while a request about the volume was still
\* under way, a request failed, or somebody else chose another, no refresh
\* and no late answer undoes his choice.
WishKept == wish # Null /\ wait = Null /\ Settled => srv.set["volume"] = wish

\* When nothing is under way that will tell of a mode, the page shows the
\* player's modes, unless an old answer overtook a newer one, a request failed
\* or somebody else has changed them since.
ModesShown ==
    ~excused => \A f \in Modes :
        About({"refresh", f}) = {} => info.set[f] = srv.set[f]

\* A page that shows a song the player has left comes to show another, or
\* that no song is playing, as long as no request has failed.
SongFollowed ==
    \A n \in 1 .. Songs :
        info.id = n /\ srv.id # n ~> info.id # n \/ info.paused \/ broken

=============================================================================
