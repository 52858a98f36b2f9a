# Formal models of AviaBotIl2

TLA+ models of the parts of this repository in which order, loss, retransmission and
concurrency decide whether the programs work. TLC checks them on small instances, TLAPS
proves their most important properties for every value of the constants.

1. [The system](#1-the-system)
2. [The modules and the code](#2-the-modules-and-the-code)
3. [The runs](#3-the-runs)
4. [What is proved](#4-what-is-proved)
5. [Findings and observations](#5-findings-and-observations)
6. [What is not modelled](#6-what-is-not-modelled)
7. [Plan](#7-plan)

To check a model: `tlc -config RingQueue.cfg RingQueue.tla`; to check proofs:
`tlapm RingQueueProofs.tla`.

## 1. The system

The repository holds three programs and the library they share.

- **TSLib** is a TeamSpeak 3 client library. Everything else talks to a TeamSpeak server
  through it.
- **AviaBot** relays voice between players of an IL-2 flight simulator server: who hears
  whom depends on the coalition and the position of the players, which it learns from
  RabbitMQ.
- **Registrator** watches who is on the TeamSpeak server, keeps users, sessions and channels
  in a database and publishes what happens to RabbitMQ.
- **TS3AudioBot** is the music bot this repository was forked from, with its commands,
  playlists, rights and plugins, and the **web interface** (`src/WebInterface`, Vue) it serves.

### Components

TSLib

| Component | State | Operations | Interacts with | Correct when |
|---|---|---|---|---|
| Generation window, `Full/GenerationWindow.cs` | base id, generation | `Advance`, `AdvanceToExcluded`, `SetAndDrag`, `GetGeneration`, `MappedToIndex` | queue and voice windows of the packet handler | the generation guessed for an id is the one it was sent in |
| Receive queue, `Full/RingQueue.cs` | ring, flags, start, count, window | `IsSet`, `Set`, `TryDequeue`, `TryPeekStart`, `Clear`, growth | packet handler (socket's thread only) | a flat window: no packet is lost, repeated or misplaced by growth, reuse or wrap |
| Command channel, `Full/PacketHandler.cs`, `Full/TsCrypt.cs` | counters and generations, packets without ack, receive queues, sockets, round-trip estimate | `AddOutgoingPacket`, `ResendLoop`, `FetchPackets`, `ReceiveCommand`, `TryGetCommand`, `SendAck`, `ReceiveAck`, `Stop` | client (`PacketEvent`, `StopEvent`), network | commands arrive in order, once, whole; a packet is forgotten only when it was received |
| Handshake, same files | the five `Init1` steps, shared key | `ReceiveInitAck`, `ProcessInit1`, `CryptoInit2` | command channel, client | ends in a shared key or in an error that reaches the caller |
| Client lifecycle, `Full/TsFullClient.cs` | status, context (handler and two completion sources), return code | `Connect`, `Disconnect`, `ChangeState`, `Send`, one handler per command | packet handler, scheduler, message processor, user code | status, context and handler agree; calls return; the end of a connection is told once |
| Message processor, `MessageProcessor.cs`, `WaitBlock.cs` | requests by return code, blocks by notification | `EnqueueRequest`, `PushMessage`, `DropQueue` | client | an answer goes to its own request; no request is left waiting |
| Scheduler, `Scheduler/DedicatedTaskScheduler.cs` | queue of tasks, timers | `QueueTask`, `Invoke`, `DoWork`, timers | all of the client | tasks run one at a time, in order |
| Audio pipes, book, generated messages, query client | - | - | - | data flow and bookkeeping on one thread |

AviaBot

| Component | State | Operations | Interacts with | Correct when |
|---|---|---|---|---|
| Player positions, `Services/PlayerPositionService.cs` | four dictionaries: lobby and active, by coalition | join, leave, spawn, move to lobby, position, clear | consumer (writes), voice relay (reads) | a player is in at most one dictionary, and in the one the last event names |
| Event consumer, `Services/RabbitMqConsumer.cs` | connection, channel | reconnect loop, one thread-pool task per delivery | RabbitMQ, player positions | events act in the order they were published |
| Voice relay, `Services/VoiceRelayPipe.cs` | a queue of chunks and a decoder per speaker, cache of client ids | `Write`, `MixerLoop`, `Tick`, `Cleanup`, `Dispose` | TSLib's audio, player positions | each chunk is mixed once for those who may hear it, or dropped for age |
| Bot service, `Services/Ts3BotService.cs` | one client | start, connect, stop | TSLib | connects again, stops once |

Registrator

| Component | State | Operations | Interacts with | Correct when |
|---|---|---|---|---|
| Monitor, `Services/Ts3MonitorService.cs` | users, sessions, channels (database) | one `async void` handler per event, initial synchronisation, reset | client (events), database, publisher | a user is online exactly while a session of his is open |
| Accessor and bot, `Services/Ts3ClientAccessor.cs`, `Services/Ts3RegistratorService.cs` | the current client | `SetClient`, `ClearClient`, `RunBotAsync` | monitor | the handlers of a lost client are removed and its state is reset |
| Publisher, `RabbitMqTs3EventPublisher.cs` | connection, channel, semaphore | `EnsureInitializedAsync`, publish | RabbitMQ | initialised once; what is dropped is known |

TS3AudioBot

| Component | State | Operations | Correct when |
|---|---|---|---|
| Bots, `Bot.cs`, `BotManager.cs`, `Ts3Client.cs` | a slot per bot, reconnect attempts | start, stop, reconnect | a slot is freed once; no reconnect after a stop |
| Playback, `Audio/PlayManager.cs`, `Audio/FfmpegProducer.cs` | current song, ffmpeg process | play, next, stop, end-of-song callback | the end of an old song never stops the new one |
| Shuffle, `Playlists/Shuffle` | register, mask, length | `Next`, `Prev` | every track once before one repeats |
| Commands, rights, history, configuration, web, plugins, localisation | tables and files | - | parsers and storage on one thread |

Web interface. Every page keeps its own state and learns of the server only through requests
(`Util.get`) to TS3AudioBot's commands; nothing is pushed to it.

| Component | State | Operations | Interacts with | Correct when |
|---|---|---|---|---|
| Playlists, `Pages/Playlists.vue`, `Components/PlaylistEditor.vue`, `EditableText.vue`, two dialogs | route, lists known, the editor's page of one list, edit boxes, row being dragged | show, turn pages, remove, move, rename, insert, play, create, delete | list commands of the server, router | a click hits the row it was made on; what is shown is the list, when nothing is under way |
| Bot page, `Pages/Bot.vue`, `Components/PlayControls.vue`, `Model/BotInfoSync.ts`, `Timer.ts` | the song and its second, two tickers, sliders, debounced volume | play, pause, seek, next, start, volume, mute, repeat, shuffle, refresh | the player of the server | the page comes to show what is played; the player gets what was chosen last |
| Settings, `Pages/BotSettings.vue`, `SettingsField.vue`, `SettingsPassword.vue` | the settings of one bot, one debounced sender per field | edit, change level, leave, go to another bot | configuration on the server | the last value of every field arrives, at the right bot |
| Login, infoboard, list of bots, server tree: `Pages/Home.vue`, `Overview.vue`, `Bots.vue`, `Components/ServerTree.vue`, `ServerTreeNode.vue` | what the last answer said, a ticker per page | poll, start, stop, create, connect, delete, move, whisper, log in | bot and server commands, router | the page shows the server once it has heard of it, and stops polling when it is left |
| Navigation bar, themes, drawing | layout | - | - | - |

### What is hard

- **The network** loses, repeats, delays and reorders datagrams; only 16 bits of a packet's
  number travel, and the key depends on the rest.
- **Three kinds of threads** meet in a client: the scheduler's, the one reading the socket,
  and the resend timer. The socket's thread reads the status without a lock and queues a task
  that runs later.
- **Awaits** in `Connect` and `Disconnect` let other calls and commands of the server in
  between.
- **Two connections** of one client overlap: reports of the old one are still queued when the
  new one is there, and handlers use the current context instead of their own.
- **Handlers that are `async void`** end the process with an exception.
- In AviaBot and Registrator, events that belong together are handled by unordered tasks.
- **The pages of the web interface** send requests that overlap. Their answers come in any order,
  also after the page is left; a slider is written by the user and by answers; tickers are started
  and stopped by several continuations; other users change the same bots and lists meanwhile.

`PROJECT.json` lists each of these hazards at its line, with the properties that cover it. Where the
code has what a hazard warns of, and the properties can only except it, a note says so instead.

## 2. The modules and the code

    GenerationWindow            the window over ids that wrap
      |- ReceiveQueue           abstract: what the receive queue promises
      |    ^ implemented by
      |- RingQueue              RingQueue.cs, the growing ring
      |- CommandChannel         uses ReceiveQueue: two PacketHandlers and a network
    TsFullClient                client, scheduler, threads; relies on CommandChannel

    PlayerPositions             AviaBot: deliveries, their tasks, four dictionaries

    PlaylistPage                Playlists.vue and its editor against the lists of the server
    BotPage                     Bot.vue and its controls against the player of the server
    SettingsPage                BotSettings.vue against the configurations of the server
      |- MCSettingsPage         two bots with passwords, for TLC
    Site                        the pages that poll, the router, the bots of the server

    RingQueueProofs, CommandChannelProofs (with GenerationWindow), TsFullClientProofs,
    PlayerPositionsProofs, SiteProofs, BotPageProofs, PlaylistPageProofs, SettingsPageProofs

The command channel is built on the abstract queue and not on the ring. `RingQueue` shows
that the ring implements the queue, so each is checked with a small state, and the channel's
behaviours are those of the code.

**GenerationWindow** has the constants `Mod` (65536 in the code) and `ReceiveWindow` and one
operator per method. `Number(gen, id)` is the number of a packet counted from the first one:
the mathematical quantity the code never stores, in which the properties are stated.

**RingQueue** follows `RingQueue.cs` field by field. Its actions are what `PacketHandler` does
with a queue: ask for the verdict on an id (`Probe`, which may grow the ring as a side effect),
`Set`, `TryDequeue` and `Clear`. `ExtendTo`, `ExtStart` and `Ext` are `BufferExtend`: a new
length, then the slots copied in order to the front. The verdicts are computed by the code's
tests in the code's order. `Flat` is the refinement mapping: the packet at each place, as
`TryPeekStart` shows it.

**CommandChannel** has one sending and one receiving `PacketHandler`. Fields keep their names.

| Action | Code |
|---|---|
| `SendCommand`, `SendCommandThrows` | `AddOutgoingPacket`, `AddOutgoingSplitData`, `SendOutgoingData`: one lock around all the fragments; `Add` on the dictionary of packets without ack throws when the id is still in it |
| `SendCommandFails` | `SendRaw` reports a socket error, and `AddOutgoingSplitData` returns in the middle of a command: the packet is registered and resent all the same, the rest is never sent, and no id is left out for it |
| `Resend`, `StopSender` | `ResendLoop`: resend after the timeout, or close the handler |
| `ReceiveAck` | `ReceiveAck` |
| `LoseData`, `LoseAck` | the network; `data` and `acks` are sets a datagram stays in after it was received, which is delay, reordering and repetition |
| `AckAgain`, `Accept` | `ReceiveCommand` up to the loop |
| `Deliver`, `DropGarbled`, `EndDrain` | the loop over `TryGetCommand` with its outcomes |
| `StopReceiver` | `Stop` |

Encryption is reduced to what matters here: the key depends on the generation, so a packet is
readable exactly if the receiver guesses its generation (`Readable`). The history `cut` names the
commands that were ended before their last packet. What is joined from pieces of several commands
(`Mixed`) decompresses or not, as it happens. The behaviour starts after
`First` packets, so that three or four packets cross a wrap.

*Assumption on the network*: when an id comes around again, after `Mod` packets, no datagram of
its previous use is on its way (`Others`). With 65536 ids this is the usual assumption on the
lifetime of a datagram.

**TsFullClient** models the client with the threads around it.

| Action | Code |
|---|---|
| `Connect`, `Resume`, `ResolveFails`, `Resolved`, `SocketFails`, `ConnectReturn` | the pieces of `Connect` between its awaits |
| `Disconnect`, `Resume` | `Disconnect` |
| `Send` | `Send` and `SendCommandBase` for a command with an answer |
| `PacketEvent`, `Enqueue` | the socket's thread: reads the status, then queues a task, some time later |
| `TimerStop`, `StopEvent` | `PacketHandler.Stop` from another thread: the handler is closed, then the task is queued |
| `EndTask`, `InitIvExpand`, `InitServer`, `CommandErrorTask`, `ClientLeftView`, `Answer`, `WithoutContext` | the tasks, in the order they were queued; `WithoutContext` is the assertion at the start of each handler |

`ToDisconnected` and `ToConnected` are `ChangeState`, one operator per target. When `ChangeState`
stops the handler itself, `StopEvent` runs at once on the same thread and finds the status
`Disconnected`: no task is queued.

The server is external: `phase` is how far it is with a connection, and it says only what is
possible in that phase. Commands of a connection arrive in order and once; this is what
`CommandChannel` establishes. Calls by user code and continuations of awaits may run before the
tasks in the queue, which is more than the scheduler allows. Two calls of `Connect` do not
overlap before the first has its context: that is how the programs here use a client, and
overlapping calls meet `Trace.Fail`.

Two history variables, `announced` and `strayed`, record how often `OnDisconnected` was raised
for a connection, and whether a task of an old connection ran while a newer one was there.

**PlayerPositions** is AviaBot's consumer with the service it calls. Every delivery has a task of
its own on the thread pool, and a step of a task is one operation on one concurrent dictionary,
which is the unit those dictionaries make atomic. A `PlayerPosition` is an object that dictionaries
and tasks refer to; it is named after the delivery that made it.

| Action | Code |
|---|---|
| `Publish` | a delivery of the queue and its `Task.Run`; `Moves` is the game's side |
| `Remove`, `Join` | `HandleJoin` and `HandleLeave`: the four `TryRemove` of `RemoveFromAll`, then `TryAdd` |
| `Unlobby`, `Spawn` | `HandleSpawn`, also when `HandlePosition` calls it |
| `Take`, `Move` | `MoveToLobby`, for despawn and detach: `TryRemove`, then the changed object's `TryAdd` |
| `Look`, `Update` | `HandlePosition`: `TryGetValue`, then the fields of the object it returned |
| `Clear` | `HandleClear`, one dictionary at a time |

`Move` changes `IsInLobby` in the same step as it adds the object: between its two operations no
dictionary refers to the object, and no other task reads the flag. (The voice
relay does, possibly of an object it looked up before; it is not modelled yet.)
A delivery for a country that is no coalition is ignored by the handlers that use it and is left out.

*Assumption on the game*: a player joins for a coalition, spawns, despawns and leaves for that one, and
the end of a mission puts everybody out. The bot may be started at any point of that, with empty
dictionaries. Two history variables say when a promise can be asked for: `tangled` is the last delivery
about a player that was handled while an earlier one was not done, `settled` the last one that settled
where he is.

The four modules of the **web interface** share one form. A request is a record in `calls`, in
the state `sent` until the server (`Serve`) or an error (`Fail`, `Lose`) answers it; then its
continuation, the code after the `await`, is one step (`Resume`). JavaScript runs that code
without interruption: a handler is one action up to its first `await` and one from each `await`
to the next. Nothing orders requests or answers. Each module has the commands of the server that
it uses, translated from `MainCommands.cs` and the classes behind it, and says how other users
may interfere.

**PlaylistPage**

| Action | Code |
|---|---|
| `Route`, `Navigate` | the address changes: the `watch` of the selected list and of edit mode |
| `OnPageChange`, `ItemRemove`, `ItemPlay`, `AddItem`, `SetPlaylistTitle`, `DragStart`, `DropRow`, `DropLink`, `Edit`, `Submit`, `Cancel` | the handlers of the editor, with the row numbers they send |
| `CreatePlaylist`, `DeletePlaylistClick`, `DeletePlaylist` | the dialogs |
| `Serve` | the list commands with their checks; `Shown` is the clamped page |
| `Fetched`, `Applied`, `Listed`, `Moved`, `Ignored` | the continuations; those of an editor that is gone run on a dead component |
| `Lose`, `Foreign` | a request that fails, also after it was carried out; another user's change |

Every change of a list is a version of it. `meant` and `seen` in a request say which item the user
saw in the row he clicked, and in which version: history, which no guard reads.

**BotPage** has `info` (`BotInfoSync`), the two tickers, the debounced volume and the player. Time
is a step `Second`, after which each running interval is due once (`PlayTick`, `EchoTick`).
`UpdateTimers` is the deep `watch` on the song, which runs with each change of it; `Moved` is the
`watch` on the volume, whoever changes that. `Positions` leaves open how far the player is within
a song.

**SettingsPage** has one debounced function per field: a string's waits for a pause, any other sends
the first value at once and the last one after the pause (`Changed`, `Fire`). `orphans` are the
values in functions of a page that was left; `Go` is the router. The watches of one change have no
order the model relies on. `Foreign` is `settings set` and `settings bot set` from another page or
from the chat, and `HashOnRead` is `ConfPassword.Get`, with which a bot that connects puts the hash
in the place of a password with `autohash`. Both are writes of the configuration (`Written`) that
the page is not told of: they change what was wanted last, except where a value of the user is still
to come, and the fields they touch are `stale` until the next fetch.

**Site** gives every visit to a page an instance of its own, `inst[i]`, whose ticker and
`hasConnectingBots` are still written by late continuations after `destroyed()` (`Left`).
`BotsDone`, `OverviewDone`, `TreeDone`, `LoginDone` and `CommandDone` are the continuations,
`BotClick` and `TreeClick` what a row or a node offers. `Serve` has the commands with
`BotManager`'s slots (`Started`, `Stopped`). `Resolve` is a bot that comes to be connected or gives up.
In `Foreign` a connected bot may also lose its connection: it stops, as after a kick by default, or
goes back to *connecting* and keeps its slot (`Lost`; `TryReconnect` in `Ts3Client.cs`).

## 3. The runs

Deadlock is checked where it means something (the ring). The other systems may stop: a closed
connection sends nothing, and the number of packets or connections is bounded.

| Run | Question | Bounds |
|---|---|---|
| `ring` | Does the ring implement the receive queue? | 7 ids, a window of 5, an initial ring of 2, two kinds of packets, two wraps |
| `channel` | Are commands delivered in order, once, whole, and forgotten only when received? | 3 ids, a window of 2, 4 packets, commands of 1 and 2 packets; a socket error in the first two commands, the second may not decompress |
| `channel_live` | Is every packet taken in the end? | 4 ids, a window of 3, 3 packets, commands of 1 and 3 packets; a socket error in the first command |
| `client` | Do status, context, handler, requests and calls agree over two connections? | 2 connections, 1 request each |
| `client_hang` | Does `Connect` return when the connection failed? (violated) | 1 connection |
| `positions` | Is a player where the game has him, with fresh data, and is an object in one place? | 1 player, 4 deliveries |
| `positions_ghost` | Is a player who left gone? (violated) | 1 player, 3 deliveries |
| `playlists` | Which item does a click hit, and is the shown list the server's? | 2 lists of 3 items, pages of 2, 3 clicks, 2 requests at a time, 1 intervention |
| `bot_song` | Does the page come to show the song that is played? | 2 songs of 1 second, 1 click, 2 requests at a time, 1 intervention |
| `bot_settings` | Does the player end up with the volume and modes that were chosen? | 3 volumes, 1 mode, 2 clicks, 2 requests at a time, 2 interventions |
| `settings` | Does every edit arrive, at the right bot, and is what is shown what the bot has, whoever else writes? | 2 bots, a password with its two hash flags, 3 clicks, 1 failure or write of somebody else |
| `site` | Do the pages that poll show the server, and stop? | 2 bots, 2 channels, 2 visits, 2 clicks (1 in the list of bots), 2 requests at a time, 1 intervention |

Why the bounds are enough:

- *ring*: 2 grows to 4 and then, capped, to 5, and a jump of more than the double takes the other
  branch of the growth. A window of 5 in 7 ids wraps in the middle of the ring. The ring starts at
  every slot when it grows. Two kinds of packets tell a stale packet from the right one.
- *channel*: the ids start at 1 of 3, so that the third packet is in the next generation, the fourth
  reuses the first one's id (and the send throws while that waits for its ack), and the receiver is
  ahead, behind and astride of the wrap. A command of 2 packets is joined from all the places of the
  window, on either side of the wrap. A socket error may hit either packet of the first two
  commands; with four packets there is room for a command before a half one and for a command of two
  packets behind it, whose first packet is joined to the half and whose second then looks like a
  start. Only the second command may be garbled: it has neighbours on both sides. Commands of 3
  packets are those of `channel_live`.
- *channel_live* stays at 3 packets of 4 ids: no send meets an id that still waits. When one does,
  its number is never sent and the receiver waits for it until the handlers close. A socket error
  leaves the packet itself to the resend timer, and may cut a command of three packets after one or two.
- *client*: two connections are what it takes for a report of one to meet the other; one request
  shows whether a code survives a connection.
- *positions*: tasks of different players touch different keys, and only `Clear` touches all, each
  key on its own: one player is enough. The longest interplay of the handlers is a despawn that took
  an object out, a join or spawn that puts a new one in, and a position that still holds the old
  one; four deliveries hold that and one more that must repair it.

- *playlists*: three items on pages of two give a full page, a half one and, after a removal, a
  page beyond the end; three clicks are what it takes to open an edit box, turn the page and
  submit. A list may not outgrow 4 items, so that an insertion is refused.
- *bot_song* and *bot_settings* are one module. The song, the clock and the echo do not read the
  sliders and the modes, nor the other way round, apart from the refresh that writes both: the first
  run has no volume but 0, the second no song. There are two songs, so that *next* skips to one, and
  somebody else replaces the one that plays by the other. A song of one second has a tick of the
  clock and one that finds the end; the echo's counter runs through its six values. One of the three
  volumes is reported as the one below it (`Lossy`).
- *settings*: an edit of the password resets its two flags, which is one change of three fields. One
  bot has a plain password to be hashed, the other one a hash. The behaviour starts with the page
  just opened, and three clicks edit, go to the other bot and back, or edit, leave and come again.
  To edit a field again that waits from a page that was left takes a fourth click; the theorems are
  for any number.
- *site*: the page that is left is the one in question, so the second is always `home`, which
  does not poll, and each page is a first page. A foreign move of the tree's bot counts only while
  the tree is open, as no other page shows it. One bot may be connecting when the list of bots is
  opened, and one click or another user starts the second: with two ids that is enough for an id
  to be given out again. Only the list of bots begins with bots, as the other pages do not show
  them.

### Fairness

- `channel_live`: the resend timer keeps firing while the handler is open (a loop in the code);
  the loop over `TryGetCommand` goes on; and strong fairness of receiving: a packet that is sent
  again and again is received in the end. Without the last assumption on the network no protocol
  delivers anything. In the code the sender gives up after `PacketTimeout`; the property excepts
  closed handlers.
- `client`: the scheduler runs the tasks it has; continuations of completed awaits run; the
  socket's thread and the timer finish what they began. When the client is `Disconnecting`, the
  server answers or the timer closes the handler: `ResendLoop` does so when no packet came for
  `PacketTimeout`. A server that goes on talking and never answers is excluded.
- `bot_song`: intervals and debounced calls fire, every request is answered or fails (the browser
  gives up), and a song comes to its end. No user need do anything.
- `site`: intervals fire, and requests are answered or fail. No fairness is assumed of a bot that
  connects: the default lists of pauses between two tries end in *repeat last* (`ConfigStructs.cs:208`,
  `:211`), `GetValueAsTime` never runs out (`:342`), and so `TryReconnect` may try for ever.

### The properties

*Ring.* `NoStaleFlag`: `IsSetIndex` reads the flag at place `Count` and growth copies all flags,
so a flag that stayed up behind the last packet would come back as a packet. `StatusTruthful`: the
verdict on every id is the flat window's. `ImplementsReceiveQueue`: the refinement.

*Channel.* `SlotsInSequence`: what lies at place i is the i-th packet after those taken; this is
where a wrong guess of the generation would show. `DeliveredInOrder`: `PacketEvent` sees no packet
twice, none behind a later one and no gap inside what it is given; and up to the first command that
a socket error cut short it sees the intact commands that were sent, each of exactly its own
packets. From there on the code does not keep commands apart (observation 7). `AckedIsReceived`: an
ack never stands for another packet with the same id, and a packet whose first send failed is not
forgotten. `EventuallyTaken`: every packet leaves the receiver's queue in the end, apart from those
behind a command that was cut short.

*Client.* `AnnouncedOnce`, `CodesAreFresh`, `ClosedWithoutStray`, `ConnectedIsIn` and
`DisconnectReturns`. The last three except behaviours in which a task strayed; without the
exception they do not hold (observation 1).

*Positions.* `FlagMatchesList`: `IsInLobby` decides who hears a player, and it is changed on an
object that other tasks may hold. `PlaceIsRight`: after his last join, leave or clear that nothing
overtook, a player is in exactly the dictionary the game says; so a disorder does not last longer
than the next such event, and without disorder there is none, wherever the bot was started.
`DataIsFresh`: in that case `TryAdd` never met an old object, and the TeamSpeak id is the latest.
`LeftIsGone` is the promise of `HandleLeave`, without any condition, and does not hold.

*Playlists.* `WrongRowHasCause`: play, remove, rename, move and insert hit the item in the row, or
there is a reason, and the reasons are enumerated: the list changed since, another answer is on
the screen, or a place of one page was sent for another. `NothingUnseen`: what the editor does not
show when it waits for nothing was made behind its back. `OverviewCurrent`: the same of the list
of lists, across creating, deleting and going back. `LoadingHasRequest`: no path of failure leaves
the table covered.

*Bot page.* `PlayingIsWatched`: a song shown as playing is watched by the clock, by the echo or by a
request under way. `SongFollowed`: so a song that is over, skipped or replaced does not stay.
`WishKept`: what the user chose last is what the player has, through the debounce, the slider that
answers write, and the watch that sends what they wrote. `ModesShown`: the modes agree unless an old
answer came last.

*Settings.* `EditsArrive`: no debounced value is lost or sent elsewhere, and none undoes what
somebody else, or the hash on read, wrote after it. `ShownIsSaved`: a field shows what the server
has, unless somebody else, or the hash on read, has written it since the fetch, which the page does
not notice.

*Site.* `ConnectingIsPolled`: no order of the answers leaves a connecting bot on the screen without
a ticker. `PollingEnds`: once no bot connects, no ticker of the list of bots goes on, not even one
that a late answer started again. While one does connect, which may be for ever, the list polls for
ever. `ListRight`, `LoginRight`, `TreeFollowed`: what is shown when nothing more will come is so.
`WrongBotHasCause`: *Stop* stops the bot of its row, or an id was given out since.

The exceptions in the properties of the pages are histories in the models (`excused`, `lost`,
`stale`, `misled`). Each is set by the step that is the reason, several are
reset as soon as a fresh answer puts things right, and each is something the code does;
section 5 lists them.

Each property of a passing run has a mutant of the code, a definition with a plausible mistake,
under which TLC finds it violated. The mutants stand in the modules, marked `mutant:`.

## 4. What is proved

| Module | Theorems | From |
|---|---|---|
| `RingQueueProofs` | `TypeCorrect`, `FlagsAreClean`, `VerdictIsTruthful`, `Refinement` | `0 < ReceiveWindow < Mod`, and an initial size of at least 1 |
| `CommandChannelProofs` | `GuessIsRight`: a packet whose number is one of the `ReceiveWindow` numbers from the window's position on is guessed its own generation and mapped to its own place | `WindowAssumption`: `0 < ReceiveWindow < Mod` |
| | `TypeCorrect`, `QueueIsPieceOfLog`, `AcksAreHonest`, `CommandsInOrder` | the same and `ChannelAssumption`: any start, any numbers of packets per command |
| `TsFullClientProofs` | `TypeCorrect`, `OnDisconnectedOnce`, `RequestsEndWithConnection`, `ClosedWhenDisconnected`, `ConnectTellsTheTruth` | at least one connection |
| `PlayerPositionsProofs` | `TypeCorrect`, `OneOwner`, `PlacesAreRight`, `DataIsNewest` | at least one player, any number of deliveries |
| `SiteProofs` | `SiteTyped`, `Polled`, `LoginSettled`, `StopIsAimed`, `ListSettles` | a finite set of bots, at least one channel, any numbers of visits, clicks, requests and troubles |
| `BotPageProofs` | `BotPageTyped`, `SongWatched`, `ModesAreRight`, `WishArrives` | any length of a song and set of volumes, any numbers of clicks, requests and troubles |
| `PlaylistPageProofs` | `PlaylistsTyped`, `LoadingEnds`, `MissHasCause`, `EditorIsCurrent`, `OverviewIsCurrent` | any lists, any size of a page, any numbers of clicks, requests and troubles |
| `SettingsPageProofs` | `SettingsTyped`, `EveryEditArrives`, `WhatIsShownIsSaved` | a finite set of fields, any bots and values, any numbers of clicks, requests and troubles |

Every invariant of the runs that pass is stated by one of these theorems, and so is the refinement.
The assumptions are the `ASSUME`s of the modules, which TLC evaluates with each run.

The arguments:

- **Window.** `Number` is injective on pairs of a generation and an id. A packet within reach of
  the window lies in the window's generation or the next, and `IsNextGen` tells which.
- **Ring.** The type invariant is not inductive: `BufferPop` lowers `count`, and a later `Set` may
  raise it over a slot whose flag stayed up. `TypeOK /\ NoStaleFlag` is. The modulo is removed once,
  in `LocalPlace`; growth is one lemma (`Extension`) used by both `Probe` and `Set`. For the
  refinement, a `Probe` is a stutter, since `Flat` does not change with the size of the ring.
- **Channel.** The invariant adds to the properties what ties both ends to the log: the log is
  numbered without gaps from `First`, everything on the way or waiting for an ack is a packet of the
  log, whatever waits for an ack is the latest use of its id (`OneUse`), and a waiting packet with
  the id of an ack on its way was received (`AcksHonest`). With `GuessIsRight`, a readable packet
  that the queue has room for is the packet of its place.
- **Order of the commands.** The property alone is not inductive: it does not say where the window
  stands. The invariant follows the flags of the packets. The commands lie in the log one behind the
  other (`Following`); for a packet that went out, the flag tells whether its command goes on after
  it, or was cut short there, given whether it starts one (`Flagged`); a number that a throwing send
  used up is never received, so that the window stops before it (`NeverOut`); up to the first
  command that was cut short the window stands where a command starts (`AtStart`); and what was
  delivered, or dropped as garbled, is exactly what lies behind it (`Behind`). That what
  `TryGetCommand` joins is one whole command is shown for the least place at which it would not be.
  Behind the first cut only the numbers are left to argue with: what is joined are neighbours in the
  queue, hence in the log. `PartsOf` and `IsWhole` state the property without recursion over the
  log.
- **Client.** The invariant adds that the events of a connection count its announcement
  (`EventsCounted`), that status and context agree (`ContextMatches`), that only the current
  context's handler is open unless a task strayed (`OpenIsCurrent`), and that an `InitServer` on
  its way is of a connection the server let in (`AdmittedFirst`).
- **Positions.** An object has one owner at a time: the task that makes it, until that is done
  (`ListedIsMade`), a dictionary (`FlagMatchesList`), or the task that took it out (`MovedIsOwned`).
  Every operation either takes objects out (`Shrinks`) or adds an object of its task (`Adds`); only
  `Take` hands one over from a dictionary to a task.
- **Where a player is.** The invariant (`Told`) tells a player's story along his own events. Each
  event finds him where the one before put him (`From`, `To`, `Chain`). Of his tasks that overtook
  none, only one is under way (`Serial`), and what it has done so far is known at each of its
  operations (`Midway`). Between two tasks he is where the next expects him, or where the game has
  him, and his object knows all that was told (`Between`, `Newest`); before his first event has been
  handled he is nowhere (`Fresh`). A step that does not concern him changes none of this (`Same`);
  one that overtakes, or that is overtaken, gives up the claims until an event settles him again;
  one in order is shown, per operation, to keep four facts (`Sees`).
- **Polling pages.** A late continuation writes only to the visit whose request it was, and a page
  makes only requests of its own kind (`Addressed`); so what the open page shows depends on the
  requests of its own visit. For the list of bots, `hasConnectingBots` is true exactly of the list
  that is shown, and while it is, the ticker runs (`Watched`): the two answers that may turn a
  ticker off, a tick's and the interval's own, both look at it first. For the login (`Tried`),
  either the try of the login in force is under way and is the latest of its page, or no try under
  way is later than the last one shown, and what is shown is its verdict or has an excuse. The tries
  are ordered by the click that made them.
- **One bot.** "Clock, echo or a request about the song" is not inductive: a seek that was asked
  while the clock stood still leaves it so. Only a seek that found the clock running counts
  (`Watcher`), and the echo counts because its sixth tick, the last, asks (`Echoes`). For the modes
  (`Right`), the player counts their changes, and an answer carries the count it was given at
  (`IsTrue`): what is shown, or what an answer under way will show, is the player's, or a later
  answer to a click on the same mode is still to come, or the answer is an old one, which excuses
  the page when it is shown. For the volume (`Wanted`), a choice that nothing interfered with waits
  for the slider's pause, is on its way, or has arrived; a refresh is under way only when it has
  arrived, so that what it writes is the choice itself. The types (`Fits`) go around a circle: the
  slider sends what an answer wrote, and an answer tells what the player was sent. So they are kept
  by the page, its requests and the player together. That there is a free number for the next
  request is the pigeonhole principle.
- **Playlists.** Every step that covers the table makes, or waits for, a request of the editor's own
  whose continuation uncovers it (`Covered`); a change of the route takes the editor away or asks
  again, and an orphaned request is none of them. Every change of a list gives it a new version.
  Whatever remembers a row or a page of it (the editor, an edit box, the row being dragged, a
  request, an answer) remembers the version with it, and is right as long as that is the list's
  (`RowTrue`, `DataTrue`); so a miss has one of the causes. For what is shown: each version since
  the one that is shown is one the editor will hear of, or one it is excused for (`Told`, `Knows`;
  `Agrees` for the list of lists), unless a newer answer is on its way (`Seeing`, `Overviewed`). The
  steps share one frame (`Follows`): lists only get newer, and whoever is no longer told of a change
  has an excuse.
- **List of bots.** A list that was fetched is right about an id until ids have been given out again
  (`Snapshot`), and a click carries the list it was made on (`Aims`). For what is shown in the end
  (`Right`): among the list on the screen and the newer answers on their way, the newest shows the
  bots as they are or shows one connecting, or another list is going to be fetched. For the types,
  the least free id exists because the bots are finite, and is no greater than their number.
- **Settings.** A setting that nothing interfered with is told by its last value: the one that waits
  for the field's pause, in the page or in one that was left (`Holds`); else the newest of the
  requests on their way; else the server's (`Arrives`; `Heeded` combines the three). A page asks
  once and cannot be edited before the answer (`Asks`), and what it shows is what the user wants
  (`ShowsWish`). A write of somebody else is what is wanted from then on, unless the value is one of
  those still to come (`Awaited`); one lemma covers `Foreign` and `HashOnRead`. The attempt to prove
  this corrected the model: with more clicks than the run makes, `EditsArrive` was false, for a
  reason the model now names (see the observations).

TLC checked these inductive invariants on small instances before they were proved; that of the
playlists also by simulation with larger bounds.

Only model-checked: the temporal properties `EventuallyTaken`, `DisconnectReturns`, `SongFollowed`,
`PollingEnds` and `TreeFollowed`, since liveness under fairness, and `ENABLED`, are out of the prover's
reach, and the violated properties.

## 5. Findings and observations

Findings, each with a run that TLC finds violated:

1. **`Connect` never returns when the connection fails** (`client_hang`). `ChangeState` sets
   `status = Disconnected` before it saves the status in `statusBefore`; the test for `Connecting`
   is never true, and `ConnectEvent` is not completed. After a refusal, a timeout or a call of
   `Disconnect`, the caller of `Connect` waits for ever.
2. **A player who left comes back** (`positions_ghost`). Each delivery is handled in a task of its
   own. A leave that is handled before, or between the two operations of, an earlier spawn or
   position leaves the player in a dictionary, where he stays until his next join or the end of
   the mission. The next join, leave or clear that is handled by itself repairs every such
   disorder (`PlaceIsRight`); a despawn does not.

Observations of the same kind. The property in brackets is defined in the module; as an
`INVARIANT` of that module's cfg it is violated:

1. An old connection disconnects the new one (`DisconnectedIsClosed`). The task queued by an old
   handler's `StopEvent`, or by its `Init1` error, calls `ChangeState`, which logs a stray
   disconnect and goes on: status, context and requests of the new connection are lost, and its
   handler stays open.
2. Handlers meet a null context (`ContextIsSet`). The status is checked when the packet
   arrives, not when its task runs. In an `async void` handler the exception ends the process.
3. Acks of the second generation cannot be read (`AcksReadable`). `FindIncommingGenerationId`
   leaves the generation of an ack at 0, `SendAck` encrypts with the counted one.
4. A lost ack is not repeated across a wrap (`ReceivedIsAckedAgain`). The retransmission of a
   packet from before a wrap is decrypted with the next generation and dropped.
5. The diagram in `RingQueue.cs` does not hold after a wrap (`ConsumedIsSet`): ids left of the
   window are reported as "not set". The queue stays correct, `StatusTruthful` holds.
6. "Playlist is empty." (`PlaylistEditor.vue:97`) is shown for a page beyond the end of a list
   that is not empty (`EmptyTextIsTrue`): after the last page's items were removed, and for the
   page number that is kept for another list.
7. Half a command is joined with the next ones (`CommandsNeverMix`). When a socket error ends
   `AddOutgoingSplitData` between two packets (`PacketHandler.cs:344`, `:921`), those before are
   resent and arrive: a start without an end. `TryGetCommand` joins them with everything up to the
   next fragmented packet, which is the start of another command; that one's end then looks like a
   start. Commands of one packet in between are swallowed. `SendCommandBase` logs the error and goes
   on.
8. A new password is taken for a hash (`NewPasswordIsPlain`). A bot that connects hashes its
   password and sets `hashed` (`ConfigStructs.cs:322`) while a page still shows it plain. An edit of
   the password sends the flags that change on the page: `hashed` is off there already, so it is not
   sent and stays on.

Observations in the web interface, which the properties except by name:

- *Playlists*: a drop sends numbers of rows of the page (`PlaylistEditor.vue:353`, `:359`) while
  the server counts from the start of the list: from the second page on, another item is moved.
  An edit box stays open at its row when the page turns, and renames the item that is there then.
- *Bot page*: `pause` toggles (`MainCommands.cs:1182`), though `strings.resx:319` says "pauses the
  song. Undo with !play."; a click on a page that is behind resumes. The mute button does not move
  the slider, so that a second click mutes again until a refresh has come. A volume is read back
  as less than was set for 14 of the 101 levels, and the `watch` sends that back. A failed request
  puts the slider to the volume of the last success, before any to 0, and sends that.
- *Settings*: the address is read when a debounced function fires, so that a value may be written to
  another bot, or to none. Between two bots the router keeps the page, with the first one's values.
  A value that still waits from a page that was left is sent when its pause ends
  (`BotSettings.vue:315`), also when the user has opened the page again and set the field anew: the
  older value may arrive last.
- *List of bots*: a bot that cannot connect, or has lost its connection, tries for ever by default,
  and the list polls as long. Ids are given out again, and *Stop* names an id: a row of an older
  list may stop another bot.
- *Infoboard and tree*: an answer that comes after `destroyed()` starts the ticker again
  (`Overview.vue:118`, `ServerTree.vue:46`); nothing but an error stops it then. The list of bots
  does the same, but stops by itself.
- *Tree*: the failure of a request from before a restart of the ticker stops the new one. The
  whisper button decides by the mode that is shown whether to switch the mode, and after
  `stopWhisperHere` of the last channel the mode is still *whisper*, with nobody to hear.
- *Login*: every key typed is tried, and the answer that comes last is shown, not the newest.

## 6. What is not modelled

- Time: timeouts and timers fire at any moment. The round-trip estimate only changes when.
- Cryptography, compression and parsing: a packet can be read or not, a command decompresses or
  not. QuickLZ fails for a command as a whole. What pieces of several commands mean, once joined, is
  left open.
- Voice packets and their windows, pings, `CommandLow` (a second channel with the same code), the
  exchange of `Init1`: see the plan.
- Requests that wait for a notification, and their timeouts: planned.
- The book, the query client, generated code, audio filters around native Opus.
- TS3AudioBot's commands, rights, history, configuration, web, plugins: parsers, tables and input
  and output on one thread. What the pages use of them is part of the web interface's modules.
- Of the web interface: titles, links, texts and covers; the navigation bar, the dialog with the
  site's settings, the themes, `VCanvas` and the graphs, which are layout; the order in which the
  tree is built from the server's channels (`setServerTree`), a pure sort; a login that
  `ApiAuth.Create` throws on, as the `watch` has done nothing by then; the list of client versions
  the settings fetch from another site; a change of address from bot to bot on the bot's page.
- The players that AviaBot's synthetic test voices add and remove, and `RelayService`, which no program
  registers. The reconnection loop of the consumer.
- AviaBot's voice relay, Registrator and TS3AudioBot: not yet, see the plan.

## 7. Plan

In order of importance. Done:

1. `GenerationWindow`, `ReceiveQueue`, `RingQueue` with the refinement, and their proofs.
2. `CommandChannel` over the abstract queue, with liveness, and the proofs.
3. `TsFullClient` with two connections, and the proofs.
4. `PlayerPositions` with the consumer, and the proofs.
5. The web interface: `PlaylistPage`, `BotPage`, `SettingsPage` and `Site`, and their proofs.
6. A theorem for every invariant of these modules.

Next:

7. `VoiceRelay`: the receiving thread and the mixer over a speaker's queue, cleanup and disposal.
   Properties: a chunk is mixed at most once and in order; a decoder is not disposed in use.
8. `Monitor` with accessor: handlers interleaving at their awaits, loss of the client, initial
   synchronisation. Properties: sessions and the online flag agree; the reset happens.
9. `MessageProcessor`: requests with dependent notifications, timeouts and `DropQueue`; the
   requests of `TsFullClient` are its abstract side.
10. Voice windows: `SetAndDrag` and `AdvanceToExcluded` across a wrap, with lemmas next to
   `GuessIsRight`.
11. TS3AudioBot: the play state over the end-of-song callbacks, reconnecting and stopping bots, and
   the shuffle as a pure algorithm against its definition.

Abstract specifications worth stating beyond `ReceiveQueue`: a presence service (a user is online
or not) for the monitor, and a FIFO of chunks for the voice relay. Theorems worth proving next: the
invariants of 7 and 8, and the implementation of the FIFO.
