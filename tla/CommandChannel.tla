--------------------------- MODULE CommandChannel ---------------------------
(***************************************************************************)
(* One direction of the command channel of TSLib/Full/PacketHandler.cs:    *)
(* the PacketHandler that sends commands, the UDP network, and the         *)
(* PacketHandler that acknowledges the packets, puts them in order, joins  *)
(* the fragments and hands the commands to PacketEvent.                    *)
(*                                                                         *)
(* A datagram may be lost, repeated, delayed and reordered.  A packet is   *)
(* encrypted for its id and its generation, and only the id travels: the   *)
(* receiver reads a packet exactly when it guesses the generation.         *)
(*                                                                         *)
(* The behaviour starts on a connection that already carried First packets *)
(* without loss, so that a few packets are enough to cross a wrap.         *)
(***************************************************************************)
EXTENDS GenerationWindow, Sequences

CONSTANTS
    PartCounts,         \* the numbers of packets a command may need
    MayGarble,          \* bound: the commands, counted from 1, that may fail to decompress;
                        \* with none, nothing is compressed
    MayFail,            \* bound: those a socket error may hit while they are sent
    StartId,            \* the next id when the behaviour starts
    StartGeneration,    \* and its generation
    MaxPackets,         \* bound: the packets sent in a behaviour
    Empty               \* marks a place of the receive queue without packet

ASSUME ChannelAssumption ==
    /\ PartCounts \subseteq 1 .. Mod
    /\ MayGarble \subseteq Nat
    /\ MayFail \subseteq Nat
    /\ StartId \in Ids
    /\ StartGeneration \in Nat
    /\ MaxPackets \in Nat

First == Number(StartGeneration, StartId)

\* msg is the command the packet is part of: the payload.  garbled stands for a
\* Compressed flag on data that QuickerLz cannot decompress; it is on the first part.
Packet == [gen : Nat, id : Ids, fragmented : BOOLEAN, msg : Nat, garbled : BOOLEAN]

ASSUME EmptyAssumption == Empty \notin Packet

NumberOf(p) == Number(p.gen, p.id)

\* id is the acknowledged packet's; gen is the generation the ack itself is encrypted
\* under, where 1 stands for every generation after the first.
Ack == [id : Ids, gen : {0, 1}]

VARIABLES
    \* the sender
    packetCounter,      \* packetCounter[Command], the id of the next packet
    generationCounter,  \* generationCounter[Command]
    packetAckManager,   \* the packets not acknowledged yet; a dictionary by id
    senderClosed,
    \* the network
    data,               \* the datagrams with commands in flight
    acks,               \* the datagrams with acks in flight
    \* the receiver
    window, flat,       \* receiveQueueCommand, as module ReceiveQueue has it
    draining,           \* inside the loop over TryGetCommand
    acksSent,           \* packetCounter[Ack], counted up to Mod only
    receiverClosed,
    \* history
    log,                \* every packet in the order of the numbers
    unsent,             \* numbers used up by a send that threw
    cut,                \* the commands a socket error ended before their last packet
    delivered           \* the commands given to PacketEvent: sequences of packets

senderVars == <<packetCounter, generationCounter, packetAckManager, senderClosed, log, unsent, cut>>
receiverVars == <<window, flat, draining, acksSent, receiverClosed, delivered>>
vars == <<senderVars, data, acks, receiverVars>>

Q == INSTANCE ReceiveQueue WITH Item <- Packet

Places == Q!Places

MinOf(a, b) == IF a < b THEN a ELSE b

Init ==
    /\ packetCounter = StartId
    /\ generationCounter = StartGeneration
    /\ packetAckManager = {}
    /\ senderClosed = FALSE
    /\ data = {}
    /\ acks = {}
    /\ window = [base |-> StartId, gen |-> StartGeneration]
    /\ flat = [i \in Places |-> Empty]
    /\ draining = FALSE
    /\ acksSent = MinOf(First, Mod)
    /\ receiverClosed = FALSE
    /\ log = <<>>
    /\ unsent = {}
    /\ cut = {}
    /\ delivered = <<>>

-----------------------------------------------------------------------------
(* The sender *)

CounterNoWrap(j) ==                 \* mutant: the id does not wrap
    [base |-> packetCounter + j, gen |-> generationCounter]

\* GetPacketCounter after j calls of IncPacketCounter.
Counter(j) == Advance([base |-> packetCounter, gen |-> generationCounter], j)

NextMessage == IF log = <<>> THEN 1 ELSE log[Len(log)].msg + 1

\* AddOutgoingSplitData marks the first and the last of several packets.
Part(count, garbled, j) ==
    [gen |-> Counter(j).gen,
     id |-> Counter(j).base,
     fragmented |-> (j = 0) # (j = count - 1),
     msg |-> NextMessage,
     garbled |-> garbled /\ j = 0]

Parts(count, garbled, n) == {Part(count, garbled, j) : j \in 0 .. n - 1}

Waiting(id) == \E p \in packetAckManager : p.id = id

Others(datagrams, parts) == {d \in datagrams : \A p \in parts : d.id # p.id}

\* Uses up the ids of the first `used` parts; the first `kept` of them are registered for
\* their acks, and the first `out` get as far as the network.
\* Assumption on the network: when an id comes around again, after Mod packets, the
\* datagrams of its previous use have left it.
Emit(count, garbled, kept, out, used) ==
    /\ Len(log) + used <= MaxPackets
    /\ packetCounter' = Counter(used).base
    /\ generationCounter' = Counter(used).gen
    /\ packetAckManager' = packetAckManager \cup Parts(count, garbled, kept)
    /\ data' = Others(data, Parts(count, garbled, used)) \cup Parts(count, garbled, out)
    /\ acks' = Others(acks, Parts(count, garbled, used))
    /\ log' = log \o [j \in 1 .. used |-> Part(count, garbled, j - 1)]

\* AddOutgoingPacket(Command): the packets of a command go out under one lock.
SendCommand(count, garbled) ==
    /\ ~senderClosed
    /\ \A j \in 0 .. count - 1 : ~Waiting(Part(count, garbled, j).id)
    /\ Emit(count, garbled, count, count, count)
    /\ UNCHANGED <<senderClosed, unsent, cut, receiverVars>>

\* packetAckManager.Add throws on the first part whose id still waits for its ack.
\* The parts before it are out and its own id is used up.
SendCommandThrows(count, garbled, j) ==
    /\ ~senderClosed
    /\ Waiting(Part(count, garbled, j).id)
    /\ \A i \in 0 .. j - 1 : ~Waiting(Part(count, garbled, i).id)
    /\ Emit(count, garbled, j, j, j + 1)
    /\ unsent' = unsent \cup {NumberOf(Part(count, garbled, j))}
    /\ UNCHANGED <<senderClosed, cut, receiverVars>>

FailsUnregistered(count, garbled, j) ==     \* mutant: registered only once it is out
    /\ ~senderClosed
    /\ NextMessage \in MayFail
    /\ \A i \in 0 .. j : ~Waiting(Part(count, garbled, i).id)
    /\ Emit(count, garbled, j, j, j + 1)
    /\ cut' = IF j < count - 1 THEN cut \cup {NextMessage} ELSE cut
    /\ UNCHANGED <<senderClosed, unsent, receiverVars>>

\* SendRaw reports "Socket send error" for part j, and AddOutgoingSplitData returns.
\* The part is registered all the same and goes out with the next resend; the parts
\* after it are never sent, and no id is left out for them.
SendCommandFails(count, garbled, j) ==
    /\ ~senderClosed
    /\ NextMessage \in MayFail
    /\ \A i \in 0 .. j : ~Waiting(Part(count, garbled, i).id)
    /\ Emit(count, garbled, j + 1, j, j + 1)
    /\ cut' = IF j < count - 1 THEN cut \cup {NextMessage} ELSE cut
    /\ UNCHANGED <<senderClosed, unsent, receiverVars>>

\* ResendLoop, once the retransmission timeout of the packet has run out.
Resend(p) ==
    /\ ~senderClosed
    /\ p \in packetAckManager
    /\ data' = data \cup {p}
    /\ UNCHANGED <<senderVars, acks, receiverVars>>

\* FindIncommingGenerationId leaves the generation of an ack at 0: it can be read
\* only if it was encrypted under the first one.  The id is all ReceiveAck looks at.
ReceiveAck(a) ==
    /\ ~senderClosed
    /\ a \in acks
    /\ a.gen = 0
    /\ packetAckManager' = {p \in packetAckManager : p.id # a.id}
    /\ UNCHANGED <<packetCounter, generationCounter, senderClosed, log, unsent, cut,
                   data, acks, receiverVars>>

\* ResendLoop finds a packet without ack for PacketTimeout, or Stop is called.
StopSender ==
    /\ ~senderClosed
    /\ senderClosed' = TRUE
    /\ UNCHANGED <<packetCounter, generationCounter, packetAckManager, log, unsent, cut,
                   data, acks, receiverVars>>

-----------------------------------------------------------------------------
(* The network *)

LoseData(p) ==
    /\ p \in data
    /\ data' = data \ {p}
    /\ UNCHANGED <<senderVars, acks, receiverVars>>

LoseAck(a) ==
    /\ a \in acks
    /\ acks' = acks \ {a}
    /\ UNCHANGED <<senderVars, data, receiverVars>>

-----------------------------------------------------------------------------
(* The receiver; one thread reads the socket *)

ReadableAnyGeneration(p) == TRUE    \* mutant: the key ignores the generation

Readable(p) == GetGeneration(window, p.id) = p.gen

SendAck(id) ==
    /\ acks' = acks \cup {[id |-> id, gen |-> IF acksSent < Mod THEN 0 ELSE 1]}
    /\ acksSent' = MinOf(acksSent + 1, Mod)

Receives(p) ==
    /\ ~receiverClosed
    /\ ~draining
    /\ p \in data
    /\ Readable(p)

AckAgainUnread(p) ==                \* mutant: acknowledges by the id, before it decrypts
    /\ ~receiverClosed
    /\ ~draining
    /\ p \in data
    /\ Q!IsSet(p.id) \in {Q!OutOfWindowSet, Q!InWindowSet}
    /\ SendAck(p.id)
    /\ UNCHANGED <<senderVars, data, window, flat, draining, receiverClosed, delivered>>

\* ReceiveCommand: a packet it already has is only acknowledged again.
AckAgain(p) ==
    /\ Receives(p)
    /\ Q!IsSet(p.id) \in {Q!OutOfWindowSet, Q!InWindowSet}
    /\ SendAck(p.id)
    /\ UNCHANGED <<senderVars, data, window, flat, draining, receiverClosed, delivered>>

\* ReceiveCommand: a new packet is acknowledged and queued, and the queue is looked
\* through for commands.
Accept(p) ==
    /\ Receives(p)
    /\ Q!Set(p.id, p)
    /\ SendAck(p.id)
    /\ draining' = TRUE
    /\ UNCHANGED <<senderVars, data, receiverClosed, delivered>>

IsCommandUnjoined(last) ==          \* mutant: every packet is a command
    last = 0 /\ flat[0] # Empty

\* TryGetCommand: the queue starts with the packets of a command up to this place.
\* A command is one packet without the Fragmented flag, or the packets from one
\* with the flag to the next one with it.
IsCommand(last) ==
    /\ \A i \in 0 .. last : flat[i] # Empty
    /\ flat[0].fragmented = (last > 0)
    /\ last > 0 => flat[last].fragmented
    /\ \A i \in 1 .. last - 1 : ~flat[i].fragmented

Dequeue(count) ==
    /\ flat' = [i \in Places |-> IF i + count \in Places THEN flat[i + count] ELSE Empty]
    /\ window' = Advance(window, count)

\* Pieces of several commands are joined: what that decompresses to, if it does, is open.
Mixed(last) == \E i \in 1 .. last : flat[i].msg # flat[0].msg

\* PacketEvent is null once the handler was stopped: the command is dropped.
Deliver(last) ==
    /\ draining
    /\ IsCommand(last)
    /\ flat[0].garbled => Mixed(last)
    /\ Dequeue(last + 1)
    /\ delivered' = IF receiverClosed THEN delivered
                    ELSE Append(delivered, [i \in 1 .. last + 1 |-> flat[i - 1]])
    /\ UNCHANGED <<senderVars, data, acks, draining, acksSent, receiverClosed>>

\* "Got invalid compressed data": the packets are gone, and TryGetCommand returns
\* false, which ends the loop.
DropGarbled(last) ==
    /\ draining
    /\ IsCommand(last)
    /\ flat[0].garbled \/ (MayGarble # {} /\ Mixed(last))
    /\ Dequeue(last + 1)
    /\ draining' = FALSE
    /\ UNCHANGED <<senderVars, data, acks, acksSent, receiverClosed, delivered>>

EndDrain ==
    /\ draining
    /\ \A last \in Places : ~IsCommand(last)
    /\ draining' = FALSE
    /\ UNCHANGED <<senderVars, data, acks, window, flat, acksSent, receiverClosed, delivered>>

\* Stop on the receiving side, from any thread.
StopReceiver ==
    /\ ~receiverClosed
    /\ receiverClosed' = TRUE
    /\ UNCHANGED <<senderVars, data, acks, window, flat, draining, acksSent, delivered>>

-----------------------------------------------------------------------------
Garbling == IF NextMessage \in MayGarble THEN BOOLEAN ELSE {FALSE}

Sends ==
    \E count \in PartCounts, garbled \in Garbling :
        \/ SendCommand(count, garbled)
        \/ \E j \in 0 .. count - 1 : \/ SendCommandThrows(count, garbled, j)
                                    \/ SendCommandFails(count, garbled, j)

Next ==
    \/ Sends
    \/ \E p \in packetAckManager : Resend(p)
    \/ \E a \in acks : ReceiveAck(a) \/ LoseAck(a)
    \/ StopSender
    \/ \E p \in data : LoseData(p) \/ AckAgain(p) \/ Accept(p)
    \/ \E last \in Places : Deliver(last) \/ DropGarbled(last)
    \/ EndDrain
    \/ StopReceiver

Spec == Init /\ [][Next]_vars

\* The timer resends what waits for its ack, the loop over TryGetCommand runs to its
\* end, and the network delivers a packet that is sent again and again.
Fairness ==
    /\ \A n \in First .. First + MaxPackets - 1 :
          /\ WF_vars(\E p \in packetAckManager : NumberOf(p) = n /\ Resend(p))
          /\ SF_vars(\E p \in data : NumberOf(p) = n /\ Accept(p))
    /\ WF_vars(EndDrain \/ \E last \in Places : Deliver(last) \/ DropGarbled(last))

FairSpec == Spec /\ Fairness

-----------------------------------------------------------------------------
(* Properties *)

\* The packet with a number, and the packets of a command.
Sent(n) == log[n - First + 1]

Numbers == First .. First + Len(log) - 1

PartsOf(msg) == {n \in Numbers : Sent(n).msg = msg}

\* cmd is made of packets whose numbers follow each other.
IsPiece(cmd) ==
    \E a, b \in Numbers : a <= b /\ cmd = [i \in 1 .. b - a + 1 |-> Sent(a + i - 1)]

\* And they are one command, all of it.
IsWhole(cmd) ==
    \E a, b \in Numbers : /\ a <= b
                          /\ PartsOf(cmd[1].msg) = a .. b
                          /\ cmd = [i \in 1 .. b - a + 1 |-> Sent(a + i - 1)]

\* No command up to this one was cut short.
Uncut(msg) == \A m \in cut : msg < m

IsGarbled(msg) == \E n \in PartsOf(msg) : Sent(n).garbled

TypeOK ==
    /\ packetCounter \in Ids
    /\ generationCounter \in Nat
    /\ packetAckManager \subseteq Packet
    /\ senderClosed \in BOOLEAN
    /\ data \subseteq Packet
    /\ acks \subseteq Ack
    /\ window \in Window
    /\ flat \in [Places -> Packet \cup {Empty}]
    /\ draining \in BOOLEAN
    /\ acksSent \in 0 .. Mod
    /\ receiverClosed \in BOOLEAN
    /\ log \in Seq(Packet)
    /\ unsent \subseteq Nat
    /\ cut \subseteq Nat
    /\ delivered \in Seq(Seq(Packet))

\* Whatever the network does, and across wraps of the ids, the packet at place i of
\* the receive queue is the i-th one after those already taken: no packet of an
\* earlier or later generation is ever taken for it (FindIncommingGenerationId,
\* Decrypt, RingQueue.Set).
SlotsInSequence ==
    \A i \in Places : flat[i] # Empty =>
        /\ Position(window) + i \in Numbers
        /\ flat[i] = Sent(Position(window) + i)

\* PacketEvent never sees a packet twice, nor one behind a later one, and what it is
\* given has no gap, whatever failed.  Up to the first command that a socket error cut
\* short it sees the commands that were sent, each once, in order and made of exactly
\* its own packets, and misses only those that do not decompress.  From there on there is
\* no such promise: half a command has a start and no end, and the next packets are
\* joined to it (AddOutgoingSplitData, SendRaw, TryGetCommand).
DeliveredInOrder ==
    /\ \A k \in 1 .. Len(delivered) : IsPiece(delivered[k])
    /\ \A j, k \in 1 .. Len(delivered) :
          j < k => NumberOf(delivered[j][Len(delivered[j])]) < NumberOf(delivered[k][1])
    /\ \A k \in 1 .. Len(delivered) : Uncut(delivered[k][1].msg) =>
          /\ IsWhole(delivered[k]) /\ ~delivered[k][1].garbled
          /\ \A msg \in 1 .. delivered[k][1].msg :
                IsGarbled(msg) \/ \E j \in 1 .. k : delivered[j][1].msg = msg

\* Not a property of this code: every command PacketEvent sees is one that was sent.
CommandsNeverMix == \A k \in 1 .. Len(delivered) : IsWhole(delivered[k])

\* The sender forgets a packet only when the receiver has it: an ack never stands for
\* another packet with the same id (SendAck, ReceiveAck).
AckedIsReceived ==
    \A n \in Numbers :
        \/ n \in unsent
        \/ Sent(n) \in packetAckManager
        \/ n < Position(window)
        \/ n - Position(window) \in Places /\ flat[n - Position(window)] # Empty

\* What ReceiveCommand says of itself: "Check if we already have this packet and only
\* need to ack it."  A packet the receiver took, and the sender still resends, is one
\* the receiver can read and acknowledge again.
ReceivedIsAckedAgain ==
    \A p \in packetAckManager :
        NumberOf(p) < Position(window)
            => Readable(p) /\ Q!IsSet(p.id) \in {Q!OutOfWindowSet, Q!InWindowSet}

\* TsCrypt.cs on the generation every packet is encrypted under: "Each time the packetId
\* reaches 65535 the next packet will go on with 0 and the generationId will be increased
\* by 1."  An ack on its way is encrypted under the generation ReceiveAck reads it with.
AcksReadable == \A a \in acks : a.gen = 0

\* Every packet of a connection that stays open is taken from the queue in the end,
\* however often it is lost on the way.  Behind a command that was cut short a packet may
\* wait for an end that never comes (ResendLoop, ReceiveCommand).
EventuallyTaken ==
    \A n \in First .. First + MaxPackets - 1 :
        n \in Numbers ~> \/ n < Position(window)
                         \/ senderClosed \/ receiverClosed
                         \/ \E k \in First .. n : k \in Numbers /\ Sent(k).msg \in cut
=============================================================================
