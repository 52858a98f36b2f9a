----------------------------- MODULE RingQueue ------------------------------
(***************************************************************************)
(* TSLib/Full/RingQueue.cs: the queue that puts the command packets of one *)
(* channel back in order.  A ring that starts small and grows by copying,  *)
(* a flag per slot, and a GenerationWindow that moves with the start of    *)
(* the ring.  One thread, the one that reads the socket, uses it.          *)
(***************************************************************************)
EXTENDS GenerationWindow

CONSTANTS
    Item,               \* the packets that may be queued
    Default,            \* what a slot without packet holds: default(T)
    InitialBufferSize,  \* slots of a new ring
    MaxGeneration       \* bound: the wraps a behaviour goes through

ASSUME RingAssumption ==
    /\ Default \notin Item
    /\ InitialBufferSize \in Nat \ {0}
    /\ MaxGeneration \in Nat

VARIABLES
    currentStart,       \* slot of the first place
    ringBuffer,         \* the slots
    ringBufferSet,      \* which slots hold a packet
    length,             \* ringBuffer.Length
    count,              \* places up to the last packet
    window              \* the GenerationWindow

vars == <<currentStart, ringBuffer, ringBufferSet, length, count, window>>

buffers == <<currentStart, ringBuffer, ringBufferSet, length>>

Slots == 0 .. length - 1

MinOf(a, b) == IF a < b THEN a ELSE b
MaxOf(a, b) == IF a > b THEN a ELSE b

Init ==
    /\ length = MinOf(InitialBufferSize, ReceiveWindow)
    /\ currentStart = 0
    /\ ringBuffer = [s \in Slots |-> Default]
    /\ ringBufferSet = [s \in Slots |-> FALSE]
    /\ count = 0
    /\ window = Reset

-----------------------------------------------------------------------------
\* The ring, seen through a start and a size.
IndexToLocal(start, size, index) == (start + index) % size

ExtendToUncapped(index) ==          \* mutant: the ring may outgrow the window
    IF index < length THEN length
    ELSE IF index < length * 2 THEN length * 2
    ELSE index + length

\* What BufferExtend(index) leaves: nothing changes when the place has a slot;
\* else the slots are copied, in order, to the front of a larger ring.
ExtendTo(index) ==
    IF index < length THEN length
    ELSE IF index < length * 2 THEN MinOf(length * 2, ReceiveWindow)
    ELSE MinOf(index + length, ReceiveWindow)

ExtStart(index) == IF index < length THEN currentStart ELSE 0

ExtUnrotated(index, array, default) ==      \* mutant: copies slots, not places
    IF index < length THEN array
    ELSE [s \in 0 .. ExtendTo(index) - 1 |-> IF s \in Slots THEN array[s] ELSE default]

Ext(index, array, default) ==
    IF index < length THEN array
    ELSE [s \in 0 .. ExtendTo(index) - 1 |->
            IF s \in Slots THEN array[IndexToLocal(currentStart, length, s)] ELSE default]

ExtBuffer(index) == Ext(index, ringBuffer, Default)
ExtBufferSet(index) == Ext(index, ringBufferSet, FALSE)

BufferExtend(index) ==
    /\ currentStart' = ExtStart(index)
    /\ length' = ExtendTo(index)
    /\ ringBuffer' = ExtBuffer(index)
    /\ ringBufferSet' = ExtBufferSet(index)

\* StateGet looks at the flag in the extended ring.
StateGet(index) ==
    ExtBufferSet(index)[IndexToLocal(ExtStart(index), ExtendTo(index), index)]

\* The order of the tests is the code's: a place beyond the last packet is free,
\* whatever its slot says.
IsSetIndex(index) ==
    IF index < 0 THEN "OutOfWindowSet"
    ELSE IF index > count /\ index < ReceiveWindow THEN "InWindowNotSet"
    ELSE IF index >= ReceiveWindow THEN "OutOfWindowNotSet"
    ELSE IF StateGet(index) THEN "InWindowSet" ELSE "InWindowNotSet"

IsSet(id) == IsSetIndex(MappedToIndex(window, id))

\* IsSet reads a flag, and extends the ring to do so, only up to place count.
Probed(index) == 0 <= index /\ index <= count /\ index < ReceiveWindow

-----------------------------------------------------------------------------
\* A receiver that asks for the verdict and then drops the packet.
Probe(id) ==
    LET index == MappedToIndex(window, id)
    IN  /\ IF Probed(index) THEN BufferExtend(index) ELSE UNCHANGED buffers
        /\ UNCHANGED <<count, window>>

Set(id, item) ==
    LET index == MappedToIndex(window, id)
        start == ExtStart(index)
        local == IndexToLocal(start, ExtendTo(index), index)
        newLength == local - start + 1 + (IF local >= start THEN 0 ELSE ExtendTo(index))
    IN  /\ IsSetIndex(index) = "InWindowNotSet"
        /\ currentStart' = start
        /\ length' = ExtendTo(index)
        /\ ringBuffer' = [ExtBuffer(index) EXCEPT ![local] = item]
        /\ ringBufferSet' = [ExtBufferSet(index) EXCEPT ![local] = TRUE]
        /\ count' = MaxOf(count, newLength)
        /\ UNCHANGED window

\* TryPeekStart(0) finds a packet.
HasFirst == count > 0 /\ ringBufferSet[currentStart]

BufferPopKeepsFlag ==               \* mutant: the slot of a taken packet stays set
    /\ ringBuffer' = [ringBuffer EXCEPT ![currentStart] = Default]
    /\ currentStart' = (currentStart + 1) % length
    /\ count' = count - 1
    /\ UNCHANGED <<length, ringBufferSet>>

BufferPop ==
    /\ ringBufferSet' = [ringBufferSet EXCEPT ![currentStart] = FALSE]
    /\ ringBuffer' = [ringBuffer EXCEPT ![currentStart] = Default]
    /\ currentStart' = (currentStart + 1) % length
    /\ count' = count - 1
    /\ UNCHANGED length

TryDequeue ==
    /\ HasFirst
    /\ Advance(window, 1).gen <= MaxGeneration
    /\ BufferPop
    /\ window' = Advance(window, 1)

ClearKeepsFlags ==                  \* mutant: the flags survive a reconnect
    /\ currentStart' = 0
    /\ count' = 0
    /\ window' = Reset
    /\ UNCHANGED <<ringBuffer, ringBufferSet, length>>

\* A new connection on the same handler.  The ring keeps its size and its packets;
\* only the flags are cleared.
Clear ==
    /\ currentStart' = 0
    /\ count' = 0
    /\ ringBufferSet' = [s \in Slots |-> FALSE]
    /\ window' = Reset
    /\ UNCHANGED <<ringBuffer, length>>

Next ==
    \/ \E id \in Ids : Probe(id)
    \/ \E id \in Ids, item \in Item : Set(id, item)
    \/ TryDequeue
    \/ Clear

Spec == Init /\ [][Next]_vars

-----------------------------------------------------------------------------
\* The packet that waits at a place, as TryPeekStart shows it.
Local(index) == IndexToLocal(currentStart, length, index)

Flat ==
    [i \in 0 .. ReceiveWindow - 1 |->
        IF i < count /\ ringBufferSet[Local(i)] THEN ringBuffer[Local(i)] ELSE Default]

Q == INSTANCE ReceiveQueue WITH flat <- Flat, Empty <- Default

\* The fields have their types; the ring never outgrows the window, count never
\* outgrows the ring, and a slot with its flag up holds a packet: growth moves flags
\* and packets together (RingQueue.BufferExtend, BufferSet and BufferPop).
TypeOK ==
    /\ length \in 1 .. ReceiveWindow
    /\ currentStart \in Slots
    /\ ringBuffer \in [Slots -> Item \cup {Default}]
    /\ ringBufferSet \in [Slots -> BOOLEAN]
    /\ count \in 0 .. length
    /\ window \in Window
    /\ \A s \in Slots : ringBufferSet[s] => ringBuffer[s] \in Item

\* A slot beyond the last packet never keeps the flag of a packet that was taken:
\* IsSetIndex reads place count, and the next growth carries every flag along.
NoStaleFlag == \A i \in Slots : i >= count => ~ringBufferSet[Local(i)]

\* The verdict that ReceiveCommand acts on, computed by the code from the ring and
\* count, is the one the flat window gives for every id, before and after growth
\* and across a wrap of the ids.
StatusTruthful == \A id \in Ids : IsSet(id) = Q!IsSet(id)

\* The ring implements the receive queue: packets leave it in the order of their
\* numbers, each once, whatever order they arrived in.
ImplementsReceiveQueue == Q!Spec

\* The diagram at the end of RingQueue.cs: what lies left of the window is
\* "OutOfWindowSet", the verdict for which ReceiveCommand repeats the ack.
ConsumedIsSet ==
    \A k \in 1 .. MinOf(ReceiveWindow, Mod - ReceiveWindow) :
        k <= Position(window) => IsSet((window.base - k) % Mod) = "OutOfWindowSet"
=============================================================================
