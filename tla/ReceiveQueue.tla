---------------------------- MODULE ReceiveQueue ----------------------------
(***************************************************************************)
(* What the receive queue of a command channel promises: the window of ids *)
(* it accepts and, for each place of the window, the packet that waits     *)
(* there.  It is the "flat [0 - size] array" that TSLib/Full/RingQueue.cs  *)
(* maps its ring to; module RingQueue shows that the ring implements it.   *)
(***************************************************************************)
EXTENDS GenerationWindow

CONSTANTS
    Item,           \* the packets that may be queued
    Empty           \* marks a place that holds no packet; not in Item

VARIABLES
    window,         \* the ids the queue accepts, from its first place on
    flat            \* flat[i]: the packet i places behind the first one

vars == <<window, flat>>

Places == 0 .. ReceiveWindow - 1

TypeOK ==
    /\ window \in Window
    /\ flat \in [Places -> Item \cup {Empty}]

Init ==
    /\ window = Reset
    /\ flat = [i \in Places |-> Empty]

-----------------------------------------------------------------------------
\* The verdict on an id, ItemSetStatus in the code.
OutOfWindowSet == "OutOfWindowSet"          \* already taken from the queue
OutOfWindowNotSet == "OutOfWindowNotSet"    \* not yet acceptable
InWindowSet == "InWindowSet"
InWindowNotSet == "InWindowNotSet"

IsSet(id) ==
    LET index == MappedToIndex(window, id)
    IN  IF index < 0 THEN OutOfWindowSet
        ELSE IF index >= ReceiveWindow THEN OutOfWindowNotSet
        ELSE IF flat[index] = Empty THEN InWindowNotSet ELSE InWindowSet

Set(id, item) ==
    /\ IsSet(id) = InWindowNotSet
    /\ flat' = [flat EXCEPT ![MappedToIndex(window, id)] = item]
    /\ UNCHANGED window

Shifted(f) == [i \in Places |-> IF i + 1 \in Places THEN f[i + 1] ELSE Empty]

Dequeue ==
    /\ flat[0] # Empty
    /\ flat' = Shifted(flat)
    /\ window' = Advance(window, 1)

Clear ==
    /\ window' = Reset
    /\ flat' = [i \in Places |-> Empty]

Next ==
    \/ \E id \in Ids, item \in Item : Set(id, item)
    \/ Dequeue
    \/ Clear

Spec == Init /\ [][Next]_vars
=============================================================================
