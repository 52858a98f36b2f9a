-------------------------- MODULE GenerationWindow --------------------------
(***************************************************************************)
(* The sliding window of TSLib/Full/GenerationWindow.cs.  Packet ids are   *)
(* 16 bit counters that wrap; both ends count the wraps (the generation),  *)
(* because the key a packet is encrypted with depends on it, but only the  *)
(* id travels.  The receiver guesses the generation of an id from the      *)
(* window it currently accepts.                                            *)
(***************************************************************************)
EXTENDS Integers

CONSTANTS
    Mod,            \* number of ids in one generation: ushort.MaxValue + 1
    ReceiveWindow   \* ids accepted from the base on: 128 for the command queues,
                    \* Mod / 2 for the voice windows

ASSUME WindowAssumption ==
    /\ Mod \in Nat
    /\ ReceiveWindow \in Nat
    /\ 0 < ReceiveWindow
    /\ ReceiveWindow < Mod

Ids == 0 .. Mod - 1

Window == [base : Ids, gen : Nat]

Reset == [base |-> 0, gen |-> 0]

\* The id lies past the wrap, yet within the window.
IsNextGen(w, id) ==
    /\ w.base > Mod - ReceiveWindow
    /\ id < (w.base + ReceiveWindow) - Mod

GetGeneration(w, id) == IF IsNextGen(w, id) THEN w.gen + 1 ELSE w.gen

IsInWindow(w, id) ==
    IF w.base + ReceiveWindow < Mod
    THEN id >= w.base /\ id < w.base + ReceiveWindow
    ELSE id >= w.base \/ id < (w.base + ReceiveWindow) - Mod

\* The place of the id counted from the base of the window.
MappedToIndex(w, id) ==
    IF IsNextGen(w, id) THEN (id + Mod) - w.base ELSE id - w.base

\* amount is in 0 .. Mod (the code throws otherwise), hence at most one wrap:
\* base + amount < 2 * Mod.
Advance(w, amount) ==
    IF w.base + amount >= Mod
    THEN [base |-> (w.base + amount) - Mod, gen |-> w.gen + 1]
    ELSE [base |-> w.base + amount, gen |-> w.gen]

\* The number of a packet counted from the first one of the connection.
Number(gen, id) == gen * Mod + id

Position(w) == Number(w.gen, w.base)
=============================================================================
