--------------------------- MODULE RingQueueProofs --------------------------
(***************************************************************************)
(* The ring of RingQueue.cs implements the receive queue, for every size   *)
(* of the window, of the ids and of the initial ring.                      *)
(*                                                                         *)
(* TypeOK alone is not inductive: BufferPop lowers count, and a flag left  *)
(* up behind the last packet would come back as a packet when count grows. *)
(* TypeOK /\ NoStaleFlag is.                                               *)
(***************************************************************************)
EXTENDS RingQueue, TLAPS

-----------------------------------------------------------------------------
(* The window *)

\* The index is the distance, in numbers, from the base of the window to the packet
\* the receiver takes the id for.
LEMMA IndexIsDistance ==
    ASSUME NEW w \in Window, NEW id \in Ids
    PROVE  /\ MappedToIndex(w, id) \in Int
           /\ Number(GetGeneration(w, id), id) = Position(w) + MappedToIndex(w, id)
<1>1. w.gen \in Nat /\ w.base \in Ids
    BY DEF Window
<1>2. w.gen * Mod \in Int /\ (w.gen + 1) * Mod = w.gen * Mod + Mod
    BY <1>1, WindowAssumption, SMT
<1>3. MappedToIndex(w, id) \in Int
    BY <1>1, WindowAssumption, SMT DEF MappedToIndex, Ids
<1>4. CASE IsNextGen(w, id)
    BY <1>1, <1>2, <1>3, <1>4, WindowAssumption, SMT
    DEF Number, Position, MappedToIndex, GetGeneration, Ids
<1>5. CASE ~IsNextGen(w, id)
    BY <1>1, <1>2, <1>3, <1>5, WindowAssumption, SMT
    DEF Number, Position, MappedToIndex, GetGeneration, Ids
<1> QED BY <1>3, <1>4, <1>5

\* Advance moves the window by as many numbers, whether or not the base wraps.
LEMMA AdvanceMoves ==
    ASSUME NEW w \in Window, NEW amount \in 0 .. Mod
    PROVE  /\ Advance(w, amount) \in Window
           /\ Position(Advance(w, amount)) = Position(w) + amount
<1>1. w.gen \in Nat /\ w.base \in Ids
    BY DEF Window
<1>2. w.gen * Mod \in Int /\ (w.gen + 1) * Mod = w.gen * Mod + Mod
    BY <1>1, WindowAssumption, SMT
<1>3. CASE w.base + amount >= Mod
    BY <1>1, <1>2, <1>3, WindowAssumption, SMT DEF Advance, Window, Ids, Position, Number
<1>4. CASE ~(w.base + amount >= Mod)
    BY <1>1, <1>2, <1>4, WindowAssumption, SMT DEF Advance, Window, Ids, Position, Number
<1> QED BY <1>3, <1>4

-----------------------------------------------------------------------------
(* What the ring keeps *)

Inv == TypeOK /\ NoStaleFlag

-----------------------------------------------------------------------------
(* The ring as a flat array *)

LEMMA ModOnce ==
    ASSUME NEW size \in Nat \ {0}, NEW k \in 0 .. 2 * size - 1
    PROVE  /\ k < size => k % size = k
           /\ k >= size => k % size = k - size
BY SMT

\* The slot of a place, without the modulo.
LEMMA LocalPlace ==
    ASSUME NEW size \in Nat \ {0}, NEW start \in 0 .. size - 1, NEW i \in 0 .. size - 1
    PROVE  /\ IndexToLocal(start, size, i) \in 0 .. size - 1
           /\ start + i < size => IndexToLocal(start, size, i) = start + i
           /\ start + i >= size => IndexToLocal(start, size, i) = start + i - size
<1>1. PICK k \in 0 .. 2 * size - 1 : k = start + i
    BY SMT
<1>2. /\ k < size => k % size = k
      /\ k >= size => k % size = k - size
    BY ModOnce
<1>3. IndexToLocal(start, size, i) = k % size
    BY <1>1 DEF IndexToLocal
<1> QED BY <1>1, <1>2, <1>3, SMT

\* Two places of a ring have different slots.
LEMMA LocalInjective ==
    ASSUME NEW size \in Nat \ {0}, NEW start \in 0 .. size - 1,
           NEW i \in 0 .. size - 1, NEW j \in 0 .. size - 1,
           IndexToLocal(start, size, i) = IndexToLocal(start, size, j)
    PROVE  i = j
<1>1. /\ start + i < size => IndexToLocal(start, size, i) = start + i
      /\ start + i >= size => IndexToLocal(start, size, i) = start + i - size
    BY LocalPlace
<1>2. /\ start + j < size => IndexToLocal(start, size, j) = start + j
      /\ start + j >= size => IndexToLocal(start, size, j) = start + j - size
    BY LocalPlace
<1> QED BY <1>1, <1>2, SMT

\* BufferExtend makes room for the place and moves no packet to another place; the
\* places it adds are free.
LEMMA Extension ==
    ASSUME TypeOK, NEW index \in 0 .. ReceiveWindow - 1
    PROVE  /\ ExtendTo(index) \in length .. ReceiveWindow
           /\ index < ExtendTo(index)
           /\ ExtStart(index) \in 0 .. ExtendTo(index) - 1
           /\ ExtBuffer(index) \in [0 .. ExtendTo(index) - 1 -> Item \cup {Default}]
           /\ ExtBufferSet(index) \in [0 .. ExtendTo(index) - 1 -> BOOLEAN]
           /\ \A i \in 0 .. ExtendTo(index) - 1 :
                LET local == IndexToLocal(ExtStart(index), ExtendTo(index), i)
                IN  IF i < length
                    THEN /\ ExtBuffer(index)[local] = ringBuffer[Local(i)]
                         /\ ExtBufferSet(index)[local] = ringBufferSet[Local(i)]
                    ELSE /\ ExtBuffer(index)[local] = Default
                         /\ ExtBufferSet(index)[local] = FALSE
           /\ \A s \in 0 .. ExtendTo(index) - 1 :
                ExtBufferSet(index)[s] => ExtBuffer(index)[s] \in Item
<1>1. length \in Nat \ {0} /\ length <= ReceiveWindow /\ currentStart \in Slots
    BY WindowAssumption, SMT DEF TypeOK
<1>2. CASE index < length
    <2>1. /\ ExtendTo(index) = length
          /\ ExtStart(index) = currentStart
          /\ ExtBuffer(index) = ringBuffer
          /\ ExtBufferSet(index) = ringBufferSet
        BY <1>2 DEF ExtendTo, ExtStart, ExtBuffer, ExtBufferSet, Ext
    <2> QED BY <1>1, <1>2, <2>1, WindowAssumption, SMT DEF TypeOK, Slots, Local
<1>3. CASE ~(index < length)
    <2>1. /\ ExtendTo(index) \in length .. ReceiveWindow
          /\ index < ExtendTo(index)
        BY <1>1, <1>3, WindowAssumption, SMT DEF ExtendTo, MinOf
    <2>2. ExtStart(index) = 0
        BY <1>3 DEF ExtStart
    <2>3. \A i \in Slots : Local(i) \in Slots
        BY <1>1, LocalPlace, SMT DEF Slots, Local
    <2>4. /\ ExtBuffer(index) = [s \in 0 .. ExtendTo(index) - 1 |->
                                    IF s \in Slots THEN ringBuffer[Local(s)] ELSE Default]
          /\ ExtBufferSet(index) = [s \in 0 .. ExtendTo(index) - 1 |->
                                    IF s \in Slots THEN ringBufferSet[Local(s)] ELSE FALSE]
        BY <1>3 DEF ExtBuffer, ExtBufferSet, Ext, Local
    <2>5. \A i \in 0 .. ExtendTo(index) - 1 :
            IndexToLocal(ExtStart(index), ExtendTo(index), i) = i
        BY <1>1, <2>1, <2>2, LocalPlace, WindowAssumption, SMT
    <2>6. \A s \in Slots : /\ ringBuffer[Local(s)] \in Item \cup {Default}
                           /\ ringBufferSet[Local(s)] \in BOOLEAN
                           /\ ringBufferSet[Local(s)] => ringBuffer[Local(s)] \in Item
        BY <2>3, Zenon DEF TypeOK
    <2>7. ExtBuffer(index) \in [0 .. ExtendTo(index) - 1 -> Item \cup {Default}]
        BY <2>4, <2>6
    <2>8. ExtBufferSet(index) \in [0 .. ExtendTo(index) - 1 -> BOOLEAN]
        BY <2>4, <2>6
    <2>9. \A s \in 0 .. ExtendTo(index) - 1 :
            ExtBufferSet(index)[s] => ExtBuffer(index)[s] \in Item
        BY <2>4, <2>6
    <2>10. \A i \in 0 .. ExtendTo(index) - 1 :
            LET local == IndexToLocal(ExtStart(index), ExtendTo(index), i)
            IN  IF i < length
                THEN /\ ExtBuffer(index)[local] = ringBuffer[Local(i)]
                     /\ ExtBufferSet(index)[local] = ringBufferSet[Local(i)]
                ELSE /\ ExtBuffer(index)[local] = Default
                     /\ ExtBufferSet(index)[local] = FALSE
        <3> SUFFICES ASSUME NEW i \in 0 .. ExtendTo(index) - 1
            PROVE IF i < length
                  THEN /\ ExtBuffer(index)[i] = ringBuffer[Local(i)]
                       /\ ExtBufferSet(index)[i] = ringBufferSet[Local(i)]
                  ELSE /\ ExtBuffer(index)[i] = Default
                       /\ ExtBufferSet(index)[i] = FALSE
            BY <2>5
        <3>1. i < length <=> i \in Slots
            BY <1>1, <2>1, SMT DEF Slots
        <3> QED BY <2>4, <3>1
    <2>11. ExtStart(index) \in 0 .. ExtendTo(index) - 1
        BY <2>1, <2>2, SMT
    <2> QED BY <2>1, <2>7, <2>8, <2>9, <2>10, <2>11
<1> QED BY <1>2, <1>3

-----------------------------------------------------------------------------
(* The invariant *)

LEMMA InitInv == Init => Inv
<1> SUFFICES ASSUME Init PROVE Inv
    OBVIOUS
<1>1. length \in 1 .. ReceiveWindow
    BY WindowAssumption, RingAssumption, SMT DEF Init, MinOf
<1>2. Reset \in Window
    BY WindowAssumption, SMT DEF Reset, Window, Ids
<1>3. \A i \in Slots : Local(i) \in Slots
    BY <1>1, LocalPlace, SMT DEF Init, Local, Slots
<1>4. TypeOK
    BY <1>1, <1>2, SMT DEF Init, TypeOK, Slots
<1>5. NoStaleFlag
    BY <1>3 DEF Init, NoStaleFlag
<1> QED BY <1>4, <1>5 DEF Inv

\* Growth alone, as a Probe may cause it.
LEMMA ExtendInv ==
    ASSUME Inv, NEW index \in 0 .. ReceiveWindow - 1,
           BufferExtend(index), UNCHANGED <<count, window>>
    PROVE  Inv' /\ Flat' = Flat
<1>1. length \in Nat \ {0} /\ count \in 0 .. length
    BY WindowAssumption, SMT DEF Inv, TypeOK
<1>2. /\ length' = ExtendTo(index)
      /\ currentStart' = ExtStart(index)
      /\ ringBuffer' = ExtBuffer(index)
      /\ ringBufferSet' = ExtBufferSet(index)
    BY DEF BufferExtend
<1>3. length' \in length .. ReceiveWindow
    BY <1>2, Extension DEF Inv
<1>4. TypeOK'
    <2>1. count' \in 0 .. length'
        BY <1>1, <1>3, SMT
    <2>2. length' \in 1 .. ReceiveWindow
        BY <1>1, <1>3, SMT
    <2>3. window' \in Window
        BY DEF Inv, TypeOK
    <2> QED BY <1>2, <2>1, <2>2, <2>3, Extension DEF Inv, TypeOK, Slots
<1>5. ASSUME NEW i \in 0 .. length' - 1
      PROVE  IF i < length
             THEN ringBuffer'[Local(i)'] = ringBuffer[Local(i)] /\
                  ringBufferSet'[Local(i)'] = ringBufferSet[Local(i)]
             ELSE ringBuffer'[Local(i)'] = Default /\ ringBufferSet'[Local(i)'] = FALSE
    BY <1>2, <1>5, Extension DEF Inv, Local
<1>6. NoStaleFlag'
    <2> SUFFICES ASSUME NEW i \in 0 .. length' - 1, i >= count
                 PROVE  ~ringBufferSet'[Local(i)']
        BY DEF NoStaleFlag, Slots
    <2>1. CASE i < length
        <3>1. i \in Slots
            BY <1>1, <1>3, <2>1, SMT DEF Slots
        <3> QED BY <1>5, <2>1, <3>1 DEF Inv, NoStaleFlag
    <2>2. CASE ~(i < length)
        BY <1>5, <2>2
    <2> QED BY <2>1, <2>2
<1>7. Flat' = Flat
    <2>1. ASSUME NEW i \in 0 .. ReceiveWindow - 1, i < count
          PROVE  ringBuffer'[Local(i)'] = ringBuffer[Local(i)] /\
                 ringBufferSet'[Local(i)'] = ringBufferSet[Local(i)]
        <3>1. i < length
            BY <1>1, <2>1, WindowAssumption, SMT
        <3>2. PICK size \in Nat : size = length' /\ length <= size
            BY <1>1, <1>3, WindowAssumption, SMT
        <3>3. i \in 0 .. size - 1
            <4>1. i \in Nat
                BY WindowAssumption, SMT
            <4>2. length \in Nat
                BY <1>1, SMT
            <4>3. i < size
                BY <3>1, <3>2, <4>1, <4>2, SMT
            <4> QED BY <4>1, <4>3, SMT
        <3> QED BY <1>5, <3>1, <3>2, <3>3
    <2> QED BY <2>1 DEF Flat
<1> QED BY <1>4, <1>6, <1>7 DEF Inv

LEMMA ProbeInv ==
    ASSUME Inv, NEW id \in Ids, Probe(id)
    PROVE  Inv' /\ Flat' = Flat /\ window' = window
<1> DEFINE index == MappedToIndex(window, id)
<1>1. CASE Probed(index)
    <2>1. index \in 0 .. ReceiveWindow - 1
        <3>1. index \in Int
            BY IndexIsDistance DEF Inv, TypeOK
        <3> QED BY <1>1, <3>1, WindowAssumption, SMT DEF Probed
    <2>2. BufferExtend(index) /\ UNCHANGED <<count, window>>
        BY <1>1 DEF Probe
    <2> HIDE DEF index
    <2> QED BY <2>1, <2>2, ExtendInv
<1>2. CASE ~Probed(index)
    <2>1. UNCHANGED vars
        BY <1>2 DEF Probe, vars, buffers
    <2> QED BY <2>1 DEF Inv, TypeOK, NoStaleFlag, Flat, vars, Slots, Local
<1> QED BY <1>1, <1>2

\* A place the verdict calls free: it is in the window, and its flag is down.
LEMMA FreePlace ==
    ASSUME Inv, NEW index \in Int, IsSetIndex(index) = "InWindowNotSet"
    PROVE  /\ index \in 0 .. ReceiveWindow - 1
           /\ index < count =>
                ExtBufferSet(index)[IndexToLocal(ExtStart(index), ExtendTo(index), index)] = FALSE
<1>1. count \in Nat /\ ReceiveWindow \in Nat
    BY WindowAssumption, SMT DEF Inv, TypeOK
<1>2. index \in 0 .. ReceiveWindow - 1
    BY <1>1, SMT DEF IsSetIndex
<1>3. ASSUME index < count
      PROVE  ExtBufferSet(index)[IndexToLocal(ExtStart(index), ExtendTo(index), index)] = FALSE
    <2>1. ~StateGet(index)
        BY <1>1, <1>2, <1>3, SMT DEF IsSetIndex
    <2>2. ExtBufferSet(index)[IndexToLocal(ExtStart(index), ExtendTo(index), index)] \in BOOLEAN
        <3>1. index \in 0 .. length - 1 /\ length \in Nat \ {0}
            BY <1>2, <1>3, WindowAssumption, SMT DEF Inv, TypeOK
        <3>2. IndexToLocal(ExtStart(index), ExtendTo(index), index)
                \in 0 .. ExtendTo(index) - 1
            <4>1. /\ ExtendTo(index) \in Nat \ {0}
                  /\ index \in 0 .. ExtendTo(index) - 1
                  /\ ExtStart(index) \in 0 .. ExtendTo(index) - 1
                <5>1. /\ ExtendTo(index) \in length .. ReceiveWindow
                      /\ index < ExtendTo(index)
                      /\ ExtStart(index) \in 0 .. ExtendTo(index) - 1
                    BY <1>2, Extension DEF Inv
                <5> QED BY <1>1, <1>2, <3>1, <5>1, SMT
            <4> QED BY <4>1, LocalPlace
        <3> QED BY <1>2, <3>2, Extension DEF Inv
    <2> QED BY <2>1, <2>2 DEF StateGet
<1> QED BY <1>2, <1>3

\* The new packet is at its place, and no other place changes.
LEMMA SetInv ==
    ASSUME Inv, NEW id \in Ids, NEW item \in Item, Set(id, item)
    PROVE  /\ Inv'
           /\ MappedToIndex(window, id) \in 0 .. ReceiveWindow - 1
           /\ Flat[MappedToIndex(window, id)] = Default
           /\ Flat' = [Flat EXCEPT ![MappedToIndex(window, id)] = item]
           /\ window' = window
<1>0. MappedToIndex(window, id) \in Int
    BY IndexIsDistance DEF Inv, TypeOK
<1>1. PICK index \in Int : index = MappedToIndex(window, id)
    BY <1>0
<1> DEFINE start == ExtStart(index)
           size == ExtendTo(index)
           local == IndexToLocal(start, size, index)
           newLength == local - start + 1 + (IF local >= start THEN 0 ELSE size)
<1>2. IsSetIndex(index) = "InWindowNotSet"
    BY <1>1 DEF Set
<1>3. /\ currentStart' = start
      /\ length' = size
      /\ ringBuffer' = [ExtBuffer(index) EXCEPT ![local] = item]
      /\ ringBufferSet' = [ExtBufferSet(index) EXCEPT ![local] = TRUE]
      /\ count' = MaxOf(count, newLength)
      /\ window' = window
    BY <1>1 DEF Set
<1>4. /\ index \in 0 .. ReceiveWindow - 1
      /\ index < count => ExtBufferSet(index)[local] = FALSE
    BY <1>1, <1>2, FreePlace
<1>5. length \in Nat \ {0} /\ count \in 0 .. length /\ ReceiveWindow \in Nat
    BY WindowAssumption, SMT DEF Inv, TypeOK
<1>6. /\ size \in length .. ReceiveWindow
      /\ index < size
      /\ start \in 0 .. size - 1
      /\ ExtBuffer(index) \in [0 .. size - 1 -> Item \cup {Default}]
      /\ ExtBufferSet(index) \in [0 .. size - 1 -> BOOLEAN]
      /\ \A s \in 0 .. size - 1 : ExtBufferSet(index)[s] => ExtBuffer(index)[s] \in Item
    BY <1>4, Extension DEF Inv
<1>7. ASSUME NEW i \in 0 .. size - 1
      PROVE  IF i < length
             THEN /\ ExtBuffer(index)[IndexToLocal(start, size, i)] = ringBuffer[Local(i)]
                  /\ ExtBufferSet(index)[IndexToLocal(start, size, i)] = ringBufferSet[Local(i)]
             ELSE /\ ExtBuffer(index)[IndexToLocal(start, size, i)] = Default
                  /\ ExtBufferSet(index)[IndexToLocal(start, size, i)] = FALSE
    BY <1>4, <1>7, Extension DEF Inv
<1> HIDE DEF start, size
<1>8. size \in Nat \ {0} /\ index \in 0 .. size - 1
    BY <1>4, <1>5, <1>6, SMT
<1>9. /\ local \in 0 .. size - 1
      /\ start + index < size => local = start + index
      /\ start + index >= size => local = start + index - size
    BY <1>6, <1>8, LocalPlace
<1>10. newLength = index + 1
    <2> HIDE DEF local
    <2> QED BY <1>6, <1>8, <1>9, SMT
<1>11. ASSUME NEW i \in 0 .. size - 1, i # index
       PROVE  /\ IndexToLocal(start, size, i) \in 0 .. size - 1
              /\ IndexToLocal(start, size, i) # local
    BY <1>6, <1>8, <1>11, LocalPlace, LocalInjective
<1> HIDE DEF local, newLength
<1>12. /\ count' \in 0 .. size
       /\ count' >= count
       /\ count' >= index + 1
       /\ count' = count \/ count' = index + 1
    BY <1>3, <1>5, <1>6, <1>8, <1>10, SMT DEF MaxOf
<1>13. ASSUME NEW i \in 0 .. size - 1, i # index
       PROVE  IF i < length
              THEN /\ ringBuffer'[Local(i)'] = ringBuffer[Local(i)]
                   /\ ringBufferSet'[Local(i)'] = ringBufferSet[Local(i)]
              ELSE /\ ringBuffer'[Local(i)'] = Default
                   /\ ringBufferSet'[Local(i)'] = FALSE
    <2>1. Local(i)' = IndexToLocal(start, size, i)
        BY <1>3 DEF Local
    <2>2. /\ ringBuffer'[Local(i)'] = ExtBuffer(index)[Local(i)']
          /\ ringBufferSet'[Local(i)'] = ExtBufferSet(index)[Local(i)']
        BY <1>3, <1>6, <1>9, <1>11, <1>13, <2>1
    <2> QED BY <1>7, <2>1, <2>2
<1>14. /\ Local(index)' = local
       /\ ringBuffer'[local] = item
       /\ ringBufferSet'[local] = TRUE
    <2>1. Local(index)' = local
        BY <1>3 DEF Local, local
    <2> QED BY <2>1, <1>3, <1>6, <1>9
<1>15. TypeOK'
    <2>1. length' \in 1 .. ReceiveWindow
        BY <1>3, <1>5, <1>6, <1>8, SMT
    <2>2. ringBuffer' \in [Slots' -> Item \cup {Default}]
        BY <1>3, <1>6, <1>9 DEF Slots
    <2>3. ringBufferSet' \in [Slots' -> BOOLEAN]
        BY <1>3, <1>6, <1>9 DEF Slots
    <2>4. ASSUME NEW s \in Slots', ringBufferSet'[s] PROVE ringBuffer'[s] \in Item
        <3>1. s \in 0 .. size - 1
            BY <1>3 DEF Slots
        <3>2. CASE s = local
            BY <1>14, <3>2
        <3>3. CASE s # local
            BY <1>3, <1>6, <1>9, <2>4, <3>1, <3>3
        <3> QED BY <3>2, <3>3
    <2>5. window' \in Window /\ count' \in 0 .. length' /\ currentStart' \in Slots'
        BY <1>3, <1>6, <1>12 DEF Inv, TypeOK, Slots
    <2> QED BY <2>1, <2>2, <2>3, <2>4, <2>5 DEF TypeOK
<1>16. NoStaleFlag'
    <2> SUFFICES ASSUME NEW i \in 0 .. size - 1, i >= count'
                 PROVE  ~ringBufferSet'[Local(i)']
        BY <1>3 DEF NoStaleFlag, Slots
    <2>1. i # index /\ i >= count
        BY <1>5, <1>8, <1>12, SMT
    <2>2. CASE i < length
        <3>1. i \in Slots
            BY <1>5, <1>8, <2>2, SMT DEF Slots
        <3> QED BY <1>13, <2>1, <2>2, <3>1 DEF Inv, NoStaleFlag
    <2>3. CASE ~(i < length)
        BY <1>13, <2>1, <2>3
    <2> QED BY <2>2, <2>3
<1>17. Flat[index] = Default
    <2>1. CASE index < count
        <3>1. index < length
            BY <1>4, <1>5, <2>1, SMT
        <3>2. ringBufferSet[Local(index)] = FALSE
            BY <1>4, <1>7, <1>8, <2>1, <3>1 DEF local
        <3> QED BY <1>4, <3>2 DEF Flat
    <2>2. CASE ~(index < count)
        BY <1>4, <2>2 DEF Flat
    <2> QED BY <2>1, <2>2
<1>18. Flat' = [Flat EXCEPT ![index] = item]
    <2>1. Flat'[index] = item
        <3>1. index < count'
            BY <1>8, <1>12, SMT
        <3> QED BY <1>4, <1>14, <3>1 DEF Flat
    <2>2. ASSUME NEW i \in 0 .. ReceiveWindow - 1, i # index
          PROVE  Flat'[i] = Flat[i]
        <3>1. CASE i < count
            <4>1. i < count' /\ i \in 0 .. size - 1 /\ i < length
                BY <1>5, <1>6, <1>12, <3>1, SMT
            <4> QED BY <1>13, <2>2, <3>1, <4>1 DEF Flat
        <3>2. CASE ~(i < count)
            <4>1. Flat[i] = Default
                BY <3>2 DEF Flat
            <4>2. CASE i < count'
                <5>1. i \in 0 .. size - 1
                    BY <1>6, <1>8, <1>12, <4>2, SMT
                <5>2. ~ringBufferSet'[Local(i)']
                    <6>1. CASE i < length
                        <7>1. i \in Slots /\ i >= count
                            BY <1>5, <3>2, <6>1, SMT DEF Slots
                        <7> QED BY <1>13, <2>2, <5>1, <6>1, <7>1 DEF Inv, NoStaleFlag
                    <6>2. CASE ~(i < length)
                        BY <1>13, <2>2, <5>1, <6>2
                    <6> QED BY <6>1, <6>2
                <5> QED BY <4>1, <5>2 DEF Flat
            <4>3. CASE ~(i < count')
                BY <4>1, <4>3 DEF Flat
            <4> QED BY <4>2, <4>3
        <3> QED BY <3>1, <3>2
    <2> QED BY <1>4, <2>1, <2>2 DEF Flat
<1> QED BY <1>1, <1>3, <1>4, <1>15, <1>16, <1>17, <1>18 DEF Inv

\* The packet that leaves is the first one, and every other moves up one place.
LEMMA DequeueInv ==
    ASSUME Inv, TryDequeue
    PROVE  /\ Inv'
           /\ Flat[0] # Default
           /\ Flat' = Q!Shifted(Flat)
           /\ window' = Advance(window, 1)
<1>1. /\ length \in Nat \ {0} /\ length <= ReceiveWindow
      /\ count \in 1 .. length
      /\ currentStart \in 0 .. length - 1
      /\ ReceiveWindow \in Nat
    BY WindowAssumption, SMT DEF Inv, TypeOK, TryDequeue, HasFirst, Slots
<1>2. /\ length' = length
      /\ count' = count - 1
      /\ currentStart' = (currentStart + 1) % length
      /\ ringBuffer' = [ringBuffer EXCEPT ![currentStart] = Default]
      /\ ringBufferSet' = [ringBufferSet EXCEPT ![currentStart] = FALSE]
      /\ window' = Advance(window, 1)
    BY DEF TryDequeue, BufferPop
<1>3. /\ currentStart' \in 0 .. length - 1
      /\ currentStart + 1 < length => currentStart' = currentStart + 1
      /\ currentStart + 1 >= length => currentStart' = 0
    <2>1. PICK k \in 0 .. 2 * length - 1 : k = currentStart + 1
        BY <1>1, SMT
    <2>2. /\ k < length => k % length = k
          /\ k >= length => k % length = k - length
        BY <1>1, ModOnce
    <2>3. currentStart' = k % length
        BY <1>2, <2>1
    <2> QED BY <1>1, <2>1, <2>2, <2>3, SMT
<1>4. Local(0) = currentStart
    BY <1>1, LocalPlace, SMT DEF Local
<1>5. ASSUME NEW i \in 0 .. length - 1, i + 1 < length
      PROVE  /\ Local(i)' = Local(i + 1)
             /\ Local(i + 1) \in 0 .. length - 1
             /\ Local(i + 1) # currentStart
    <2>1. PICK j \in 0 .. length - 1 : j = i + 1
        BY <1>1, <1>5, SMT
    <2>2. /\ Local(j) \in 0 .. length - 1
          /\ currentStart + j < length => Local(j) = currentStart + j
          /\ currentStart + j >= length => Local(j) = currentStart + j - length
        BY <1>1, LocalPlace DEF Local
    <2>3. PICK start \in 0 .. length - 1 : start = currentStart'
        BY <1>3
    <2>4. /\ IndexToLocal(start, length, i) \in 0 .. length - 1
          /\ start + i < length => IndexToLocal(start, length, i) = start + i
          /\ start + i >= length => IndexToLocal(start, length, i) = start + i - length
        BY <1>1, LocalPlace
    <2>5. /\ currentStart + 1 < length => start = currentStart + 1
          /\ currentStart + 1 >= length => start = 0
        BY <1>3, <2>3
    <2>6. IndexToLocal(start, length, i) = Local(j)
        BY <1>1, <2>1, <2>2, <2>4, <2>5, SMT
    <2>7. Local(i)' = Local(j)
        BY <1>2, <2>3, <2>6 DEF Local
    <2>8. Local(j) # currentStart
        BY <1>1, <1>5, <2>1, <2>2, SMT
    <2> QED BY <2>1, <2>2, <2>7, <2>8
<1>6. Local(length - 1)' = currentStart
    <2>1. PICK last \in 0 .. length - 1 : last = length - 1
        BY <1>1, SMT
    <2>2. PICK start \in 0 .. length - 1 : start = currentStart'
        BY <1>3
    <2>3. /\ start + last < length => IndexToLocal(start, length, last) = start + last
          /\ start + last >= length => IndexToLocal(start, length, last) = start + last - length
        BY <1>1, LocalPlace
    <2>4. /\ currentStart + 1 < length => start = currentStart + 1
          /\ currentStart + 1 >= length => start = 0
        BY <1>3, <2>2
    <2>5. IndexToLocal(start, length, last) = currentStart
        BY <1>1, <2>1, <2>3, <2>4, SMT
    <2> QED BY <1>2, <2>1, <2>2, <2>5 DEF Local
<1>7. TypeOK'
    <2>1. ringBuffer' \in [Slots' -> Item \cup {Default}]
        BY <1>1, <1>2 DEF Inv, TypeOK, Slots
    <2>2. ringBufferSet' \in [Slots' -> BOOLEAN]
        BY <1>1, <1>2 DEF Inv, TypeOK, Slots
    <2>3. \A s \in Slots' : ringBufferSet'[s] => ringBuffer'[s] \in Item
        BY <1>1, <1>2 DEF Inv, TypeOK, Slots
    <2>4. window' \in Window
        <3>1. 1 \in 0 .. Mod
            BY WindowAssumption, SMT
        <3> QED BY <1>2, <3>1, AdvanceMoves DEF Inv, TypeOK
    <2>5. /\ length' \in 1 .. ReceiveWindow
          /\ currentStart' \in Slots'
          /\ count' \in 0 .. length'
        <3>1. count - 1 \in 0 .. length /\ length \in 1 .. ReceiveWindow
            BY <1>1, SMT
        <3> QED BY <1>2, <1>3, <3>1 DEF Slots
    <2> QED BY <2>1, <2>2, <2>3, <2>4, <2>5 DEF TypeOK
<1>8. NoStaleFlag'
    <2> SUFFICES ASSUME NEW i \in 0 .. length - 1, i >= count - 1
                 PROVE  ~ringBufferSet'[Local(i)']
        BY <1>2 DEF NoStaleFlag, Slots
    <2>1. CASE i + 1 < length
        <3>1. PICK j \in Slots : j = i + 1 /\ j >= count
            BY <1>1, <2>1, SMT DEF Slots
        <3>2. ~ringBufferSet[Local(j)]
            BY <3>1 DEF Inv, NoStaleFlag
        <3>3. Local(i)' = Local(j) /\ Local(j) \in 0 .. length - 1 /\ Local(j) # currentStart
            BY <1>5, <2>1, <3>1
        <3>4. ringBufferSet'[Local(j)] = ringBufferSet[Local(j)]
            BY <1>2, <3>3 DEF Inv, TypeOK, Slots
        <3> QED BY <3>2, <3>3, <3>4
    <2>2. CASE ~(i + 1 < length)
        <3>1. i = length - 1
            BY <1>1, <2>2, SMT
        <3>2. Local(i)' = currentStart
            BY <1>2, <1>6, <3>1 DEF Local
        <3> QED BY <1>1, <1>2, <3>2 DEF Inv, TypeOK, Slots
    <2> QED BY <2>1, <2>2
<1>9. Flat[0] # Default
    <2>1. Flat[0] = ringBuffer[currentStart]
        <3>1. 0 < count /\ 0 \in 0 .. ReceiveWindow - 1
            BY <1>1, SMT
        <3> QED BY <1>4, <3>1 DEF Flat, TryDequeue, HasFirst
    <2> QED BY <2>1, RingAssumption DEF Inv, TypeOK, TryDequeue, HasFirst
<1>10. Flat' = Q!Shifted(Flat)
    <2>1. ASSUME NEW i \in 0 .. ReceiveWindow - 1
          PROVE  Flat'[i] = IF i + 1 \in 0 .. ReceiveWindow - 1 THEN Flat[i + 1] ELSE Default
        <3>1. PICK j \in Nat : j = i + 1
            BY <1>1, SMT
        <3>2. CASE j < count
            <4>1. i \in 0 .. length - 1 /\ i + 1 < length /\ i < count - 1
                BY <1>1, <3>1, <3>2, SMT
            <4>2. j \in 0 .. ReceiveWindow - 1
                BY <1>1, <3>1, <3>2, SMT
            <4>3. Local(i)' = Local(j) /\ Local(j) \in 0 .. length - 1 /\ Local(j) # currentStart
                BY <1>5, <3>1, <4>1
            <4>4. /\ ringBuffer'[Local(j)] = ringBuffer[Local(j)]
                  /\ ringBufferSet'[Local(j)] = ringBufferSet[Local(j)]
                BY <1>2, <4>3 DEF Inv, TypeOK, Slots
            <4>5. Flat'[i] = IF ringBufferSet[Local(j)] THEN ringBuffer[Local(j)] ELSE Default
                BY <1>2, <4>1, <4>3, <4>4 DEF Flat
            <4>6. Flat[j] = IF ringBufferSet[Local(j)] THEN ringBuffer[Local(j)] ELSE Default
                BY <3>2, <4>2 DEF Flat
            <4> QED BY <3>1, <4>2, <4>5, <4>6
        <3>3. CASE ~(j < count)
            <4>1. ~(i < count - 1)
                BY <1>1, <3>1, <3>3, SMT
            <4>2. Flat'[i] = Default
                BY <1>2, <4>1 DEF Flat
            <4>3. j \in 0 .. ReceiveWindow - 1 => Flat[j] = Default
                BY <3>3 DEF Flat
            <4> QED BY <3>1, <4>2, <4>3
        <3> QED BY <3>2, <3>3
    <2> QED BY <2>1 DEF Flat, Q!Shifted, Q!Places
<1> QED BY <1>2, <1>7, <1>8, <1>9, <1>10 DEF Inv

\* Clear leaves an empty queue, although the ring keeps its packets.
LEMMA ClearInv ==
    ASSUME Inv, Clear
    PROVE  /\ Inv'
           /\ Flat' = [i \in 0 .. ReceiveWindow - 1 |-> Default]
           /\ window' = Reset
<1>1. length \in Nat \ {0} /\ length \in 1 .. ReceiveWindow
    BY WindowAssumption, SMT DEF Inv, TypeOK
<1>2. /\ length' = length /\ currentStart' = 0 /\ count' = 0
      /\ ringBuffer' = ringBuffer
      /\ ringBufferSet' = [s \in Slots |-> FALSE]
      /\ window' = Reset
    BY DEF Clear
<1>3. \A i \in Slots : Local(i)' \in Slots
    BY <1>1, <1>2, LocalPlace, SMT DEF Slots, Local
<1>4. TypeOK'
    <2>1. Reset \in Window
        BY WindowAssumption, SMT DEF Reset, Window, Ids
    <2>2. 0 \in Slots /\ 0 \in 0 .. length
        BY <1>1, SMT DEF Slots
    <2> QED BY <1>1, <1>2, <2>1, <2>2 DEF Inv, TypeOK, Slots
<1>5. NoStaleFlag'
    BY <1>2, <1>3 DEF NoStaleFlag, Slots
<1>6. Flat' = [i \in 0 .. ReceiveWindow - 1 |-> Default]
    <2>1. \A i \in 0 .. ReceiveWindow - 1 : ~(i < 0)
        BY <1>1, SMT
    <2> QED BY <1>2, <2>1 DEF Flat
<1> QED BY <1>2, <1>4, <1>5, <1>6 DEF Inv

LEMMA NextInv == Inv /\ [Next]_vars => Inv'
<1> SUFFICES ASSUME Inv, [Next]_vars PROVE Inv'
    OBVIOUS
<1>1. CASE \E id \in Ids : Probe(id)
    BY <1>1, ProbeInv
<1>2. CASE \E id \in Ids, item \in Item : Set(id, item)
    BY <1>2, SetInv
<1>3. CASE TryDequeue
    BY <1>3, DequeueInv
<1>4. CASE Clear
    BY <1>4, ClearInv
<1>5. CASE UNCHANGED vars
    BY <1>5 DEF vars, Inv, TypeOK, NoStaleFlag, Slots, Local
<1> QED BY <1>1, <1>2, <1>3, <1>4, <1>5 DEF Next

LEMMA Inductive == Spec => []Inv
<1> QED BY InitInv, NextInv, PTL DEF Spec

-----------------------------------------------------------------------------
(* What follows from it *)

\* The fields keep their types, the ring stays within the window, count within the
\* ring, and a raised flag marks a packet (RingQueue.BufferExtend, BufferSet, BufferPop).
THEOREM TypeCorrect == Spec => []TypeOK
<1>1. Inv => TypeOK
    BY DEF Inv
<1> QED BY <1>1, Inductive, PTL

\* No slot behind the last packet keeps a raised flag, so no packet comes twice out of
\* the ring when it fills up again (RingQueue.BufferPop, IsSetIndex).
THEOREM FlagsAreClean == Spec => []NoStaleFlag
<1>1. Inv => NoStaleFlag
    BY DEF Inv
<1> QED BY <1>1, Inductive, PTL

LEMMA FlatPlace ==
    ASSUME Inv, NEW index \in 0 .. ReceiveWindow - 1
    PROVE  Flat[index] # Default <=> index < count /\ ringBufferSet[Local(index)]
<1>1. ASSUME index < count, ringBufferSet[Local(index)]
      PROVE  ringBuffer[Local(index)] # Default
    <2>1. length \in Nat \ {0} /\ index \in 0 .. length - 1
        BY <1>1, WindowAssumption, SMT DEF Inv, TypeOK
    <2>2. Local(index) \in Slots
        BY <2>1, LocalPlace DEF Local, Slots, Inv, TypeOK
    <2> QED BY <1>1, <2>2, RingAssumption DEF Inv, TypeOK
<1> QED BY <1>1 DEF Flat

\* The flat queue computes with the same window.
LEMMA SameWindow ==
    /\ Q!Ids = Ids
    /\ Q!Reset = Reset
    /\ \A w \in Window : Q!Advance(w, 1) = Advance(w, 1)
    /\ \A w \in Window, id \in Ids : Q!MappedToIndex(w, id) = MappedToIndex(w, id)
BY DEF Q!Ids, Ids, Q!Reset, Reset, Q!Advance, Advance, Q!MappedToIndex, MappedToIndex,
       Q!IsNextGen, IsNextGen

\* The verdict computed from the ring is the verdict of the flat queue.
LEMMA SameVerdict ==
    ASSUME Inv, NEW id \in Ids
    PROVE  IsSet(id) = Q!IsSet(id)
<1>0. MappedToIndex(window, id) \in Int /\ Q!MappedToIndex(window, id) = MappedToIndex(window, id)
    BY IndexIsDistance, SameWindow DEF Inv, TypeOK
<1>1. PICK index \in Int : /\ index = MappedToIndex(window, id)
                           /\ index = Q!MappedToIndex(window, id)
    BY <1>0
<1>2. /\ length \in Nat \ {0} /\ length <= ReceiveWindow
      /\ count \in 0 .. length /\ ReceiveWindow \in Nat
    BY WindowAssumption, SMT DEF Inv, TypeOK
<1>3. CASE index < 0
    BY <1>1, <1>3 DEF IsSet, IsSetIndex, Q!IsSet, Q!OutOfWindowSet
<1>4. CASE index >= ReceiveWindow
    BY <1>1, <1>2, <1>4, SMT
    DEF IsSet, IsSetIndex, Q!IsSet, Q!OutOfWindowNotSet
<1>5. CASE index \in 0 .. ReceiveWindow - 1
    <2>1. ~(index < 0) /\ ~(index >= ReceiveWindow)
        BY <1>2, <1>5, SMT
    <2>2. Q!IsSet(id) = IF Flat[index] = Default THEN "InWindowNotSet" ELSE "InWindowSet"
        BY <1>1, <1>5, <2>1
        DEF Q!IsSet, Q!InWindowSet, Q!InWindowNotSet
    <2>3. CASE index > count
        <3>1. IsSet(id) = "InWindowNotSet"
            BY <1>1, <1>2, <1>5, <2>1, <2>3, SMT DEF IsSet, IsSetIndex
        <3>2. ~(index < count)
            BY <1>2, <2>3, SMT
        <3> QED BY <1>5, <2>2, <3>1, <3>2, FlatPlace
    <2>4. CASE ~(index > count)
        <3>1. IsSet(id) = IF StateGet(index) THEN "InWindowSet" ELSE "InWindowNotSet"
            BY <1>1, <2>1, <2>4 DEF IsSet, IsSetIndex
        <3>2. index < ExtendTo(index) /\ ExtendTo(index) \in length .. ReceiveWindow
            BY <1>5, Extension DEF Inv
        <3>3. PICK i \in 0 .. ExtendTo(index) - 1 : i = index
            BY <1>2, <1>5, <3>2, SMT
        <3>4. IF index < length
              THEN StateGet(index) = ringBufferSet[Local(index)]
              ELSE StateGet(index) = FALSE
            BY <1>5, <3>3, Extension DEF StateGet, Inv
        <3>5. StateGet(index) <=> index < count /\ ringBufferSet[Local(index)]
            <4>1. CASE index < length
                <5>1. index \in Slots
                    BY <1>2, <1>5, <4>1, SMT DEF Slots
                <5>2. ringBufferSet[Local(index)] => ~(index >= count)
                    BY <5>1 DEF Inv, NoStaleFlag
                <5>3. ~(index >= count) <=> index < count
                    BY <1>2, SMT
                <5> QED BY <3>4, <4>1, <5>2, <5>3
            <4>2. CASE ~(index < length)
                <5>1. ~(index < count)
                    BY <1>2, <4>2, SMT
                <5> QED BY <3>4, <4>2, <5>1
            <4> QED BY <4>1, <4>2
        <3> QED BY <1>5, <2>2, <3>1, <3>5, FlatPlace
    <2> QED BY <2>3, <2>4
<1> QED
    <2>1. index < 0 \/ index >= ReceiveWindow \/ index \in 0 .. ReceiveWindow - 1
        BY <1>2, SMT
    <2> QED BY <1>3, <1>4, <1>5, <2>1

\* In every reachable state the verdict that ReceiveCommand acts on (RingQueue.IsSetIndex)
\* is the one of the flat queue, for every id.
THEOREM VerdictIsTruthful == Spec => []StatusTruthful
<1>1. Inv => StatusTruthful
    BY SameVerdict DEF StatusTruthful
<1> QED BY <1>1, Inductive, PTL

LEMMA RefinesInit == Init => Q!Init
<1> SUFFICES ASSUME Init PROVE Q!Init
    OBVIOUS
<1>1. Flat = [i \in Q!Places |-> Default]
    <2>1. \A i \in 0 .. ReceiveWindow - 1 : ~(i < count)
        BY WindowAssumption, SMT DEF Init
    <2> QED BY <2>1 DEF Flat, Q!Places
<1> QED BY <1>1 DEF Init, Q!Init, Q!Reset, Reset

LEMMA RefinesNext == Inv /\ [Next]_vars => [Q!Next]_(Q!vars)
<1> SUFFICES ASSUME Inv, [Next]_vars PROVE [Q!Next]_(Q!vars)
    OBVIOUS
<1>1. ASSUME NEW id \in Ids, Probe(id) PROVE UNCHANGED Q!vars
    BY <1>1, ProbeInv DEF Q!vars
<1>2. ASSUME NEW id \in Ids, NEW item \in Item, Set(id, item) PROVE Q!Set(id, item)
    <2>1. Q!IsSet(id) = "InWindowNotSet"
        BY <1>2, SameVerdict DEF Set, IsSet
    <2>2. Q!MappedToIndex(window, id) = MappedToIndex(window, id)
        BY SameWindow DEF Inv, TypeOK
    <2> QED BY <1>2, <2>1, <2>2, SetInv DEF Q!Set, Q!InWindowNotSet
<1>3. ASSUME TryDequeue PROVE Q!Dequeue
    BY <1>3, DequeueInv, SameWindow DEF Q!Dequeue, Inv, TypeOK
<1>4. ASSUME Clear PROVE Q!Clear
    BY <1>4, ClearInv, SameWindow DEF Q!Clear, Q!Places
<1>5. ASSUME UNCHANGED vars PROVE UNCHANGED Q!vars
    BY <1>5 DEF vars, Q!vars, Flat, Local
<1> QED BY <1>1, <1>2, <1>3, <1>4, <1>5, SameWindow DEF Next, Q!Next

\* The ring implements the receive queue: every step of RingQueue.cs is a step of the
\* flat queue or changes nothing of it.
THEOREM Refinement == Spec => ImplementsReceiveQueue
<1> QED BY RefinesInit, RefinesNext, Inductive, PTL
    DEF Spec, ImplementsReceiveQueue, Q!Spec
=============================================================================
