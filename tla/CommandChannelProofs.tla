------------------------ MODULE CommandChannelProofs ------------------------
(***************************************************************************)
(* The command channel keeps the packets apart, for every number of ids,   *)
(* every window and every length of the behaviour.                         *)
(*                                                                         *)
(* The argument follows the numbers of the packets.  Everything that is in *)
(* flight or waits for its ack is a packet of the log (Genuine); a packet  *)
(* that can be read is queued at the distance of its number from the       *)
(* window (GuessIsRight), hence the queue is a piece of the log.           *)
(* For the acks one more fact is needed: whatever waits for an ack is the  *)
(* latest use of its id (OneUse), since the id is all an ack carries.      *)
(*                                                                         *)
(* For the commands the argument follows the flags.  Of the packets that   *)
(* went out, the flag tells whether the command goes on after it (Flagged);*)
(* a packet that a send used up but never sent is not received, so that    *)
(* the window stops before it (NeverOut); and the window stands where a    *)
(* command starts (AtStart), up to the first command that was cut short:   *)
(* that one has no end, so what is taken goes beyond it (CutHasNoEnd), and *)
(* from there on only the numbers are left to argue with (Behind).         *)
(***************************************************************************)
EXTENDS CommandChannel, SequenceTheorems, WellFoundedInduction, TLAPS

-----------------------------------------------------------------------------
(* The arithmetic of the window, for every Mod and every ReceiveWindow.  A *)
(* packet is identified by its number, gen * Mod + id; the lemmas say that *)
(* the code, which only ever sees ids, computes with the numbers.          *)

\* A packet that is a whole generation ahead is at least Mod numbers ahead.
LEMMA ProductGap ==
    ASSUME NEW m \in Nat, NEW a \in Nat, NEW b \in Nat, a < b
    PROVE  a * m + m <= b * m
<1>1. PICK k \in Nat : b = a + 1 + k
    <2>1. b - a - 1 \in Nat /\ b = a + 1 + (b - a - 1)
        BY SMT
    <2> QED BY <2>1
<1>2. b * m = a * m + m + k * m
    BY <1>1, SMT
<1>3. k * m \in Nat
    BY <1>1, SMT
<1>4. a * m \in Nat
    BY SMT
<1> QED BY <1>2, <1>3, <1>4, SMT

LEMMA NumberType ==
    ASSUME NEW gen \in Nat, NEW id \in Ids
    PROVE  Number(gen, id) \in Nat
<1>1. gen * Mod \in Nat
    BY WindowAssumption, SMT
<1> QED BY <1>1, SMT DEF Number, Ids

\* A number determines the generation and the id.
LEMMA NumberInjective ==
    ASSUME NEW g1 \in Nat, NEW g2 \in Nat, NEW i1 \in Ids, NEW i2 \in Ids,
           Number(g1, i1) = Number(g2, i2)
    PROVE  g1 = g2 /\ i1 = i2
<1>1. ~(g1 < g2)
    <2> SUFFICES ASSUME g1 < g2 PROVE FALSE
        OBVIOUS
    <2>1. g1 * Mod + Mod <= g2 * Mod
        BY ProductGap, WindowAssumption
    <2>2. g1 * Mod \in Int /\ g2 * Mod \in Int
        BY WindowAssumption, SMT
    <2> QED BY <2>1, <2>2, WindowAssumption, SMT DEF Number, Ids
<1>2. ~(g2 < g1)
    <2> SUFFICES ASSUME g2 < g1 PROVE FALSE
        OBVIOUS
    <2>1. g2 * Mod + Mod <= g1 * Mod
        BY ProductGap, WindowAssumption
    <2>2. g1 * Mod \in Int /\ g2 * Mod \in Int
        BY WindowAssumption, SMT
    <2> QED BY <2>1, <2>2, WindowAssumption, SMT DEF Number, Ids
<1>3. g1 = g2
    BY <1>1, <1>2, SMT
<1>4. g1 * Mod \in Int
    BY WindowAssumption, SMT
<1> QED BY <1>3, <1>4, SMT DEF Number, Ids

\* An id is in the window exactly when its index is a place of the window
\* (GenerationWindow.IsInWindow and MappedToIndex agree, across the wrap too).
LEMMA InWindowIffIndex ==
    ASSUME NEW w \in Window, NEW id \in Ids
    PROVE  IsInWindow(w, id) <=> MappedToIndex(w, id) \in 0 .. ReceiveWindow - 1
BY WindowAssumption, SMT DEF Window, Ids, IsInWindow, MappedToIndex, IsNextGen

\* The index is the distance, in numbers, from the base of the window to the packet
\* the receiver takes the id for.
LEMMA IndexIsDistance ==
    ASSUME NEW w \in Window, NEW id \in Ids
    PROVE  /\ MappedToIndex(w, id) \in Int
           /\ Number(GetGeneration(w, id), id) = Position(w) + MappedToIndex(w, id)
<1>1. w.gen \in Nat /\ w.base \in Ids
    BY DEF Window
<1>2. w.gen * Mod \in Int /\ (w.gen + 1) * Mod = w.gen * Mod + Mod
    BY <1>1, WindowAssumption, SMT
<1>3. MappedToIndex(w, id) \in Int
    BY <1>1, WindowAssumption, SMT DEF MappedToIndex, Ids
<1>4. CASE IsNextGen(w, id)
    BY <1>1, <1>2, <1>3, <1>4, WindowAssumption, SMT
    DEF Number, Position, MappedToIndex, GetGeneration, Ids
<1>5. CASE ~IsNextGen(w, id)
    BY <1>1, <1>2, <1>3, <1>5, WindowAssumption, SMT
    DEF Number, Position, MappedToIndex, GetGeneration, Ids
<1> QED BY <1>3, <1>4, <1>5

\* For every packet of the window the receiver guesses the generation right, and finds
\* its place: the reason why TSLib can read the packets around a wrap
\* (FindIncommingGenerationId, GetGeneration, MappedToIndex).
THEOREM GuessIsRight ==
    ASSUME NEW w \in Window, NEW gen \in Nat, NEW id \in Ids,
           Number(gen, id) - Position(w) \in 0 .. ReceiveWindow - 1
    PROVE  /\ GetGeneration(w, id) = gen
           /\ MappedToIndex(w, id) = Number(gen, id) - Position(w)
<1>1. w.gen \in Nat /\ w.base \in Ids
    BY DEF Window
<1>2. w.gen * Mod \in Int /\ gen * Mod \in Int
    BY <1>1, WindowAssumption, SMT
<1>3. ~(gen < w.gen)
    <2> SUFFICES ASSUME gen < w.gen PROVE FALSE
        OBVIOUS
    <2>1. gen * Mod + Mod <= w.gen * Mod
        BY <1>1, ProductGap, WindowAssumption
    <2> QED BY <1>1, <1>2, <2>1, WindowAssumption, SMT DEF Number, Position, Ids
<1>4. ~(w.gen + 1 < gen)
    <2> SUFFICES ASSUME w.gen + 1 < gen PROVE FALSE
        OBVIOUS
    <2>1. (w.gen + 1) * Mod + Mod <= gen * Mod
        BY <1>1, ProductGap, WindowAssumption
    <2>2. (w.gen + 1) * Mod = w.gen * Mod + Mod
        BY <1>1, WindowAssumption, SMT
    <2> QED BY <1>1, <1>2, <2>1, <2>2, WindowAssumption, SMT DEF Number, Position, Ids
<1>5. CASE gen = w.gen
    <2>1. id - w.base \in 0 .. ReceiveWindow - 1
        BY <1>1, <1>2, <1>5, WindowAssumption, SMT DEF Number, Position, Ids
    <2>2. ~IsNextGen(w, id)
        BY <1>1, <2>1, WindowAssumption, SMT DEF IsNextGen, Ids
    <2> QED BY <1>5, <2>2, IndexIsDistance, <1>1, <1>2, WindowAssumption, SMT
        DEF GetGeneration, MappedToIndex, Number, Position, Ids
<1>6. CASE gen = w.gen + 1
    <2>1. gen * Mod = w.gen * Mod + Mod
        BY <1>1, <1>6, WindowAssumption, SMT
    <2>2. id + Mod - w.base \in 0 .. ReceiveWindow - 1
        BY <1>1, <1>2, <2>1, WindowAssumption, SMT DEF Number, Position, Ids
    <2>3. IsNextGen(w, id)
        BY <1>1, <2>2, WindowAssumption, SMT DEF IsNextGen, Ids
    <2> QED BY <1>1, <1>2, <1>6, <2>1, <2>3, WindowAssumption, SMT
        DEF GetGeneration, MappedToIndex, Number, Position, Ids
<1> QED BY <1>1, <1>3, <1>4, <1>5, <1>6, SMT

\* Advance moves the window by as many numbers, whether or not the base wraps.
LEMMA AdvanceMoves ==
    ASSUME NEW w \in Window, NEW amount \in 0 .. Mod
    PROVE  /\ Advance(w, amount) \in Window
           /\ Position(Advance(w, amount)) = Position(w) + amount
<1>1. w.gen \in Nat /\ w.base \in Ids
    BY DEF Window
<1>2. w.gen * Mod \in Int /\ (w.gen + 1) * Mod = w.gen * Mod + Mod
    BY <1>1, WindowAssumption, SMT
<1>3. CASE w.base + amount >= Mod
    BY <1>1, <1>2, <1>3, WindowAssumption, SMT DEF Advance, Window, Ids, Position, Number
<1>4. CASE ~(w.base + amount >= Mod)
    BY <1>1, <1>2, <1>4, WindowAssumption, SMT DEF Advance, Window, Ids, Position, Number
<1> QED BY <1>3, <1>4

LEMMA PositionType ==
    ASSUME NEW w \in Window
    PROVE  Position(w) \in Nat
BY NumberType DEF Position, Window

-----------------------------------------------------------------------------
(* What the channel keeps *)

Counted == Number(generationCounter, packetCounter) = First + Len(log)

LogNumbered == \A n \in Numbers : NumberOf(Sent(n)) = n

Genuine(p) == NumberOf(p) \in Numbers /\ p = Sent(NumberOf(p))

AllGenuine == \A p \in data \cup packetAckManager : Genuine(p)

OneUse ==
    \A p \in data \cup packetAckManager, q \in packetAckManager : p.id = q.id => p = q

Received(n) ==
    \/ n < Position(window)
    \/ n - Position(window) \in Places /\ flat[n - Position(window)] # Empty

AcksHonest ==
    \A a \in acks, q \in packetAckManager : q.id = a.id => Received(NumberOf(q))

SenderInv == Counted /\ LogNumbered /\ AllGenuine /\ OneUse

Inv ==
    /\ TypeOK
    /\ SenderInv
    /\ AcksHonest
    /\ SlotsInSequence
    /\ AckedIsReceived

-----------------------------------------------------------------------------
(* Numbers and ids *)

LEMMA FirstType == First \in Nat
BY NumberType, ChannelAssumption DEF First

LEMMA FirstConstant == First' = First
BY DEF First, Number

LEMMA PlacesIs == Places = 0 .. ReceiveWindow - 1
BY DEF Places, Q!Places

LEMMA SameWindow ==
    /\ \A w \in Window, amount \in 0 .. Mod : Q!Advance(w, amount) = Advance(w, amount)
    /\ \A w \in Window, id \in Ids : Q!MappedToIndex(w, id) = MappedToIndex(w, id)
BY DEF Q!Advance, Advance, Q!MappedToIndex, MappedToIndex, Q!IsNextGen, IsNextGen

\* Two packets with the same id are at least Mod numbers apart.
LEMMA SameIdFarApart ==
    ASSUME NEW g1 \in Nat, NEW g2 \in Nat, NEW id \in Ids,
           Number(g2, id) < Number(g1, id) + Mod,
           Number(g1, id) < Number(g2, id) + Mod
    PROVE  g1 = g2
<1>1. g1 * Mod \in Int /\ g2 * Mod \in Int
    BY WindowAssumption, SMT
<1>2. ~(g1 < g2)
    <2> SUFFICES ASSUME g1 < g2 PROVE FALSE
        OBVIOUS
    <2>1. g1 * Mod + Mod <= g2 * Mod
        BY ProductGap, WindowAssumption
    <2> QED BY <1>1, <2>1, WindowAssumption, SMT DEF Number, Ids
<1>3. ~(g2 < g1)
    <2> SUFFICES ASSUME g2 < g1 PROVE FALSE
        OBVIOUS
    <2>1. g2 * Mod + Mod <= g1 * Mod
        BY ProductGap, WindowAssumption
    <2> QED BY <1>1, <2>1, WindowAssumption, SMT DEF Number, Ids
<1> QED BY <1>2, <1>3, SMT

LEMMA NumberOfType ==
    ASSUME NEW p \in Packet
    PROVE  NumberOf(p) \in Nat
BY NumberType DEF NumberOf, Packet

\* The counters give the next packets their numbers, across a wrap.
LEMMA CounterStep ==
    ASSUME TypeOK, Counted, NEW j \in 0 .. Mod
    PROVE  /\ Counter(j) \in Window
           /\ Number(Counter(j).gen, Counter(j).base) = First + Len(log) + j
<1> DEFINE w == [base |-> packetCounter, gen |-> generationCounter]
<1>1. w \in Window
    BY DEF TypeOK, Window
<1>2. Position(w) = First + Len(log)
    BY DEF Counted, Position
<1>3. Counter(j) = Advance(w, j)
    BY DEF Counter
<1> HIDE DEF w
<1>4. /\ Advance(w, j) \in Window
      /\ Position(Advance(w, j)) = Position(w) + j
    BY <1>1, AdvanceMoves
<1> QED BY <1>2, <1>3, <1>4 DEF Position

LEMMA PartNumber ==
    ASSUME TypeOK, Counted, NEW count \in 1 .. Mod, NEW garbled \in BOOLEAN,
           NEW j \in 0 .. count - 1
    PROVE  /\ Part(count, garbled, j) \in Packet
           /\ NumberOf(Part(count, garbled, j)) = First + Len(log) + j
<1>1. j \in 0 .. Mod
    BY WindowAssumption, SMT
<1>2. /\ Counter(j) \in Window
      /\ Number(Counter(j).gen, Counter(j).base) = First + Len(log) + j
    BY <1>1, CounterStep
<1>3. NextMessage \in Nat
    <2>1. CASE log = <<>>
        BY <2>1 DEF NextMessage
    <2>2. CASE log # <<>>
        <3>1. Len(log) \in 1 .. Len(log) /\ log \in Seq(Packet)
            BY <2>2, SMT DEF TypeOK
        <3>2. log[Len(log)] \in Packet
            BY <3>1, SMT
        <3>3. log[Len(log)].msg \in Nat
            BY <3>2 DEF Packet
        <3> QED BY <2>2, <3>3, SMT DEF NextMessage
    <2> QED BY <2>1, <2>2
<1>4. Counter(j).gen \in Nat /\ Counter(j).base \in Ids
    BY <1>2 DEF Window
<1>5. Part(count, garbled, j) \in Packet
    BY <1>3, <1>4 DEF Part, Packet
<1>6. NumberOf(Part(count, garbled, j)) = Number(Counter(j).gen, Counter(j).base)
    BY DEF Part, NumberOf
<1> QED BY <1>2, <1>5, <1>6

\* The log keeps its packets when new ones are appended.
LEMMA LogGrows ==
    ASSUME NEW used \in Nat, NEW new \in [1 .. used -> Packet], TypeOK,
           log' = log \o new
    PROVE  /\ log' \in Seq(Packet)
           /\ Len(log') = Len(log) + used
           /\ \A n \in Numbers : n \in Numbers' /\ Sent(n)' = Sent(n)
           /\ \A k \in 1 .. used, n \in Int :
                n = First + Len(log) + k - 1 => Sent(n)' = new[k]
           /\ Numbers' = First .. First + Len(log) + used - 1
<1>1. log \in Seq(Packet)
    BY DEF TypeOK
<1>2. new \in Seq(Packet) /\ Len(new) = used
    <2>1. new \in Seq(Packet)
        BY SeqDef
    <2>2. DOMAIN new = 1 .. used /\ DOMAIN new = 1 .. Len(new) /\ Len(new) \in Nat
        BY <2>1, LenProperties
    <2> QED BY <2>1, <2>2, SMT
<1>3. Len(log) \in Nat
    BY <1>1, LenProperties
<1>4. /\ log' \in Seq(Packet)
      /\ Len(log') = Len(log) + used
      /\ \A i \in 1 .. Len(log) + used :
            log'[i] = IF i <= Len(log) THEN log[i] ELSE new[i - Len(log)]
    BY <1>1, <1>2, ConcatProperties
<1>5. Numbers' = First .. First + Len(log) + used - 1
    <2>1. Numbers' = First .. First + Len(log') - 1
        BY FirstConstant DEF Numbers
    <2>2. First + Len(log') - 1 = First + Len(log) + used - 1
        BY <1>4, <1>3, FirstType, SMT
    <2> QED BY <2>1, <2>2
<1>6. \A n : Sent(n)' = log'[n - First + 1]
    BY FirstConstant DEF Sent
<1>7. ASSUME NEW n \in Numbers PROVE n \in Numbers' /\ Sent(n)' = Sent(n)
    <2>1. PICK i \in 1 .. Len(log) : i = n - First + 1
        BY <1>3, FirstType, SMT DEF Numbers
    <2>2. Sent(n) = log[i] /\ Sent(n)' = log'[i]
        BY <1>6, <2>1 DEF Sent
    <2>3. n \in First .. First + Len(log) + used - 1
        BY <1>3, FirstType, SMT DEF Numbers
    <2>4. i \in 1 .. Len(log) + used /\ i <= Len(log)
        BY <1>3, SMT
    <2> QED BY <1>4, <1>5, <2>2, <2>3, <2>4
<1>8. ASSUME NEW k \in 1 .. used, NEW n \in Int, n = First + Len(log) + k - 1
      PROVE  Sent(n)' = new[k]
    <2>0. n - First + 1 \in 1 .. Len(log) + used
        BY <1>3, <1>8, FirstType, SMT
    <2>1. PICK i \in 1 .. Len(log) + used : i = n - First + 1
        BY <2>0
    <2>2. ~(i <= Len(log)) /\ i - Len(log) = k
        BY <1>3, <1>8, <2>1, FirstType, SMT
    <2> QED BY <1>4, <1>6, <2>1, <2>2
<1> QED BY <1>4, <1>5, <1>7, <1>8

-----------------------------------------------------------------------------
(* Sending *)

\* A send appends its parts to the log, each with the number its counters gave it.
LEMMA EmitLog ==
    ASSUME Inv, NEW count \in 1 .. Mod, NEW garbled \in BOOLEAN,
           NEW used \in 1 .. count, NEW kept \in 0 .. used, NEW out \in 0 .. kept,
           Emit(count, garbled, kept, out, used)
    PROVE  /\ log' \in Seq(Packet)
           /\ \A n \in Numbers : n \in Numbers' /\ Sent(n)' = Sent(n)
           /\ \A j \in 0 .. used - 1 :
                /\ Part(count, garbled, j) \in Packet
                /\ NumberOf(Part(count, garbled, j)) = First + Len(log) + j
           /\ \A j \in 0 .. used - 1, p \in Packet :
                p = Part(count, garbled, j) => Genuine(p)'
           /\ \A n \in Numbers' : n \in Numbers
                \/ \E j \in 0 .. used - 1 : n = NumberOf(Part(count, garbled, j))
           /\ Counted'
           /\ packetCounter' \in Ids /\ generationCounter' \in Nat
<1>1. TypeOK /\ Counted /\ Len(log) \in Nat
    BY LenProperties DEF Inv, SenderInv, TypeOK
<1>2. \A j \in 0 .. used - 1 :
        /\ Part(count, garbled, j) \in Packet
        /\ NumberOf(Part(count, garbled, j)) = First + Len(log) + j
    <2>1. \A j \in 0 .. used - 1 : j \in 0 .. count - 1
        BY WindowAssumption, SMT
    <2> QED BY <1>1, <2>1, PartNumber
<1> DEFINE new == [k \in 1 .. used |-> Part(count, garbled, k - 1)]
<1>3. new \in [1 .. used -> Packet]
    <2>1. \A k \in 1 .. used : k - 1 \in 0 .. used - 1
        BY WindowAssumption, SMT
    <2> QED BY <1>2, <2>1
<1>4. log' = log \o new
    BY DEF Emit
<1>5. \A k \in 1 .. used : new[k] = Part(count, garbled, k - 1)
    OBVIOUS
<1> HIDE DEF new
<1>6. PICK seq \in [1 .. used -> Packet] : seq = new
    BY <1>3
<1>7. used \in Nat
    BY WindowAssumption, SMT
<1>8. /\ log' \in Seq(Packet)
      /\ Len(log') = Len(log) + used
      /\ \A n \in Numbers : n \in Numbers' /\ Sent(n)' = Sent(n)
      /\ \A k \in 1 .. used, n \in Int :
            n = First + Len(log) + k - 1 => Sent(n)' = seq[k]
      /\ Numbers' = First .. First + Len(log) + used - 1
    BY <1>1, <1>4, <1>6, <1>7, LogGrows
<1>9. ASSUME NEW j \in 0 .. used - 1, NEW p \in Packet, p = Part(count, garbled, j)
      PROVE  Genuine(p)'
    <2>1. PICK k \in 1 .. used : k - 1 = j
        BY <1>7, SMT
    <2>2. PICK n \in Int : n = First + Len(log) + j
        BY <1>1, <1>7, FirstType, SMT
    <2>3. n = First + Len(log) + k - 1 /\ n \in First .. First + Len(log) + used - 1
        BY <1>1, <1>7, <2>1, <2>2, FirstType, SMT
    <2>4. Sent(n)' = p
        BY <1>5, <1>6, <1>8, <1>9, <2>1, <2>3
    <2>5. NumberOf(p) = n
        BY <1>2, <1>9, <2>2
    <2>6. NumberOf(p)' = NumberOf(p)
        BY DEF NumberOf, Number
    <2> QED BY <1>8, <2>3, <2>4, <2>5, <2>6 DEF Genuine
<1>10. ASSUME NEW n \in Numbers', n \notin Numbers
       PROVE  \E j \in 0 .. used - 1 : n = NumberOf(Part(count, garbled, j))
    <2>1. n \in First .. First + Len(log) + used - 1 /\ n \notin First .. First + Len(log) - 1
        BY <1>8, <1>10 DEF Numbers
    <2>2. /\ n - First - Len(log) \in 0 .. used - 1
          /\ n = First + Len(log) + (n - First - Len(log))
        BY <1>1, <1>7, <2>1, FirstType, SMT
    <2>3. PICK j \in 0 .. used - 1 : n = First + Len(log) + j
        BY <2>2
    <2> QED BY <1>2, <2>3
<1>11. /\ Counter(used) \in Window
       /\ Number(Counter(used).gen, Counter(used).base) = First + Len(log) + used
    <2>1. used \in 0 .. Mod
        BY WindowAssumption, SMT
    <2> QED BY <1>1, <2>1, CounterStep
<1>12. packetCounter' = Counter(used).base /\ generationCounter' = Counter(used).gen
    BY DEF Emit
<1>13. Counted'
    <2>1. First + Len(log') = First + Len(log) + used
        BY <1>1, <1>7, <1>8, FirstType, SMT
    <2>2. Number(generationCounter', packetCounter') = First + Len(log')
        BY <1>11, <1>12, <2>1
    <2>3. Number(generationCounter, packetCounter)' = Number(generationCounter', packetCounter')
        BY DEF Number
    <2> QED BY <2>2, <2>3, FirstConstant DEF Counted
<1>14. packetCounter' \in Ids /\ generationCounter' \in Nat
    BY <1>11, <1>12 DEF Window
<1> QED BY <1>2, <1>8, <1>9, <1>10, <1>13, <1>14

\* What does not read the log keeps its truth while the receiver stands still.
LEMMA ReceiverStill ==
    ASSUME Inv, UNCHANGED receiverVars,
           \A n \in Numbers : n \in Numbers' /\ Sent(n)' = Sent(n)
    PROVE  /\ SlotsInSequence'
           /\ \A n : Received(n)' <=> Received(n)
           /\ /\ window' \in Window
              /\ flat' \in [Places -> Packet \cup {Empty}]
              /\ draining' \in BOOLEAN
              /\ acksSent' \in 0 .. Mod
              /\ receiverClosed' \in BOOLEAN
              /\ delivered' \in Seq(Seq(Packet))
<1>1. /\ window' = window /\ flat' = flat /\ draining' = draining
      /\ acksSent' = acksSent /\ receiverClosed' = receiverClosed /\ delivered' = delivered
    BY DEF receiverVars
<1>2. Position(window)' = Position(window) /\ Places' = Places
    BY <1>1, PlacesIs DEF Position, Number, Places, Q!Places
<1>3. SlotsInSequence'
    BY <1>1, <1>2 DEF Inv, SlotsInSequence
<1>4. \A n : Received(n)' <=> Received(n)
    BY <1>1, <1>2 DEF Received
<1> QED BY <1>1, <1>3, <1>4 DEF Inv, TypeOK

LEMMA EmitInv ==
    ASSUME Inv, NEW count \in 1 .. Mod, NEW garbled \in BOOLEAN,
           NEW used \in 1 .. count, NEW kept \in 0 .. used, NEW out \in 0 .. kept,
           \A j \in 0 .. kept - 1 : ~Waiting(Part(count, garbled, j).id),
           Emit(count, garbled, kept, out, used),
           UNCHANGED <<senderClosed, receiverVars>>,
           unsent \subseteq unsent', unsent' \subseteq Nat, cut' \subseteq Nat,
           \A j \in kept .. used - 1 : NumberOf(Part(count, garbled, j)) \in unsent'
    PROVE  Inv'
<1> DEFINE P(j) == Part(count, garbled, j)
           outgoing == Parts(count, garbled, kept)
           parts == Parts(count, garbled, used)
<1>1. /\ log' \in Seq(Packet)
      /\ \A n \in Numbers : n \in Numbers' /\ Sent(n)' = Sent(n)
      /\ \A j \in 0 .. used - 1 : P(j) \in Packet /\ NumberOf(P(j)) = First + Len(log) + j
      /\ \A j \in 0 .. used - 1, p \in Packet : p = P(j) => Genuine(p)'
      /\ \A n \in Numbers' : n \in Numbers \/ \E j \in 0 .. used - 1 : n = NumberOf(P(j))
      /\ Counted'
      /\ packetCounter' \in Ids /\ generationCounter' \in Nat
    BY EmitLog
<1>2. /\ packetAckManager' = packetAckManager \cup outgoing
      /\ data' \subseteq Others(data, parts) \cup outgoing
      /\ acks' = Others(acks, parts)
    <2>1. Parts(count, garbled, out) \subseteq outgoing
        <3>1. \A j \in 0 .. out - 1 : j \in 0 .. kept - 1
            BY WindowAssumption, SMT
        <3> QED BY <3>1 DEF Parts
    <2> QED BY <2>1 DEF Emit
<1>3. /\ outgoing \subseteq parts
      /\ \A p \in parts : \E j \in 0 .. used - 1 : p = P(j)
      /\ \A p \in outgoing : \E j \in 0 .. used - 1 : p = P(j) /\ ~Waiting(p.id)
      /\ \A j \in 0 .. kept - 1 : P(j) \in outgoing
    <2>1. \A j \in 0 .. kept - 1 : j \in 0 .. used - 1
        BY WindowAssumption, SMT
    <2> QED BY <2>1 DEF Parts
<1>4. /\ Others(data, parts) \subseteq data
      /\ Others(acks, parts) \subseteq acks
      /\ \A p \in parts : \A d \in Others(data, parts) : d.id # p.id
      /\ \A p \in parts : \A b \in Others(acks, parts) : b.id # p.id
    BY DEF Others
<1>5. parts \subseteq Packet
    BY <1>1, <1>3
<1> HIDE DEF outgoing, parts
<1>6. TypeOK /\ Len(log) \in Nat
    BY LenProperties DEF Inv, TypeOK
<1>7. /\ SlotsInSequence'
      /\ \A n : Received(n)' <=> Received(n)
      /\ /\ window' \in Window
         /\ flat' \in [Places -> Packet \cup {Empty}]
         /\ draining' \in BOOLEAN
         /\ acksSent' \in 0 .. Mod
         /\ receiverClosed' \in BOOLEAN
         /\ delivered' \in Seq(Seq(Packet))
    <2>1. UNCHANGED receiverVars
        OBVIOUS
    <2> QED BY <1>1, <2>1, ReceiverStill
<1>8. TypeOK'
    <2>1. /\ packetAckManager' \subseteq Packet
          /\ data' \subseteq Packet
          /\ acks' \subseteq Ack
          /\ senderClosed' \in BOOLEAN
        BY <1>2, <1>3, <1>4, <1>5, <1>6 DEF TypeOK
    <2>2. Places' = Places
        BY PlacesIs DEF Places, Q!Places
    <2> QED BY <1>1, <1>7, <2>1, <2>2 DEF TypeOK
<1>9. \A p \in Packet : NumberOf(p)' = NumberOf(p)
    BY DEF NumberOf, Number
<1>10. LogNumbered'
    <2> SUFFICES ASSUME NEW n \in Numbers' PROVE NumberOf(Sent(n))' = n
        BY DEF LogNumbered
    <2>1. CASE n \in Numbers
        <3>1. NumberOf(Sent(n)) = n
            BY <2>1 DEF Inv, SenderInv, LogNumbered
        <3>2. Sent(n)' = Sent(n)
            BY <1>1, <2>1
        <3> QED BY <3>1, <3>2 DEF NumberOf, Number
    <2>2. CASE n \notin Numbers
        <3>1. PICK j \in 0 .. used - 1 : n = NumberOf(P(j))
            BY <1>1, <2>2
        <3>2. PICK p \in Packet : p = P(j)
            BY <1>1
        <3>3. Genuine(p)' /\ NumberOf(p)' = n
            BY <1>1, <1>9, <3>1, <3>2
        <3>4. Sent(n)' = p
            BY <3>3 DEF Genuine
        <3> QED BY <3>3, <3>4 DEF NumberOf, Number
    <2> QED BY <2>1, <2>2
<1>11. AllGenuine'
    <2> SUFFICES ASSUME NEW p \in data' \cup packetAckManager' PROVE Genuine(p)'
        BY DEF AllGenuine
    <2>1. CASE p \in outgoing
        BY <1>1, <1>3, <1>5, <2>1
    <2>2. CASE p \in data \cup packetAckManager
        <3>1. p \in Packet /\ Genuine(p)
            BY <1>6, <2>2 DEF TypeOK, Inv, SenderInv, AllGenuine
        <3>2. NumberOf(p) \in Numbers' /\ Sent(NumberOf(p))' = p /\ NumberOf(p)' = NumberOf(p)
            <4>1. PICK n \in Numbers : n = NumberOf(p)
                BY <3>1 DEF Genuine
            <4>2. n \in Numbers' /\ Sent(n)' = Sent(n)
                BY <1>1
            <4> QED BY <1>9, <3>1, <4>1, <4>2 DEF Genuine, Sent, NumberOf, Number
        <3> QED BY <3>2 DEF Genuine, Sent
    <2> QED BY <1>2, <1>4, <2>1, <2>2
<1>12. OneUse'
    <2> SUFFICES ASSUME NEW p \in data' \cup packetAckManager', NEW q \in packetAckManager',
                        p.id = q.id
                 PROVE  p = q
        BY DEF OneUse
    <2>1. CASE p \in outgoing /\ q \in outgoing
        <3>1. PICK i \in 0 .. used - 1 : p = P(i)
            BY <1>3, <2>1
        <3>2. PICK j \in 0 .. used - 1 : q = P(j)
            BY <1>3, <2>1
        <3>3. /\ p.gen \in Nat /\ q.gen \in Nat /\ p.id \in Ids
              /\ Number(p.gen, p.id) = First + Len(log) + i
              /\ Number(q.gen, p.id) = First + Len(log) + j
            BY <1>1, <3>1, <3>2 DEF Packet, NumberOf
        <3>4. i < j + Mod /\ j < i + Mod
            BY WindowAssumption, SMT
        <3>5. p.gen = q.gen
            <4>1. /\ Number(q.gen, p.id) < Number(p.gen, p.id) + Mod
                  /\ Number(p.gen, p.id) < Number(q.gen, p.id) + Mod
                BY <1>6, <3>3, <3>4, FirstType, WindowAssumption, SMT
            <4> QED BY <3>3, <4>1, SameIdFarApart
        <3>6. i = j
            BY <1>6, <3>3, <3>5, FirstType, SMT
        <3> QED BY <3>1, <3>2, <3>6
    <2>2. CASE p \in outgoing /\ q \in packetAckManager
        BY <1>3, <2>2 DEF Waiting
    <2>3. CASE p \in Others(data, parts) /\ q \in outgoing
        BY <1>3, <1>4, <2>3
    <2>4. CASE p \in packetAckManager /\ q \in outgoing
        BY <1>3, <2>4 DEF Waiting
    <2>5. CASE p \in data \cup packetAckManager /\ q \in packetAckManager
        BY <2>5 DEF Inv, SenderInv, OneUse
    <2> QED BY <1>2, <1>4, <2>1, <2>2, <2>3, <2>4, <2>5
<1>13. AcksHonest'
    <2> SUFFICES ASSUME NEW a \in acks', NEW q \in packetAckManager', q.id = a.id
                 PROVE  Received(NumberOf(q))'
        BY DEF AcksHonest
    <2>1. q \in packetAckManager
        <3>1. a \in Others(acks, parts)
            BY <1>2
        <3>2. q \notin parts
            BY <1>4, <3>1
        <3> QED BY <1>2, <1>3, <3>2
    <2>2. Received(NumberOf(q))
        BY <1>2, <1>4, <2>1 DEF Inv, AcksHonest
    <2>3. PICK n : n = NumberOf(q)
        OBVIOUS
    <2>4. Received(n)'
        BY <1>7, <2>2, <2>3
    <2> QED BY <2>3, <2>4 DEF Received, NumberOf, Number
<1>14. AckedIsReceived'
    <2> SUFFICES ASSUME NEW n \in Numbers', n \notin unsent', Sent(n)' \notin packetAckManager'
                 PROVE  Received(n)'
        BY DEF AckedIsReceived, Received
    <2>1. CASE n \in Numbers
        <3>1. n \notin unsent /\ Sent(n) \notin packetAckManager
            BY <1>1, <1>2, <2>1
        <3>2. Received(n)
            BY <2>1, <3>1 DEF Inv, AckedIsReceived, Received
        <3> QED BY <1>7, <3>2
    <2>2. CASE n \notin Numbers
        <3>1. PICK j \in 0 .. used - 1 : n = NumberOf(P(j))
            BY <1>1, <2>2
        <3>2. CASE j \in kept .. used - 1
            BY <3>1, <3>2
        <3>3. CASE j \in 0 .. kept - 1
            <4>1. PICK p \in Packet : p = P(j)
                BY <1>1
            <4>2. Genuine(p)' /\ NumberOf(p)' = n
                BY <1>1, <1>9, <3>1, <4>1
            <4>3. Sent(n)' = p
                BY <4>2 DEF Genuine
            <4> QED BY <1>2, <1>3, <3>3, <4>1, <4>3
        <3>4. j \in kept .. used - 1 \/ j \in 0 .. kept - 1
            BY WindowAssumption, SMT
        <3> QED BY <3>2, <3>3, <3>4
    <2> QED BY <2>1, <2>2
<1> QED BY <1>1, <1>7, <1>8, <1>10, <1>11, <1>12, <1>13, <1>14 DEF Inv, SenderInv

-----------------------------------------------------------------------------
(* The other steps *)

\* What a step that sends nothing new has to respect: what the sender forgets, and what
\* an ack stands for, has been received.
LEMMA StepInv ==
    ASSUME Inv, UNCHANGED <<packetCounter, generationCounter, log, unsent>>,
           TypeOK', SlotsInSequence',
           data' \cup packetAckManager' \subseteq data \cup packetAckManager,
           packetAckManager' \subseteq packetAckManager,
           \A n \in Nat : Received(n) => Received(n)',
           \A q \in packetAckManager, n \in Nat :
                n = NumberOf(q) /\ q \notin packetAckManager' => Received(n)',
           \A a \in acks', q \in packetAckManager, n \in Nat :
                n = NumberOf(q) /\ q.id = a.id => Received(n)'
    PROVE  Inv'
<1>1. /\ Numbers' = Numbers
      /\ \A n : Sent(n)' = Sent(n)
      /\ \A p : NumberOf(p)' = NumberOf(p)
    BY FirstConstant DEF Numbers, Sent, NumberOf, Number
<1>2. TypeOK /\ packetAckManager \subseteq Packet
    BY DEF Inv, TypeOK
<1>3. \A q \in packetAckManager : NumberOf(q) \in Nat
    BY <1>2, NumberOfType
<1>4. Counted'
    BY FirstConstant DEF Inv, SenderInv, Counted, Number
<1>5. LogNumbered'
    <2> SUFFICES ASSUME NEW n \in Numbers PROVE NumberOf(Sent(n))' = n
        BY <1>1 DEF LogNumbered
    <2>1. NumberOf(Sent(n)) = n
        BY DEF Inv, SenderInv, LogNumbered
    <2>2. Sent(n)' = Sent(n)
        BY <1>1
    <2> QED BY <2>1, <2>2 DEF NumberOf, Number
<1>6. AllGenuine'
    <2> SUFFICES ASSUME NEW p \in data \cup packetAckManager PROVE Genuine(p)'
        BY DEF AllGenuine
    <2>1. PICK n \in Numbers : n = NumberOf(p) /\ p = Sent(n)
        BY DEF Inv, SenderInv, AllGenuine, Genuine
    <2>2. NumberOf(p)' = n /\ n \in Numbers' /\ Sent(n)' = p
        BY <1>1, <2>1
    <2> QED BY <2>2 DEF Genuine, Sent
<1>7. OneUse'
    BY DEF Inv, SenderInv, OneUse
<1>8. AcksHonest'
    <2> SUFFICES ASSUME NEW a \in acks', NEW q \in packetAckManager', q.id = a.id
                 PROVE  Received(NumberOf(q))'
        BY DEF AcksHonest
    <2>1. PICK n \in Nat : n = NumberOf(q)
        BY <1>3
    <2>2. Received(n)'
        BY <2>1
    <2>3. n = NumberOf(q)'
        BY <1>1, <2>1
    <2> QED BY <2>2, <2>3 DEF Received
<1>9. AckedIsReceived'
    <2> SUFFICES ASSUME NEW n \in Numbers, n \notin unsent, Sent(n) \notin packetAckManager'
                 PROVE  Received(n)'
        BY <1>1 DEF AckedIsReceived, Received
    <2>1. n \in Nat
        BY <1>2, FirstType, LenProperties, SMT DEF Numbers, TypeOK
    <2>2. CASE Sent(n) \in packetAckManager
        <3>1. PICK q \in packetAckManager : q = Sent(n)
            BY <2>2
        <3>2. n = NumberOf(q)
            BY <3>1 DEF Inv, SenderInv, LogNumbered
        <3> QED BY <2>1, <3>1, <3>2
    <2>3. CASE Sent(n) \notin packetAckManager
        <3>1. Received(n)
            BY <2>3 DEF Inv, AckedIsReceived, Received
        <3> QED BY <2>1, <3>1
    <2> QED BY <2>2, <2>3
<1> QED BY <1>4, <1>5, <1>6, <1>7, <1>8, <1>9 DEF Inv, SenderInv

\* The same for a step that leaves the receive queue alone.
LEMMA QueueStill ==
    ASSUME Inv, UNCHANGED <<packetCounter, generationCounter, log, unsent, window, flat>>,
           TypeOK',
           data' \cup packetAckManager' \subseteq data \cup packetAckManager,
           packetAckManager' \subseteq packetAckManager,
           \A q \in packetAckManager : q \notin packetAckManager' => Received(NumberOf(q)),
           \A a \in acks', q \in packetAckManager : q.id = a.id => Received(NumberOf(q))
    PROVE  Inv'
<1>1. /\ Numbers' = Numbers
      /\ \A n : Sent(n)' = Sent(n)
      /\ Position(window)' = Position(window)
      /\ Places' = Places
    BY FirstConstant DEF Numbers, Sent, Position, Number, Places, Q!Places
<1>2. \A n : Received(n)' <=> Received(n)
    BY <1>1 DEF Received
<1>3. SlotsInSequence'
    BY <1>1 DEF Inv, SlotsInSequence
<1> QED BY <1>2, <1>3, StepInv

-----------------------------------------------------------------------------
(* Receiving *)

\* A packet that can be read lies at the place its number says.
LEMMA ReadableIndex ==
    ASSUME TypeOK, NEW p \in Packet, Readable(p)
    PROVE  \E index \in Int :
                /\ index = Q!MappedToIndex(window, p.id)
                /\ NumberOf(p) = Position(window) + index
<1>1. window \in Window /\ p.id \in Ids
    BY DEF TypeOK, Packet
<1>2. /\ MappedToIndex(window, p.id) \in Int
      /\ Number(GetGeneration(window, p.id), p.id) = Position(window) + MappedToIndex(window, p.id)
    BY <1>1, IndexIsDistance
<1>3. Q!MappedToIndex(window, p.id) = MappedToIndex(window, p.id)
    BY <1>1, SameWindow
<1> QED BY <1>2, <1>3 DEF Readable, NumberOf

LEMMA AgainReceived ==
    ASSUME Inv, NEW p \in data, Readable(p),
           Q!IsSet(p.id) \in {Q!OutOfWindowSet, Q!InWindowSet}
    PROVE  Received(NumberOf(p))
<1>1. TypeOK /\ p \in Packet
    BY DEF Inv, TypeOK
<1>2. PICK index \in Int : /\ index = Q!MappedToIndex(window, p.id)
                           /\ NumberOf(p) = Position(window) + index
    BY <1>1, ReadableIndex
<1>3. Position(window) \in Nat
    BY <1>1, PositionType DEF TypeOK
<1>4. CASE index < 0
    BY <1>2, <1>3, <1>4, SMT DEF Received
<1>5. CASE ~(index < 0)
    <2>1. Q!IsSet(p.id) = IF index >= ReceiveWindow THEN "OutOfWindowNotSet"
                          ELSE IF flat[index] = Empty THEN "InWindowNotSet" ELSE "InWindowSet"
        BY <1>2, <1>5 DEF Q!IsSet, Q!OutOfWindowNotSet, Q!InWindowNotSet, Q!InWindowSet
    <2>2. Q!IsSet(p.id) # "OutOfWindowNotSet" /\ Q!IsSet(p.id) # "InWindowNotSet"
        BY SMT DEF Q!OutOfWindowSet, Q!InWindowSet
    <2>3. index < ReceiveWindow /\ flat[index] # Empty
        BY <2>1, <2>2, WindowAssumption, SMT
    <2>4. index \in Places
        BY <1>5, <2>3, PlacesIs, WindowAssumption, SMT
    <2>5. NumberOf(p) - Position(window) = index
        BY <1>2, <1>3, SMT
    <2> QED BY <2>3, <2>4, <2>5 DEF Received
<1> QED BY <1>4, <1>5

LEMMA AckAgainInv ==
    ASSUME Inv, NEW p \in data, AckAgain(p)
    PROVE  Inv'
<1>1. Received(NumberOf(p))
    BY AgainReceived DEF AckAgain, Receives
<1>2. UNCHANGED <<senderVars, data, window, flat, draining, receiverClosed, delivered>>
    BY DEF AckAgain
<1>3. acks' = acks \cup {[id |-> p.id, gen |-> IF acksSent < Mod THEN 0 ELSE 1]}
    BY DEF AckAgain, SendAck
<1>4. acksSent' \in 0 .. Mod
    BY WindowAssumption, SMT DEF AckAgain, SendAck, MinOf, Inv, TypeOK
<1>5. TypeOK'
    <2>1. acks' \subseteq Ack
        BY <1>3 DEF Inv, TypeOK, Ack, Packet
    <2> QED BY <1>2, <1>4, <2>1 DEF Inv, TypeOK, senderVars, Places, Q!Places
<1>6. ASSUME NEW a \in acks', NEW q \in packetAckManager, q.id = a.id
      PROVE  Received(NumberOf(q))
    <2>1. CASE a \in acks
        BY <1>6, <2>1 DEF Inv, AcksHonest
    <2>2. CASE a.id = p.id
        <3>1. p = q
            BY <1>6, <2>2 DEF Inv, SenderInv, OneUse
        <3> QED BY <1>1, <3>1
    <2> QED BY <1>3, <2>1, <2>2
<1> QED BY <1>2, <1>5, <1>6, QueueStill DEF senderVars

LEMMA AcceptInv ==
    ASSUME Inv, NEW p \in data, Accept(p)
    PROVE  Inv'
<1>1. TypeOK /\ p \in Packet /\ Readable(p)
    BY DEF Inv, TypeOK, Accept, Receives
<1>2. PICK index \in Int : /\ index = Q!MappedToIndex(window, p.id)
                           /\ NumberOf(p) = Position(window) + index
    BY <1>1, ReadableIndex
<1>3. Position(window) \in Nat
    BY <1>1, PositionType DEF TypeOK
<1>4. /\ UNCHANGED <<senderVars, data, receiverClosed, delivered, window>>
      /\ draining' = TRUE
      /\ acks' = acks \cup {[id |-> p.id, gen |-> IF acksSent < Mod THEN 0 ELSE 1]}
      /\ acksSent' = MinOf(acksSent + 1, Mod)
      /\ Q!IsSet(p.id) = "InWindowNotSet"
    BY DEF Accept, SendAck, Q!Set, Q!InWindowNotSet
<1>5. flat' = [flat EXCEPT ![index] = p]
    BY <1>2 DEF Accept, Q!Set
<1>6. index \in Places
    <2>1. ~(index < 0) /\ ~(index >= ReceiveWindow)
        BY <1>2, <1>4 DEF Q!IsSet, Q!OutOfWindowSet, Q!OutOfWindowNotSet
    <2> QED BY <2>1, PlacesIs, WindowAssumption, SMT
<1>7. flat \in [Places -> Packet \cup {Empty}]
    BY <1>1 DEF TypeOK
<1>8. p # Empty
    BY <1>1, EmptyAssumption
<1>9. /\ flat'[index] = p
      /\ \A i \in Places : i # index => flat'[i] = flat[i]
      /\ flat' \in [Places -> Packet \cup {Empty}]
    BY <1>1, <1>5, <1>6, <1>7
<1>10. Position(window)' = Position(window) /\ Places' = Places
    BY <1>4 DEF Position, Number, Places, Q!Places
<1>11. NumberOf(p) \in Numbers /\ p = Sent(NumberOf(p))
    BY DEF Inv, SenderInv, AllGenuine, Genuine
<1>12. Numbers' = Numbers /\ \A n : Sent(n)' = Sent(n)
    BY <1>4, FirstConstant DEF Numbers, Sent, senderVars
<1>13. TypeOK'
    <2>1. acks' \subseteq Ack
        BY <1>1, <1>4 DEF TypeOK, Ack, Packet
    <2>2. acksSent' \in 0 .. Mod
        BY <1>1, <1>4, WindowAssumption, SMT DEF MinOf, TypeOK
    <2> QED BY <1>1, <1>4, <1>9, <1>10, <2>1, <2>2 DEF TypeOK, senderVars
<1>14. SlotsInSequence'
    <2> SUFFICES ASSUME NEW i \in Places, flat'[i] # Empty
                 PROVE  Position(window) + i \in Numbers /\ flat'[i] = Sent(Position(window) + i)
        BY <1>10, <1>12 DEF SlotsInSequence
    <2>1. CASE i = index
        BY <1>2, <1>9, <1>11, <2>1
    <2>2. CASE i # index
        BY <1>9, <2>2 DEF Inv, SlotsInSequence
    <2> QED BY <2>1, <2>2
<1>16. ASSUME NEW n \in Nat, Received(n) PROVE Received(n)'
    <2>1. CASE n < Position(window)
        BY <1>10, <2>1 DEF Received
    <2>2. CASE n - Position(window) \in Places /\ flat[n - Position(window)] # Empty
        <3>1. PICK i \in Places : i = n - Position(window)
            BY <2>2
        <3>2. flat'[i] # Empty
            BY <1>8, <1>9, <2>2, <3>1
        <3> QED BY <1>10, <3>1, <3>2 DEF Received
    <2> QED BY <1>16, <2>1, <2>2 DEF Received
<1>17. ASSUME NEW n \in Nat, n = NumberOf(p) PROVE Received(n)'
    <2>1. n - Position(window) = index
        BY <1>2, <1>3, <1>17, SMT
    <2> QED BY <1>6, <1>8, <1>9, <1>10, <2>1 DEF Received
<1>18. ASSUME NEW a \in acks', NEW q \in packetAckManager, NEW n \in Nat,
              n = NumberOf(q) /\ q.id = a.id
       PROVE  Received(n)'
    <2>1. CASE a \in acks
        <3>1. Received(n)
            BY <1>18, <2>1 DEF Inv, AcksHonest
        <3> QED BY <1>16, <3>1
    <2>2. CASE a.id = p.id
        <3>1. p = q
            BY <1>18, <2>2 DEF Inv, SenderInv, OneUse
        <3> QED BY <1>17, <1>18, <3>1
    <2> QED BY <1>4, <2>1, <2>2
<1> QED BY <1>4, <1>13, <1>14, <1>16, <1>18, StepInv DEF senderVars

\* Taking packets from the front of the queue moves window and queue together.
LEMMA DequeueInv ==
    ASSUME Inv, NEW count \in 1 .. ReceiveWindow, Dequeue(count), log' = log
    PROVE  /\ window' \in Window
           /\ flat' \in [Places -> Packet \cup {Empty}]
           /\ SlotsInSequence'
           /\ \A n \in Nat : Received(n) => Received(n)'
<1>1. TypeOK /\ count \in 0 .. Mod
    BY WindowAssumption, SMT DEF Inv
<1>2. /\ window' = Advance(window, count)
      /\ flat' = [i \in Places |-> IF i + count \in Places THEN flat[i + count] ELSE Empty]
    BY DEF Dequeue
<1>3. window' \in Window /\ Position(window') = Position(window) + count
    BY <1>1, <1>2, AdvanceMoves DEF TypeOK
<1>4. Position(window) \in Nat /\ count \in Nat
    BY <1>1, PositionType, WindowAssumption, SMT DEF TypeOK
<1>5. /\ Position(window)' = Position(window) + count
      /\ Places' = Places
      /\ Numbers' = Numbers
      /\ \A n : Sent(n)' = Sent(n)
    <2>1. Position(window)' = Position(window')
        BY DEF Position, Number
    <2> QED BY <1>3, <2>1, FirstConstant DEF Places, Q!Places, Numbers, Sent
<1>6. flat' \in [Places -> Packet \cup {Empty}]
    BY <1>1, <1>2 DEF TypeOK
<1>7. SlotsInSequence'
    <2> SUFFICES ASSUME NEW i \in Places, flat'[i] # Empty
                 PROVE  /\ Position(window) + count + i \in Numbers
                        /\ flat'[i] = Sent(Position(window) + count + i)
        BY <1>5 DEF SlotsInSequence
    <2>1. i + count \in Places /\ flat'[i] = flat[i + count]
        BY <1>2
    <2>2. PICK k \in Places : k = i + count
        BY <2>1
    <2>3. Position(window) + k \in Numbers /\ flat[k] = Sent(Position(window) + k)
        BY <2>1, <2>2 DEF Inv, SlotsInSequence
    <2>4. Position(window) + k = Position(window) + count + i
        BY <1>4, <2>2, PlacesIs, WindowAssumption, SMT
    <2> QED BY <2>1, <2>2, <2>3, <2>4
<1>8. ASSUME NEW n \in Nat, Received(n) PROVE Received(n)'
    <2>1. CASE n < Position(window) + count
        BY <1>5, <2>1 DEF Received
    <2>2. CASE ~(n < Position(window) + count)
        <3>1. ~(n < Position(window))
            BY <1>4, <2>2, SMT
        <3>2. PICK k \in Places : k = n - Position(window) /\ flat[k] # Empty
            BY <1>8, <3>1 DEF Received
        <3>3. n - (Position(window) + count) \in Places
            BY <1>4, <2>2, <3>2, PlacesIs, WindowAssumption, SMT
        <3>4. PICK i \in Places : i = n - (Position(window) + count)
            BY <3>3
        <3>5. i + count = k
            BY <1>4, <3>2, <3>4, PlacesIs, WindowAssumption, SMT
        <3>6. flat'[i] # Empty
            BY <1>2, <3>2, <3>5
        <3> QED BY <1>5, <3>4, <3>6 DEF Received
    <2> QED BY <2>1, <2>2
<1> QED BY <1>3, <1>6, <1>7, <1>8

\* A command handed over, or dropped as garbled.
LEMMA TakeInv ==
    ASSUME Inv, NEW last \in Places, Dequeue(last + 1), IsCommand(last),
           UNCHANGED <<senderVars, data, acks, acksSent, receiverClosed>>,
           draining' \in BOOLEAN,
           delivered' \in Seq(Seq(Packet))
    PROVE  Inv'
<1>1. TypeOK
    BY DEF Inv
<1>2. PICK count \in 1 .. ReceiveWindow : count = last + 1
    BY PlacesIs, WindowAssumption, SMT
<1>3. Dequeue(count) /\ log' = log
    BY <1>2 DEF senderVars
<1>4. /\ window' \in Window
      /\ flat' \in [Places -> Packet \cup {Empty}]
      /\ SlotsInSequence'
      /\ \A n \in Nat : Received(n) => Received(n)'
    BY <1>3, DequeueInv
<1>5. TypeOK'
    BY <1>1, <1>4 DEF TypeOK, senderVars, Places, Q!Places
<1>7. ASSUME NEW a \in acks', NEW q \in packetAckManager, NEW n \in Nat,
             n = NumberOf(q) /\ q.id = a.id
      PROVE  Received(n)'
    <2>1. Received(n)
        BY <1>7 DEF Inv, AcksHonest
    <2> QED BY <1>4, <2>1
<1> QED BY <1>4, <1>5, <1>7, StepInv DEF senderVars

LEMMA DeliverInv ==
    ASSUME Inv, NEW last \in Places, Deliver(last)
    PROVE  Inv'
<1>1. draining /\ draining' = draining /\ IsCommand(last) /\ Dequeue(last + 1)
    BY DEF Deliver
<1>2. delivered' \in Seq(Seq(Packet))
    <2> DEFINE command == [i \in 1 .. last + 1 |-> flat[i - 1]]
    <2>1. command \in [1 .. last + 1 -> Packet]
        <3>1. \A i \in 1 .. last + 1 : i - 1 \in 0 .. last /\ i - 1 \in Places
            BY PlacesIs, WindowAssumption, SMT
        <3>2. \A i \in 0 .. last : i \in Places => flat[i] \in Packet
            BY <1>1 DEF IsCommand, Inv, TypeOK
        <3> QED BY <3>1, <3>2
    <2>2. last + 1 \in Nat
        BY PlacesIs, WindowAssumption, SMT
    <2>3. command \in Seq(Packet)
        BY <2>1, <2>2, SeqDef
    <2> HIDE DEF command
    <2>4. delivered \in Seq(Seq(Packet))
        BY DEF Inv, TypeOK
    <2>5. Append(delivered, command) \in Seq(Seq(Packet))
        BY <2>3, <2>4, AppendProperties
    <2>6. delivered' = delivered \/ delivered' = Append(delivered, command)
        BY DEF Deliver, command
    <2> QED BY <2>4, <2>5, <2>6
<1>3. UNCHANGED <<senderVars, data, acks, acksSent, receiverClosed>>
    BY DEF Deliver
<1>4. draining' \in BOOLEAN
    BY <1>1 DEF Inv, TypeOK
<1> QED BY <1>1, <1>2, <1>3, <1>4, TakeInv

LEMMA DropGarbledInv ==
    ASSUME Inv, NEW last \in Places, DropGarbled(last)
    PROVE  Inv'
<1>1. /\ UNCHANGED <<senderVars, data, acks, acksSent, receiverClosed>>
      /\ draining' = FALSE
      /\ IsCommand(last) /\ Dequeue(last + 1)
      /\ delivered' = delivered
    BY DEF DropGarbled
<1>2. delivered' \in Seq(Seq(Packet)) /\ draining' \in BOOLEAN
    BY <1>1 DEF Inv, TypeOK
<1> QED BY <1>1, <1>2, TakeInv

-----------------------------------------------------------------------------
(* The invariant *)

LEMMA InitInv == Init => Inv
<1> SUFFICES ASSUME Init PROVE Inv
    OBVIOUS
<1>1. log = <<>> /\ Len(log) = 0 /\ log \in Seq(Packet) /\ delivered \in Seq(Seq(Packet))
    BY SMT DEF Init
<1>2. Numbers = {}
    BY <1>1, FirstType, SMT DEF Numbers
<1>3. TypeOK
    <2>1. acksSent \in 0 .. Mod
        BY FirstType, WindowAssumption, SMT DEF Init, MinOf
    <2> QED BY <1>1, <2>1, ChannelAssumption DEF Init, TypeOK, Window
<1>4. Counted
    BY <1>1, FirstType, SMT DEF Init, Counted, First
<1>5. SenderInv
    BY <1>2, <1>4 DEF Init, SenderInv, LogNumbered, AllGenuine, OneUse
<1>6. AcksHonest /\ AckedIsReceived
    BY <1>2 DEF Init, AcksHonest, AckedIsReceived
<1>7. \A i \in Places : flat[i] = Empty
    BY DEF Init
<1>8. SlotsInSequence
    BY <1>7 DEF SlotsInSequence
<1> QED BY <1>3, <1>5, <1>6, <1>8 DEF Inv

LEMMA SendsInv == Inv /\ Sends => Inv'
<1> SUFFICES ASSUME Inv, NEW count \in PartCounts, NEW garbled \in Garbling,
                    \/ SendCommand(count, garbled)
                    \/ \E j \in 0 .. count - 1 : \/ SendCommandThrows(count, garbled, j)
                                                \/ SendCommandFails(count, garbled, j)
             PROVE  Inv'
    BY DEF Sends
<1>1. count \in 1 .. Mod /\ count \in Nat /\ garbled \in BOOLEAN
    <2>1. count \in 1 .. Mod
        BY ChannelAssumption
    <2>2. garbled \in BOOLEAN
        BY DEF Garbling
    <2> QED BY <2>1, <2>2, WindowAssumption, SMT
<1>2. CASE SendCommand(count, garbled)
    <2>1. count \in 1 .. count /\ count \in 0 .. count
        BY <1>1, SMT
    <2>2. unsent' = unsent /\ cut' = cut /\ UNCHANGED <<senderClosed, receiverVars>>
        BY <1>2 DEF SendCommand
    <2>3. unsent' \subseteq Nat /\ cut' \subseteq Nat
        BY <2>2 DEF Inv, TypeOK
    <2>4. \A j \in count .. count - 1 : FALSE
        BY <1>1, SMT
    <2> QED BY <1>1, <1>2, <2>1, <2>2, <2>3, <2>4, EmitInv DEF SendCommand
<1>3. ASSUME NEW j \in 0 .. count - 1, SendCommandThrows(count, garbled, j)
      PROVE  Inv'
    <2>1. PICK used \in 1 .. count : used = j + 1
        BY <1>1, SMT
    <2>2. PICK kept \in 0 .. used : kept = j /\ kept \in 0 .. kept
        BY <1>1, <2>1, SMT
    <2>3. /\ Emit(count, garbled, kept, kept, used)
          /\ \A i \in 0 .. kept - 1 : ~Waiting(Part(count, garbled, i).id)
          /\ UNCHANGED <<senderClosed, receiverVars>>
          /\ unsent' = unsent \cup {NumberOf(Part(count, garbled, j))} /\ cut' = cut
        BY <1>3, <2>1, <2>2 DEF SendCommandThrows
    <2>4. Part(count, garbled, j) \in Packet
        BY <1>1, PartNumber DEF Inv, SenderInv
    <2>5. unsent' \subseteq Nat /\ cut' \subseteq Nat
        BY <2>3, <2>4, NumberOfType DEF Inv, TypeOK
    <2>6. \A i \in kept .. used - 1 : i = j
        BY <1>1, <2>1, <2>2, SMT
    <2> QED BY <1>1, <2>2, <2>3, <2>5, <2>6, EmitInv
<1>4. ASSUME NEW j \in 0 .. count - 1, SendCommandFails(count, garbled, j)
      PROVE  Inv'
    <2>1. PICK used \in 1 .. count : used = j + 1 /\ used \in 0 .. used /\ j \in 0 .. used
        BY <1>1, SMT
    <2>2. /\ Emit(count, garbled, used, j, used)
          /\ \A i \in 0 .. used - 1 : ~Waiting(Part(count, garbled, i).id)
          /\ UNCHANGED <<senderClosed, receiverVars>>
          /\ unsent' = unsent /\ cut' \subseteq cut \cup {NextMessage}
        <3>1. \A i \in 0 .. used - 1 : i \in 0 .. j
            BY <1>1, <2>1, SMT
        <3> QED BY <1>4, <2>1, <3>1 DEF SendCommandFails
    <2>3. unsent' \subseteq Nat /\ cut' \subseteq Nat
        <3>1. Part(count, garbled, j) \in Packet
            BY <1>1, PartNumber DEF Inv, SenderInv
        <3>2. NextMessage \in Nat
            BY <3>1 DEF Part, Packet
        <3> QED BY <2>2, <3>2 DEF Inv, TypeOK
    <2>4. \A i \in used .. used - 1 : FALSE
        BY <1>1, SMT
    <2> QED BY <1>1, <2>1, <2>2, <2>3, <2>4, EmitInv
<1> QED BY <1>2, <1>3, <1>4

\* Acks, resends, losses, and the two ways to stop.
LEMMA QuietInv ==
    ASSUME Inv,
           \/ \E p \in packetAckManager : Resend(p)
           \/ \E a \in acks : ReceiveAck(a) \/ LoseAck(a)
           \/ \E p \in data : LoseData(p)
           \/ StopSender
           \/ StopReceiver
           \/ EndDrain
    PROVE  Inv'
<1>1. /\ UNCHANGED <<packetCounter, generationCounter, log, unsent, window, flat>>
      /\ UNCHANGED <<acksSent, delivered, cut>>
      /\ data' \cup packetAckManager' \subseteq data \cup packetAckManager
      /\ packetAckManager' \subseteq packetAckManager
      /\ acks' \subseteq acks
      /\ senderClosed' \in BOOLEAN /\ receiverClosed' \in BOOLEAN
      /\ draining' = draining \/ draining' = FALSE
    BY DEF Resend, ReceiveAck, LoseAck, LoseData, StopSender, StopReceiver, EndDrain,
           senderVars, receiverVars, Inv, TypeOK
<1>3. TypeOK'
    <2>1. data' \subseteq Packet /\ packetAckManager' \subseteq Packet
        BY <1>1 DEF Inv, TypeOK
    <2> QED BY <1>1, <2>1 DEF Inv, TypeOK, Places, Q!Places
<1>4. ASSUME NEW a \in acks', NEW q \in packetAckManager, q.id = a.id
      PROVE  Received(NumberOf(q))
    BY <1>1, <1>4 DEF Inv, AcksHonest
<1>5. ASSUME NEW q \in packetAckManager, q \notin packetAckManager'
      PROVE  Received(NumberOf(q))
    <2>1. PICK a \in acks : ReceiveAck(a)
        BY <1>5 DEF Resend, LoseAck, LoseData, StopSender, StopReceiver, EndDrain, senderVars
    <2>2. q.id = a.id
        BY <1>5, <2>1 DEF ReceiveAck
    <2> QED BY <2>2 DEF Inv, AcksHonest
<1> QED BY <1>1, <1>3, <1>4, <1>5, QueueStill

LEMMA NextInv == Inv /\ [Next]_vars => Inv'
<1> SUFFICES ASSUME Inv, [Next]_vars PROVE Inv'
    OBVIOUS
<1>1. CASE Sends
    BY <1>1, SendsInv
<1>2. CASE \E p \in packetAckManager : Resend(p)
    BY <1>2, QuietInv
<1>3. CASE \E a \in acks : ReceiveAck(a) \/ LoseAck(a)
    BY <1>3, QuietInv
<1>4. CASE StopSender
    BY <1>4, QuietInv
<1>5. CASE \E p \in data : LoseData(p)
    BY <1>5, QuietInv
<1>6. CASE \E p \in data : AckAgain(p)
    BY <1>6, AckAgainInv
<1>7. CASE \E p \in data : Accept(p)
    BY <1>7, AcceptInv
<1>8. CASE \E last \in Places : Deliver(last)
    BY <1>8, DeliverInv
<1>9. CASE \E last \in Places : DropGarbled(last)
    BY <1>9, DropGarbledInv
<1>10. CASE EndDrain
    BY <1>10, QuietInv
<1>11. CASE StopReceiver
    BY <1>11, QuietInv
<1>12. CASE UNCHANGED vars
    <2>1. UNCHANGED <<packetCounter, generationCounter, log, unsent, window, flat, draining,
                      data, packetAckManager, acks, senderClosed, acksSent, receiverClosed,
                      delivered, cut>>
        BY <1>12 DEF vars, senderVars, receiverVars
    <2>2. TypeOK'
        BY <2>1 DEF Inv, TypeOK, Places, Q!Places
    <2>3. \A a \in acks', q \in packetAckManager : q.id = a.id => Received(NumberOf(q))
        BY <2>1 DEF Inv, AcksHonest
    <2> QED BY <2>1, <2>2, <2>3, QueueStill
<1> QED BY <1>1, <1>2, <1>3, <1>4, <1>5, <1>6, <1>7, <1>8, <1>9, <1>10, <1>11, <1>12
    DEF Next

LEMMA Inductive == Spec => []Inv
<1> QED BY InitInv, NextInv, PTL DEF Spec

-----------------------------------------------------------------------------
(* What follows from it *)

\* Counters, queues and datagrams keep their types (PacketHandler.cs).
THEOREM TypeCorrect == Spec => []TypeOK
<1>1. Inv => TypeOK
    BY DEF Inv
<1> QED BY <1>1, Inductive, PTL

\* Whatever the network does and however often the ids wrap, the receive queue is a
\* piece of what was sent, every packet at the place of its number: a packet of another
\* generation is never queued (FindIncommingGenerationId, Decrypt, RingQueue.Set).
THEOREM QueueIsPieceOfLog == Spec => []SlotsInSequence
<1>1. Inv => SlotsInSequence
    BY DEF Inv
<1> QED BY <1>1, Inductive, PTL

\* The sender stops resending a packet only when the receiver has it (SendAck,
\* ReceiveAck), provided the network keeps no datagram of an id until its next use.
THEOREM AcksAreHonest == Spec => []AckedIsReceived
<1>1. Inv => AckedIsReceived
    BY DEF Inv
<1> QED BY <1>1, Inductive, PTL

-----------------------------------------------------------------------------
(* Commands *)

\* A command starts with packet n, or goes on after it.
Starts(n) == n = First \/ Sent(n - 1).msg # Sent(n).msg
GoesOn(n) == n + 1 \in Numbers /\ Sent(n + 1).msg = Sent(n).msg

\* The commands follow each other in the log.
Following ==
    /\ \A m, n \in Numbers : m <= n => Sent(m).msg <= Sent(n).msg
    /\ \A n \in Numbers : \A msg \in 1 .. Sent(n).msg : \E m \in First .. n : Sent(m).msg = msg

\* The flags of the packets that went out tell where a command ends; one that was cut
\* short has no end.
Flagged ==
    \A n \in Numbers : n \notin unsent =>
        (GoesOn(n) \/ Sent(n).msg \in cut <=> (Starts(n) <=> Sent(n).fragmented))

\* Only what was sent can have been cut short.
CutSent == \A m \in cut : \E n \in Numbers : Sent(n).msg = m

\* What did not go out is nowhere.
NeverOut ==
    \A n \in unsent : n \in Numbers /\ ~Received(n) /\ Sent(n) \notin data \cup packetAckManager

\* The receiver takes whole commands, up to the first that was cut short.
AtStart ==
    /\ Position(window) \in First .. First + Len(log)
    /\ (Position(window) \in Numbers /\ \A m \in cut : Sent(Position(window)).msg <= m)
          => Starts(Position(window))

Taken(msg) == \E j \in 1 .. Len(delivered) : delivered[j][1].msg = msg

\* What was delivered is behind the window, and nothing behind it was left out.
Behind ==
    /\ \A k \in 1 .. Len(delivered) : NumberOf(delivered[k][Len(delivered[k])]) < Position(window)
    /\ ~receiverClosed => \A n \in Numbers :
          n < Position(window) /\ Uncut(Sent(n).msg) => IsGarbled(Sent(n).msg) \/ Taken(Sent(n).msg)

OrderInv ==
    /\ Inv /\ Following /\ Flagged /\ CutSent /\ NeverOut /\ AtStart /\ Behind
    /\ DeliveredInOrder

\* There is no endless descent in the numbers, so that a set of them has a least one.
LEMMA NatLess == IsWellFoundedOn({ss \in Nat \X Nat : ss[1] < ss[2]}, Nat)
BY NatLessThanWellFounded DEF OpToRel

LEMMA Least ==
    ASSUME NEW T \in SUBSET Nat, T # {}
    PROVE  \E x \in T : \A y \in T : x <= y
<1> DEFINE R == {ss \in Nat \X Nat : ss[1] < ss[2]}
<1>1. IsWellFoundedOn(R, Nat)
    BY NatLess
<1>2. \A x, y \in Nat : y < x => <<y, x>> \in R
    OBVIOUS
<1> HIDE DEF R
<1>3. PICK x \in T : \A y \in T : ~ (<<y, x>> \in R)
    BY <1>1, WFMin
<1>4. ASSUME NEW y \in T PROVE x <= y
    <2>1. x \in Nat /\ y \in Nat
        OBVIOUS
    <2>2. ~(y < x)
        BY Zenon, <1>2, <1>3, <2>1
    <2> QED BY <2>1, <2>2
<1> QED BY <1>4

LEMMA LogIs ==
    ASSUME Inv
    PROVE  /\ First \in Nat /\ Len(log) \in Nat
           /\ \A n \in Numbers : n \in Nat /\ Sent(n) \in Packet /\ Sent(n).msg \in Nat
           /\ Position(window) \in Nat /\ Numbers \subseteq Nat
<1>1. log \in Seq(Packet) /\ window \in Window
    BY DEF Inv, TypeOK
<1>2. First \in Nat /\ Len(log) \in Nat /\ Position(window) \in Nat
    BY <1>1, FirstType, PositionType, LenProperties
<1>3. ASSUME NEW n \in Numbers PROVE n \in Nat /\ Sent(n) \in Packet /\ Sent(n).msg \in Nat
    <2>1. PICK i \in 1 .. Len(log) : i = n - First + 1
        BY <1>2, SMT DEF Numbers
    <2>2. Sent(n) \in Packet
        BY <1>1, <2>1 DEF Sent
    <2>3. n \in Nat
        BY <1>2, SMT DEF Numbers
    <2> QED BY <2>2, <2>3 DEF Packet
<1> QED BY <1>2, <1>3

\* Packet k comes before packet n.
LEMMA StartsIs ==
    ASSUME NEW n, NEW k, k = n - 1
    PROVE  Starts(n) <=> n = First \/ Sent(k).msg # Sent(n).msg
BY DEF Starts

\* What the queue holds has gone out.
LEMMA SlotsAreOut ==
    ASSUME Inv, NeverOut, NEW i \in Places, flat[i] # Empty,
           NEW n, n = Position(window) + i
    PROVE  n \in Numbers /\ n \notin unsent /\ flat[i] = Sent(n)
<1>1. n \in Numbers /\ flat[i] = Sent(n)
    BY DEF Inv, SlotsInSequence
<1>2. n - Position(window) = i
    BY LogIs, PlacesIs, WindowAssumption, SMT
<1>3. Received(n)
    BY <1>2 DEF Received
<1> QED BY <1>1, <1>3 DEF NeverOut

\* The two ends of a piece of the log.
LEMMA PieceEnds ==
    ASSUME Inv, NEW cmd \in Seq(Packet), IsPiece(cmd)
    PROVE  \E a, b \in Numbers :
                /\ a <= b /\ cmd = [i \in 1 .. b - a + 1 |-> Sent(a + i - 1)]
                /\ cmd[1] = Sent(a) /\ NumberOf(cmd[1]) = a
                /\ cmd[Len(cmd)] = Sent(b) /\ NumberOf(cmd[Len(cmd)]) = b
<1>1. PICK a, b \in Numbers : a <= b /\ cmd = [i \in 1 .. b - a + 1 |-> Sent(a + i - 1)]
    BY DEF IsPiece
<1>2. a \in Nat /\ b \in Nat
    BY LogIs
<1>3. Len(cmd) = b - a + 1
    <2>1. DOMAIN cmd = 1 .. Len(cmd) /\ Len(cmd) \in Nat
        BY LenProperties
    <2>2. DOMAIN cmd = 1 .. b - a + 1
        BY <1>1
    <2> QED BY <1>1, <1>2, <2>1, <2>2, SMT
<1>4. /\ 1 \in 1 .. b - a + 1 /\ b - a + 1 \in 1 .. b - a + 1
      /\ a + 1 - 1 = a /\ a + (b - a + 1) - 1 = b
    BY <1>1, <1>2, SMT
<1>5. cmd[1] = Sent(a) /\ cmd[Len(cmd)] = Sent(b)
    BY <1>1, <1>3, <1>4
<1>6. NumberOf(Sent(a)) = a /\ NumberOf(Sent(b)) = b
    BY DEF Inv, SenderInv, LogNumbered
<1> QED BY <1>1, <1>5, <1>6

\* What TryGetCommand takes has gone out, and the flags are as IsCommand says.
LEMMA TakenIsOut ==
    ASSUME Inv, NeverOut, NEW last \in Places, IsCommand(last),
           NEW P, P = Position(window)
    PROVE  /\ P \in Nat /\ last \in Nat /\ First \in Nat /\ Len(log) \in Nat /\ last < ReceiveWindow
           /\ \A i \in 0 .. last : P + i \in Numbers /\ P + i \notin unsent /\ flat[i] = Sent(P + i)
           /\ P \in Numbers /\ P + last \in Numbers /\ P + 0 = P
           /\ Sent(P).fragmented = (last > 0)
           /\ last > 0 => Sent(P + last).fragmented
           /\ \A i \in 1 .. last - 1 : ~Sent(P + i).fragmented
<1>1. P \in Nat /\ last \in Nat /\ First \in Nat /\ Len(log) \in Nat /\ last < ReceiveWindow
    BY LogIs, PlacesIs, WindowAssumption, SMT
<1>2. ASSUME NEW i \in 0 .. last
      PROVE  P + i \in Numbers /\ P + i \notin unsent /\ flat[i] = Sent(P + i)
    <2>1. i \in Places
        BY <1>1, PlacesIs, WindowAssumption, SMT
    <2>2. flat[i] # Empty
        BY DEF IsCommand
    <2> QED BY <2>1, <2>2, SlotsAreOut
<1>3. P \in Numbers /\ P + last \in Numbers /\ P + 0 = P
    <2>1. P + 0 \in Numbers /\ P + last \in Numbers /\ P + 0 = P
        BY <1>1, <1>2, SMT
    <2> QED BY <2>1
<1>4. /\ Sent(P).fragmented = (last > 0)
      /\ last > 0 => Sent(P + last).fragmented
      /\ \A i \in 1 .. last - 1 : ~Sent(P + i).fragmented
    <2>1. flat[0] = Sent(P) /\ flat[last] = Sent(P + last)
        BY <1>1, <1>2, <1>3, SMT
    <2>2. ASSUME NEW i \in 1 .. last - 1 PROVE ~Sent(P + i).fragmented
        <3>1. i \in 0 .. last
            BY <1>1, SMT
        <3> QED BY <1>2, <3>1 DEF IsCommand
    <2> QED BY <2>1, <2>2 DEF IsCommand
<1> QED BY <1>1, <1>2, <1>3, <1>4

\* Of a command that was not cut short the flags tell where it ends.
LEMMA FlagOf ==
    ASSUME Flagged, NEW n \in Numbers, n \notin unsent, Sent(n).msg \notin cut
    PROVE  GoesOn(n) <=> (Starts(n) <=> Sent(n).fragmented)
BY DEF Flagged

\* A command that was cut short is not taken on its own: what is taken goes beyond it.
LEMMA CutHasNoEnd ==
    ASSUME Inv, Following, Flagged, NeverOut, AtStart,
           NEW last \in Places, IsCommand(last),
           NEW P, P = Position(window), NEW m, m = Sent(P).msg,
           m \in cut, \A c \in cut : m <= c
    PROVE  Sent(P + last).msg # m
<1>1. /\ P \in Nat /\ last \in Nat /\ First \in Nat
      /\ \A i \in 0 .. last : P + i \in Numbers /\ P + i \notin unsent
      /\ P \in Numbers /\ P + 0 = P
      /\ Sent(P).fragmented = (last > 0)
      /\ last > 0 => Sent(P + last).fragmented
    BY TakenIsOut
<1>2. Starts(P)
    BY <1>1 DEF AtStart
<1>3. P \notin unsent
    <2>1. 0 \in 0 .. last
        BY <1>1, SMT
    <2> QED BY <1>1, <2>1
<1>4. last > 0 /\ Sent(P + last).fragmented
    <2>1. Sent(P).fragmented
        BY <1>1, <1>2, <1>3 DEF Flagged
    <2> QED BY <1>1, <2>1
<1> SUFFICES ASSUME Sent(P + last).msg = m PROVE FALSE
    OBVIOUS
<1>5. P + last \in Numbers /\ P + last \notin unsent /\ P + (last - 1) \in Numbers
    <2>1. last \in 0 .. last /\ last - 1 \in 0 .. last
        BY <1>1, <1>4, SMT
    <2> QED BY <1>1, <2>1
<1>6. Starts(P + last)
    BY <1>4, <1>5 DEF Flagged
<1>7. Sent(P + (last - 1)).msg = m
    <2>1. P <= P + (last - 1) /\ P + (last - 1) <= P + last
        BY <1>1, <1>4, SMT
    <2>2. m <= Sent(P + (last - 1)).msg /\ Sent(P + (last - 1)).msg <= m
        BY <1>1, <1>5, <2>1 DEF Following
    <2>3. m \in Nat /\ Sent(P + (last - 1)).msg \in Nat
        BY <1>1, <1>5, LogIs
    <2> QED BY <2>2, <2>3
<1> DEFINE n == P + last
           k == P + (last - 1)
<1>8. k = n - 1 /\ n # First
    <2>1. P \in First .. First + Len(log) /\ Len(log) \in Nat
        BY LogIs DEF AtStart
    <2> QED BY <1>1, <1>4, <2>1, SMT
<1>9. Sent(k).msg = m /\ Sent(n).msg = m /\ Starts(n)
    BY <1>6, <1>7
<1> HIDE DEF n, k
<1> QED BY <1>8, <1>9, StartsIs

\* What TryGetCommand takes before the first cut is a whole command: it starts where the
\* queue does and ends at the place it found.
LEMMA CommandIsWhole ==
    ASSUME Inv, Following, Flagged, NeverOut, AtStart,
           NEW last \in Places, IsCommand(last),
           NEW P, P = Position(window), NEW m, m = Sent(P).msg, Uncut(m)
    PROVE  /\ P \in Numbers /\ P + last \in Numbers
           /\ \A i \in 0 .. last : P + i \in Numbers /\ P + i \notin unsent /\ flat[i] = Sent(P + i)
           /\ PartsOf(m) = P .. P + last
           /\ P + last + 1 \in Numbers => Starts(P + last + 1)
           /\ ~Mixed(last)
<1>0. m \in Nat /\ m \notin cut /\ \A c \in cut : m <= c
    <2>1. m \in Nat
        BY TakenIsOut, LogIs
    <2>2. cut \subseteq Nat
        BY DEF Inv, TypeOK
    <2> QED BY <2>1, <2>2, SMT DEF Uncut
<1>1. P \in Nat /\ last \in Nat /\ First \in Nat /\ Len(log) \in Nat /\ last < ReceiveWindow
    BY TakenIsOut
<1>2. \A i \in 0 .. last : P + i \in Numbers /\ P + i \notin unsent /\ flat[i] = Sent(P + i)
    BY TakenIsOut
<1>3. P \in Numbers /\ P + last \in Numbers /\ P + 0 = P
    BY TakenIsOut
<1>4. /\ Sent(P).fragmented = (last > 0)
      /\ last > 0 => Sent(P + last).fragmented
      /\ \A i \in 1 .. last - 1 : ~Sent(P + i).fragmented
    BY TakenIsOut
<1>5. Starts(P)
    BY <1>0, <1>3 DEF AtStart
\* The packets up to the last place are of one command.
<1>6. ASSUME NEW i \in 0 .. last PROVE Sent(P + i).msg = m
    <2> DEFINE T == {j \in 0 .. last : Sent(P + j).msg # m}
    <2> SUFFICES ASSUME T # {} PROVE FALSE
        OBVIOUS
    <2>1. T \in SUBSET Nat
        BY <1>1, SMT
    <2>2. PICK j \in T : \A y \in T : j <= y
        BY <2>1, Least
    <2>3. j \in 0 .. last /\ Sent(P + j).msg # m /\ \A y \in 0 .. last : Sent(P + y).msg = m \/ j <= y
        BY <2>2
    <2>4. j # 0
        BY <1>3, <2>3
    <2>5. PICK h \in 0 .. last - 1 : h + 1 = j
        BY <1>1, <2>3, <2>4, SMT
    <2>6. j \in Nat /\ h \in Nat /\ h \in 0 .. last /\ P + h + 1 = P + j /\ h < j
        <3>1. j \in Nat /\ h \in Nat
            BY <1>1, <2>3, <2>5, SMT
        <3> QED BY <1>1, <2>3, <2>5, <3>1, SMT
    <2>7. Sent(P + h).msg = m /\ P + h \in Numbers /\ P + h \notin unsent /\ P + j \in Numbers
        BY <1>1, <1>2, <2>3, <2>6, SMT
    <2>8. ~GoesOn(P + h)
        BY <2>3, <2>6, <2>7 DEF GoesOn
    <2>9. CASE h = 0
        <3>1. P + h = P /\ last > 0
            BY <1>1, <2>5, <2>6, <2>9, SMT
        <3>2. Starts(P + h) /\ Sent(P + h).fragmented
            BY <1>4, <1>5, <3>1
        <3> QED BY <1>0, <2>7, <2>8, <3>2, FlagOf
    <2>10. CASE h # 0
        <3>1. h \in 1 .. last - 1 /\ h - 1 \in 0 .. last /\ P + (h - 1) = (P + h) - 1 /\ h - 1 < j
            BY <1>1, <2>5, <2>6, <2>10, SMT
        <3>2. ~Sent(P + h).fragmented
            BY <1>4, <3>1
        <3>3. Sent(P + (h - 1)).msg = m
            BY <1>1, <2>3, <3>1, SMT
        <3>4. P + h # First
            <4>1. P \in First .. First + Len(log)
                BY DEF AtStart
            <4> QED BY <1>1, <2>5, <2>10, <4>1, SMT
        <3>5. ~Starts(P + h)
            <4> DEFINE n == P + h
                       k == P + (h - 1)
            <4>1. n # First /\ Sent(k).msg = m /\ Sent(n).msg = m
                BY Zenon, <2>7, <3>1, <3>3, <3>4
            <4>2. k = n - 1
                BY <3>1
            <4> HIDE DEF n, k
            <4>3. ~Starts(n)
                BY <4>1, <4>2, StartsIs
            <4> QED BY <4>3 DEF n
        <3> QED BY <1>0, <2>7, <2>8, <3>2, <3>5, FlagOf
    <2> QED BY <2>9, <2>10
\* The command ends there.
<1>7. ~GoesOn(P + last)
    <2>1. P + last \in Numbers /\ P + last \notin unsent /\ Sent(P + last).msg \notin cut
        <3>1. last \in 0 .. last
            BY <1>1, SMT
        <3> QED BY <1>0, <1>2, <1>6, <3>1
    <2>2. CASE last = 0
        <3>1. P + last = P /\ ~(last > 0)
            BY <1>1, <2>2, SMT
        <3>2. Starts(P + last) /\ ~Sent(P + last).fragmented
            BY <1>4, <1>5, <3>1
        <3> QED BY <2>1, <3>2, FlagOf
    <2>3. CASE last # 0
        <3>1. Sent(P + last).fragmented
            BY <1>1, <1>4, <2>3, SMT
        <3>2. last - 1 \in 0 .. last /\ last \in 0 .. last /\ P + (last - 1) = (P + last) - 1
            BY <1>1, <2>3, SMT
        <3>3. Sent(P + last).msg = m /\ Sent(P + (last - 1)).msg = m
            BY <1>6, <3>2
        <3>4. P + last # First
            <4>1. P \in First .. First + Len(log)
                BY DEF AtStart
            <4> QED BY <1>1, <2>3, <4>1, SMT
        <3>5. ~Starts(P + last)
            <4> DEFINE n == P + last
                       k == P + (last - 1)
            <4>1. n # First /\ Sent(k).msg = m /\ Sent(n).msg = m
                BY Zenon, <3>2, <3>3, <3>4
            <4>2. k = n - 1
                BY <3>2
            <4> HIDE DEF n, k
            <4>3. ~Starts(n)
                BY <4>1, <4>2, StartsIs
            <4> QED BY <4>3 DEF n
        <3> QED BY <2>1, <3>1, <3>5, FlagOf
    <2> QED BY <2>2, <2>3
<1>8. P + last + 1 \in Numbers => Sent(P + last + 1).msg # m
    BY <1>1, <1>6, <1>7, SMT DEF GoesOn
<1>9. P + last + 1 \in Numbers => Starts(P + last + 1)
    <2>1. (P + last + 1) - 1 = P + last /\ last \in 0 .. last
        BY <1>1, SMT
    <2> DEFINE n == P + last + 1
               k == P + last
    <2>2. k = n - 1 /\ last \in 0 .. last
        BY <2>1
    <2>5. Sent(k).msg = m
        BY <1>6, <2>2
    <2>3. n \in Numbers => Sent(n).msg # m
        BY <1>8
    <2> HIDE DEF n, k
    <2>4. n \in Numbers => Starts(n)
        BY <2>2, <2>3, <2>5, StartsIs
    <2> QED BY <2>4 DEF n
<1>10. PartsOf(m) = P .. P + last
    <2>1. ASSUME NEW n \in P .. P + last PROVE n \in PartsOf(m)
        <3>1. n - P \in 0 .. last /\ P + (n - P) = n
            BY <1>1, SMT
        <3>2. PICK i \in 0 .. last : P + i = n
            BY <3>1
        <3> QED BY <1>2, <1>6, <3>2 DEF PartsOf
    <2>2. ASSUME NEW n \in Numbers, Sent(n).msg = m PROVE n \in P .. P + last
        <3>1. n \in Nat /\ m \in Nat
            BY <2>2, LogIs
        <3>2. ~(n < P)
            <4> SUFFICES ASSUME n < P PROVE FALSE
                OBVIOUS
            <4>1. P # First /\ P - 1 \in Numbers
                BY <1>1, <1>3, <3>1, SMT DEF Numbers
            <4>2. Sent(P - 1).msg # m
                BY <1>5, <4>1 DEF Starts
            <4>3. Sent(n).msg <= Sent(P - 1).msg /\ Sent(P - 1).msg <= Sent(P).msg
                BY <1>1, <1>3, <3>1, <4>1, SMT DEF Following
            <4>4. Sent(P - 1).msg \in Nat
                BY <4>1, LogIs
            <4> QED BY <2>2, <3>1, <4>2, <4>3, <4>4, SMT
        <3>3. ~(n > P + last)
            <4> SUFFICES ASSUME n > P + last PROVE FALSE
                OBVIOUS
            <4>1. P + last + 1 \in Numbers /\ P + last + 1 <= n /\ P <= P + last + 1
                BY <1>1, <1>3, <3>1, SMT DEF Numbers
            <4>2. Sent(P + last + 1).msg # m /\ Sent(P + last + 1).msg \in Nat
                BY <1>8, <4>1, LogIs
            <4>3. Sent(P).msg <= Sent(P + last + 1).msg /\ Sent(P + last + 1).msg <= Sent(n).msg
                BY <1>3, <4>1 DEF Following
            <4> QED BY <2>2, <3>1, <4>2, <4>3, SMT
        <3> QED BY <1>1, <3>1, <3>2, <3>3, SMT
    <2> QED BY <2>1, <2>2 DEF PartsOf
<1>11. ~Mixed(last)
    <2>1. \A i \in 1 .. last : i \in 0 .. last
        BY <1>1, SMT
    <2>2. 0 \in 0 .. last
        BY <1>1, SMT
    <2>3. \A i \in 0 .. last : flat[i].msg = m
        BY <1>2, <1>6
    <2> QED BY <2>1, <2>2, <2>3 DEF Mixed
<1> QED BY <1>2, <1>3, <1>9, <1>10, <1>11

-----------------------------------------------------------------------------
(* Sending *)

\* What a send adds to the log: the parts of a new command.
LEMMA EmitParts ==
    ASSUME Inv, Following, NEW count \in 1 .. Mod, NEW garbled \in BOOLEAN,
           NEW used \in 1 .. count, NEW kept \in 0 .. used, NEW out \in 0 .. kept,
           Emit(count, garbled, kept, out, used),
           NEW L, L = First + Len(log), NEW M, M = NextMessage
    PROVE  /\ L \in Nat /\ M \in Nat /\ Numbers = First .. L - 1 /\ Numbers' = First .. L + used - 1
           /\ \A n \in Numbers : Sent(n)' = Sent(n) /\ Sent(n).msg < M
           /\ \A j \in 0 .. used - 1 :
                /\ NumberOf(Part(count, garbled, j)) = L + j
                /\ Sent(L + j)' = Part(count, garbled, j)
                /\ Sent(L + j)'.msg = M
                /\ Sent(L + j)'.fragmented <=> ~(j = 0 <=> j = count - 1)
           /\ Numbers = {} => M = 1
           /\ Numbers # {} => L - 1 \in Numbers /\ M = Sent(L - 1).msg + 1
<1>1. First \in Nat /\ Len(log) \in Nat /\ L \in Nat /\ Numbers = First .. L - 1
    <2>1. First \in Nat /\ Len(log) \in Nat
        BY LogIs
    <2> QED BY <2>1, SMT DEF Numbers
<1>2. used \in Nat /\ count \in Nat
    BY WindowAssumption, SMT
<1>3. Counted' /\ log' \in Seq(Packet) /\ \A n \in Numbers : n \in Numbers' /\ Sent(n)' = Sent(n)
    BY EmitLog
<1>4. /\ \A j \in 0 .. used - 1 : /\ Part(count, garbled, j) \in Packet
                                  /\ NumberOf(Part(count, garbled, j)) = L + j
      /\ \A j \in 0 .. used - 1, p \in Packet : p = Part(count, garbled, j) => Genuine(p)'
      /\ \A n \in Numbers' : n \in Numbers
            \/ \E j \in 0 .. used - 1 : n = NumberOf(Part(count, garbled, j))
    BY EmitLog
<1>5. ASSUME NEW j \in 0 .. used - 1
      PROVE  L + j \in Numbers' /\ Sent(L + j)' = Part(count, garbled, j)
    <2>1. PICK p \in Packet : p = Part(count, garbled, j)
        BY <1>4
    <2>2. Genuine(p)' /\ NumberOf(p) = L + j
        BY <1>4, <2>1
    <2>3. NumberOf(p)' = L + j
        BY <2>2 DEF NumberOf, Number
    <2>4. L + j \in Numbers' /\ p = Sent(L + j)'
        BY <2>2, <2>3 DEF Genuine, Sent
    <2> QED BY <2>1, <2>4
<1>6. Numbers' = First .. L + used - 1
    <2>1. ASSUME NEW n \in Numbers' PROVE n \in First .. L + used - 1
        <3>1. CASE n \in Numbers
            BY <1>1, <1>2, <3>1, SMT
        <3>2. CASE n \notin Numbers
            <4>1. PICK j \in 0 .. used - 1 : n = L + j
                BY <1>4, <3>2
            <4> QED BY <1>1, <1>2, <4>1, SMT
        <3> QED BY <3>1, <3>2
    <2>2. ASSUME NEW n \in First .. L + used - 1 PROVE n \in Numbers'
        <3>1. CASE n < L
            BY <1>1, <1>3, <3>1, SMT
        <3>2. CASE ~(n < L)
            <4>1. n - L \in 0 .. used - 1 /\ L + (n - L) = n
                BY <1>1, <1>2, <3>2, SMT
            <4>2. PICK j \in 0 .. used - 1 : L + j = n
                BY <4>1
            <4> QED BY <1>5, <4>2
        <3> QED BY <3>1, <3>2
    <2> QED BY <2>1, <2>2
<1>7. ASSUME NEW j \in 0 .. used - 1
      PROVE  /\ Sent(L + j)'.msg = M
             /\ Sent(L + j)'.fragmented <=> ~(j = 0 <=> j = count - 1)
    <2>1. Part(count, garbled, j).msg = M
        BY DEF Part
    <2>2. Part(count, garbled, j).fragmented <=> ~(j = 0 <=> j = count - 1)
        BY DEF Part
    <2> QED BY <1>5, <2>1, <2>2
<1>8. Numbers = {} => M = 1
    <2> SUFFICES ASSUME Numbers = {} PROVE M = 1
        OBVIOUS
    <2>1. Len(log) = 0
        <3>1. ~(First <= L - 1)
            BY <1>1, SMT
        <3> QED BY <1>1, <3>1, SMT
    <2>2. log = <<>>
        BY <2>1, EmptySeq DEF Inv, TypeOK
    <2> QED BY <2>2 DEF NextMessage
<1>9. ASSUME Numbers # {} PROVE L - 1 \in Numbers /\ M = Sent(L - 1).msg + 1
    <2>1. First <= L - 1 /\ Len(log) >= 1 /\ L - 1 \in Numbers
        BY <1>1, <1>9, SMT
    <2>2. log # <<>>
        BY <2>1, SMT
    <2>3. (L - 1) - First + 1 = Len(log)
        BY <1>1, SMT
    <2>4. Sent(L - 1) = log[Len(log)]
        BY <2>3 DEF Sent
    <2> QED BY <2>1, <2>2, <2>4 DEF NextMessage
<1>10. ASSUME NEW n \in Numbers PROVE Sent(n).msg < M
    <2>0. n <= L - 1
        BY <1>1, SMT
    <2>1. L - 1 \in Numbers /\ M = Sent(L - 1).msg + 1
        BY <1>9
    <2>2. Sent(n).msg <= Sent(L - 1).msg
        BY <2>0, <2>1 DEF Following
    <2>3. Sent(n).msg \in Nat /\ Sent(L - 1).msg \in Nat
        BY <2>1, LogIs
    <2> QED BY <2>1, <2>2, <2>3, SMT
<1>11. M \in Nat
    <2>1. CASE Numbers = {}
        BY <1>8, <2>1
    <2>2. CASE Numbers # {}
        <3>1. L - 1 \in Numbers /\ M = Sent(L - 1).msg + 1
            BY <1>9, <2>2
        <3>2. PICK x \in Nat : x = Sent(L - 1).msg
            BY <3>1, LogIs
        <3>3. M = x + 1
            BY <3>1, <3>2
        <3> QED BY <3>3
    <2> QED BY <2>1, <2>2
<1> QED BY <1>1, <1>3, <1>4, <1>5, <1>6, <1>7, <1>8, <1>9, <1>10, <1>11

\* The step appends the parts of a command with number M: used parts, of which the
\* first out are registered.  It sends all of them, is cut short, or throws.
Appends(count, used, out, L, M) ==
    /\ L \in Nat /\ M \in Nat /\ First \in Nat /\ First <= L
    /\ count \in Nat /\ used \in 1 .. count
    /\ \/ out = used /\ used = count /\ cut' = cut
       \/ out = used /\ used < count /\ cut' = cut \cup {M}
       \/ out \in Nat /\ used = out + 1 /\ cut' = cut
    /\ Numbers = First .. L - 1 /\ Numbers' = First .. L + used - 1
    /\ \A n \in Numbers : Sent(n)' = Sent(n) /\ Sent(n).msg \in Nat /\ Sent(n).msg < M
    /\ \A n \in L .. L + used - 1 :
          /\ Sent(n)'.msg = M
          /\ Sent(n)'.fragmented <=> ~(n = L <=> n = L + count - 1)
    /\ Numbers = {} => M = 1
    /\ Numbers # {} => L - 1 \in Numbers /\ M = Sent(L - 1).msg + 1

LEMMA AppendsFollow ==
    ASSUME Following, NEW count, NEW used, NEW out, NEW L, NEW M, Appends(count, used, out, L, M)
    PROVE  Following'
<1>1. /\ L \in Nat /\ M \in Nat /\ First \in Nat /\ First <= L /\ used \in Nat /\ used >= 1
      /\ Numbers = First .. L - 1 /\ Numbers' = First .. L + used - 1
    BY DEF Appends
<1>2. ASSUME NEW m \in Numbers', NEW n \in Numbers', m <= n
      PROVE  Sent(m)'.msg <= Sent(n)'.msg
    <2>1. CASE n \in Numbers
        <3>1. m \in Numbers
            BY <1>1, <1>2, <2>1, SMT
        <3> QED BY <1>2, <2>1, <3>1 DEF Following, Appends
    <2>2. CASE n \notin Numbers
        <3>1. n \in L .. L + used - 1
            BY <1>1, <2>2, SMT
        <3>2. Sent(n)'.msg = M
            BY <3>1 DEF Appends
        <3>3. CASE m \in Numbers
            <4>1. Sent(m)'.msg \in Nat /\ Sent(m)'.msg < M
                BY <3>3 DEF Appends
            <4> QED BY <1>1, <3>2, <4>1
        <3>4. CASE m \notin Numbers
            <4>1. m \in L .. L + used - 1
                BY <1>1, <3>4, SMT
            <4>2. Sent(m)'.msg = M
                BY <4>1 DEF Appends
            <4> QED BY <1>1, <3>2, <4>2
        <3> QED BY <3>3, <3>4
    <2> QED BY <2>1, <2>2
<1>3. ASSUME NEW n \in Numbers', NEW msg \in 1 .. Sent(n)'.msg
      PROVE  \E m \in First .. n : Sent(m)'.msg = msg
    <2>1. CASE n \in Numbers
        <3>1. PICK m \in First .. n : Sent(m).msg = msg
            BY <1>3, <2>1 DEF Following, Appends
        <3>2. m \in Numbers
            BY <1>1, <2>1, <3>1, SMT
        <3> QED BY <3>1, <3>2 DEF Appends
    <2>2. CASE n \notin Numbers
        <3>1. n \in L .. L + used - 1 /\ n \in First .. n
            BY <1>1, <2>2, SMT
        <3>2. Sent(n)'.msg = M
            BY <3>1 DEF Appends
        <3>3. CASE msg = M
            BY <3>1, <3>2, <3>3
        <3>4. CASE msg # M
            <4>1. msg \in 1 .. M - 1
                BY <1>1, <1>3, <3>2, <3>4, SMT
            <4>2. Numbers # {}
                <5>1. M # 1
                    BY <1>1, <4>1, SMT
                <5> QED BY <5>1 DEF Appends
            <4>3. L - 1 \in Numbers /\ M = Sent(L - 1).msg + 1 /\ Sent(L - 1).msg \in Nat
                BY <4>2 DEF Appends
            <4>4. msg \in 1 .. Sent(L - 1).msg
                BY <1>1, <4>1, <4>3, SMT
            <4>5. PICK m \in First .. L - 1 : Sent(m).msg = msg
                BY <4>3, <4>4 DEF Following
            <4>6. m \in Numbers /\ m \in First .. n
                BY <1>1, <3>1, SMT
            <4> QED BY <4>5, <4>6 DEF Appends
        <3> QED BY <3>3, <3>4
    <2> QED BY <2>1, <2>2
<1> QED BY <1>2, <1>3, FirstConstant DEF Following

LEMMA PrimedStarts ==
    ASSUME NEW n, NEW k, k = n - 1
    PROVE  /\ Starts(n)' <=> n = First \/ Sent(k)'.msg # Sent(n)'.msg
           /\ GoesOn(n)' <=> n + 1 \in Numbers' /\ Sent(n + 1)'.msg = Sent(n)'.msg
BY FirstConstant DEF Starts, GoesOn, Sent

\* The packets that were there start where they started.
LEMMA OldStarts ==
    ASSUME NEW count, NEW used, NEW out, NEW L, NEW M, Appends(count, used, out, L, M),
           NEW n \in Numbers
    PROVE  (Starts(n)' <=> Starts(n)) /\ (GoesOn(n)' <=> GoesOn(n))
<1>1. /\ L \in Nat /\ M \in Nat /\ First \in Nat /\ First <= L /\ used \in Nat /\ used >= 1
      /\ Numbers = First .. L - 1 /\ Numbers' = First .. L + used - 1
    BY DEF Appends
<1>2. PICK k \in Int : k = n - 1
    BY <1>1, SMT
<1>3. Sent(n)' = Sent(n) /\ Sent(n).msg \in Nat /\ Sent(n).msg < M
    BY DEF Appends
<1>4. Starts(n)' <=> Starts(n)
    <2>1. CASE n = First
        BY <2>1, <1>2, PrimedStarts, StartsIs
    <2>2. CASE n # First
        <3>1. k \in Numbers
            BY <1>1, <1>2, <2>2, SMT
        <3>2. Sent(k)' = Sent(k)
            BY <3>1 DEF Appends
        <3> QED BY <1>2, <1>3, <3>2, PrimedStarts, StartsIs
    <2> QED BY <2>1, <2>2
<1>5. GoesOn(n)' <=> GoesOn(n)
    <2> DEFINE i == n + 1
    <2>1. CASE i \in Numbers
        <3>1. i \in Numbers' /\ Sent(i)' = Sent(i)
            <4>1. i \in Numbers'
                BY <1>1, <2>1, SMT
            <4> QED BY <2>1, <4>1 DEF Appends
        <3> QED BY <1>2, <1>3, <2>1, <3>1, PrimedStarts DEF GoesOn
    <2>2. CASE i \notin Numbers
        <3>1. i \in L .. L + used - 1
            BY <1>1, <2>2, SMT
        <3>2. Sent(i)'.msg = M
            BY <3>1 DEF Appends
        <3>3. Sent(i)'.msg # Sent(n)'.msg
            BY <1>1, <1>3, <3>2, SMT
        <3> QED BY <1>2, <2>2, <3>3, PrimedStarts DEF GoesOn
    <2> QED BY <2>1, <2>2
<1> QED BY <1>4, <1>5

LEMMA AppendsFlags ==
    ASSUME Flagged, CutSent, NEW count, NEW used, NEW out, NEW L, NEW M, Appends(count, used, out, L, M),
           unsent \subseteq unsent', \A n \in L + out .. L + used - 1 : n \in unsent'
    PROVE  Flagged'
<1>1. /\ L \in Nat /\ M \in Nat /\ First \in Nat /\ First <= L
      /\ used \in Nat /\ used >= 1 /\ count \in Nat /\ used <= count
      /\ Numbers = First .. L - 1 /\ Numbers' = First .. L + used - 1
      /\ \/ out = used /\ used = count /\ cut' = cut
         \/ out = used /\ used < count /\ cut' = cut \cup {M}
         \/ out \in Nat /\ used = out + 1 /\ cut' = cut
    BY DEF Appends
<1>0. M \notin cut /\ \A n \in Numbers : Sent(n).msg \in cut' <=> Sent(n).msg \in cut
    <2>1. \A n \in Numbers : Sent(n).msg # M
        <3>1. \A n \in Numbers : Sent(n).msg \in Nat /\ Sent(n).msg < M
            BY DEF Appends
        <3> QED BY <1>1, <3>1, SMT
    <2>2. cut' = cut \/ cut' = cut \cup {M}
        BY <1>1
    <2> QED BY <2>1, <2>2 DEF CutSent
<1>2. ASSUME NEW n \in Numbers', n \notin unsent'
      PROVE  GoesOn(n)' \/ Sent(n)'.msg \in cut' <=> (Starts(n)' <=> Sent(n)'.fragmented)
    <2>1. CASE n \in Numbers
        <3>1. Sent(n)' = Sent(n) /\ n \notin unsent
            BY <1>2, <2>1 DEF Appends
        <3> QED BY <1>0, <2>1, <3>1, OldStarts DEF Flagged
    <2>2. CASE n \notin Numbers
        <3>1. n \in L .. L + used - 1 /\ n \in Nat
            BY <1>1, <2>2, SMT
        <3>2. n < L + out
            BY <1>1, <1>2, <3>1, SMT
        <3>3. PICK k \in Int : k = n - 1
            BY <3>1, SMT
        <3>4. Sent(n)'.msg = M /\ (Sent(n)'.fragmented <=> ~(n = L <=> n = L + count - 1))
            BY <3>1 DEF Appends
        <3>5. Starts(n)' <=> n = L
            <4>1. CASE n = L /\ n # First
                <5>1. k \in Numbers
                    <6>1. First <= L - 1 /\ k = L - 1
                        BY <1>1, <3>3, <4>1, SMT
                    <6> QED BY <1>1, <6>1, SMT
                <5>2. Sent(k)'.msg < M /\ Sent(k)'.msg \in Nat
                    BY <5>1 DEF Appends
                <5>3. Sent(k)'.msg # M
                    BY <1>1, <5>2, SMT
                <5> QED BY <3>3, <3>4, <4>1, <5>3, PrimedStarts
            <4>2. CASE n = First
                <5>1. n = L
                    BY <1>1, <3>1, <4>2, SMT
                <5> QED BY <3>3, <4>2, <5>1, PrimedStarts
            <4>3. CASE n # L
                <5>1. k \in L .. L + used - 1 /\ n # First
                    BY <1>1, <3>1, <3>3, <4>3, SMT
                <5>2. Sent(k)'.msg = M
                    BY <5>1 DEF Appends
                <5> QED BY <3>3, <3>4, <4>3, <5>1, <5>2, PrimedStarts
            <4> QED BY <4>1, <4>2, <4>3
        <3>6. GoesOn(n)' \/ M \in cut' <=> n # L + count - 1
            <4>1. CASE n + 1 \in L .. L + used - 1
                <5>1. Sent(n + 1)'.msg = M /\ n + 1 \in Numbers' /\ n # L + count - 1
                    <6>1. n + 1 \in Numbers' /\ n # L + count - 1
                        BY <1>1, <3>1, <4>1, SMT
                    <6> QED BY <4>1, <6>1 DEF Appends
                <5> QED BY <3>3, <3>4, <5>1, PrimedStarts
            <4>2. CASE n + 1 \notin L .. L + used - 1
                <5>1. n + 1 \notin Numbers' /\ n = L + used - 1 /\ out = used
                    BY <1>1, <3>1, <3>2, <4>2, SMT
                <5>2. ~GoesOn(n)'
                    BY <3>3, <5>1, PrimedStarts
                <5>3. CASE used = count /\ cut' = cut
                    BY <1>0, <5>1, <5>2, <5>3
                <5>4. CASE used < count /\ cut' = cut \cup {M}
                    <6>1. n # L + count - 1
                        BY <1>1, <5>1, <5>4, SMT
                    <6> QED BY <5>4, <6>1
                <5>5. (used = count /\ cut' = cut) \/ (used < count /\ cut' = cut \cup {M})
                    BY <1>1, <5>1, SMT
                <5> QED BY <5>3, <5>4, <5>5
            <4> QED BY <4>1, <4>2
        <3> QED BY <3>4, <3>5, <3>6
    <2> QED BY <2>1, <2>2
<1> QED BY <1>2, FirstConstant DEF Flagged

\* The commands sent before are the same.
LEMMA OldCommands ==
    ASSUME NEW count, NEW used, NEW out, NEW L, NEW M, Appends(count, used, out, L, M),
           NEW msg, msg # M
    PROVE  PartsOf(msg)' = PartsOf(msg) /\ (IsGarbled(msg)' <=> IsGarbled(msg))
<1>1. /\ L \in Nat /\ First \in Nat /\ used \in Nat
      /\ Numbers = First .. L - 1 /\ Numbers' = First .. L + used - 1
    BY DEF Appends
<1>2. \A n \in Numbers : n \in Numbers' /\ Sent(n)' = Sent(n)
    <2>1. \A n \in Numbers : n \in Numbers'
        BY <1>1, SMT
    <2> QED BY <2>1 DEF Appends
<1>3. ASSUME NEW n \in Numbers', Sent(n)'.msg = msg PROVE n \in Numbers
    <2> SUFFICES ASSUME n \notin Numbers PROVE FALSE
        OBVIOUS
    <2>1. n \in L .. L + used - 1
        BY <1>1, SMT
    <2> QED BY <1>3, <2>1 DEF Appends
<1>4. \A n : n \in Numbers' /\ Sent(n)'.msg = msg <=> n \in Numbers /\ Sent(n).msg = msg
    BY <1>2, <1>3
<1>5. PartsOf(msg)' = PartsOf(msg)
    BY <1>4 DEF PartsOf
<1>6. \A n \in PartsOf(msg) : Sent(n)' = Sent(n)
    BY <1>2 DEF PartsOf
<1>7. IsGarbled(msg)' <=> IsGarbled(msg)
    BY <1>5, <1>6 DEF IsGarbled
<1> QED BY <1>5, <1>7

\* The commands that were there are cut short, or not, as before.
LEMMA OldCuts ==
    ASSUME NEW count, NEW used, NEW out, NEW L, NEW M, Appends(count, used, out, L, M),
           NEW msg \in Nat, msg < M
    PROVE  Uncut(msg)' <=> Uncut(msg)
<1>1. cut' = cut \/ cut' = cut \cup {M}
    BY DEF Appends
<1> QED BY <1>1 DEF Uncut

\* What was delivered is still delivered.
LEMMA AppendsDelivered ==
    ASSUME Inv, Behind, DeliveredInOrder, AtStart, UNCHANGED <<window, delivered, receiverClosed>>,
           NEW count, NEW used, NEW out, NEW L, NEW M, Appends(count, used, out, L, M),
           L = First + Len(log)
    PROVE  Behind' /\ DeliveredInOrder'
<1>1. /\ L \in Nat /\ M \in Nat /\ First \in Nat /\ used \in Nat
      /\ Numbers = First .. L - 1 /\ Numbers' = First .. L + used - 1
    BY DEF Appends
<1>2. Position(window)' = Position(window) /\ Position(window) \in First .. L
    BY DEF AtStart, Position, Number
<1>3. \A n \in Numbers : n \in Numbers' /\ Sent(n)' = Sent(n) /\ Sent(n).msg \in Nat /\ Sent(n).msg < M
    <2>1. \A n \in Numbers : n \in Numbers'
        BY <1>1, SMT
    <2> QED BY <2>1 DEF Appends
<1>4. ASSUME NEW msg \in Nat, msg < M
      PROVE  /\ PartsOf(msg)' = PartsOf(msg) /\ (IsGarbled(msg)' <=> IsGarbled(msg))
             /\ Uncut(msg)' <=> Uncut(msg)
    <2>1. msg # M
        BY <1>1, <1>4, SMT
    <2> QED BY <1>4, <2>1, OldCommands, OldCuts
<1>5. ASSUME NEW k \in 1 .. Len(delivered)
      PROVE  /\ delivered[k][1].msg \in Nat /\ delivered[k][1].msg < M
             /\ IsPiece(delivered[k])'
             /\ IsWhole(delivered[k]) => IsWhole(delivered[k])'
    <2>1. PICK cmd \in Seq(Packet) : cmd = delivered[k]
        BY DEF Inv, TypeOK
    <2>2. IsPiece(cmd)
        BY <2>1 DEF DeliveredInOrder
    <2>3. PICK a, b \in Numbers : /\ a <= b /\ cmd = [i \in 1 .. b - a + 1 |-> Sent(a + i - 1)]
                                  /\ cmd[1] = Sent(a)
        BY <2>2, PieceEnds
    <2>4. PICK msg \in Nat : msg = cmd[1].msg /\ msg < M
        BY <1>3, <2>3
    <2>5. ASSUME NEW x \in Numbers, NEW y \in Numbers, x <= y,
                 cmd = [i \in 1 .. y - x + 1 |-> Sent(x + i - 1)]
          PROVE  x \in Numbers' /\ y \in Numbers' /\ cmd = [i \in 1 .. y - x + 1 |-> Sent(x + i - 1)']
        <3>1. \A i \in 1 .. y - x + 1 : x + i - 1 \in Numbers
            BY <1>1, <2>5, SMT
        <3>2. \A i \in 1 .. y - x + 1 : Sent(x + i - 1)' = Sent(x + i - 1)
            BY <1>3, <3>1
        <3> QED BY <1>3, <2>5, <3>2
    <2>6. IsPiece(cmd)'
        BY <2>3, <2>5 DEF IsPiece, Sent
    <2>7. ASSUME IsWhole(cmd) PROVE IsWhole(cmd)'
        <3>1. PICK x, y \in Numbers : /\ x <= y /\ PartsOf(cmd[1].msg) = x .. y
                                      /\ cmd = [i \in 1 .. y - x + 1 |-> Sent(x + i - 1)]
            BY <2>7 DEF IsWhole
        <3>2. PartsOf(msg)' = x .. y
            BY <1>4, <2>4, <3>1
        <3>3. PartsOf(cmd[1].msg)' = x .. y
            BY <2>4, <3>2 DEF PartsOf
        <3>4. x \in Numbers' /\ y \in Numbers' /\ cmd = [i \in 1 .. y - x + 1 |-> Sent(x + i - 1)']
            BY <2>5, <3>1
        <3> QED BY <3>1, <3>3, <3>4 DEF IsWhole, PartsOf, Sent
    <2>8. delivered' = delivered
        OBVIOUS
    <2>9. IsPiece(delivered[k])'
        BY <2>1, <2>6, <2>8 DEF IsPiece, Sent
    <2>10. ASSUME IsWhole(delivered[k]) PROVE IsWhole(delivered[k])'
        <3>1. IsWhole(cmd)
            BY <2>1, <2>10
        <3>2. IsWhole(cmd)'
            BY <2>7, <3>1
        <3> QED BY <2>1, <2>8, <3>2 DEF IsWhole, PartsOf, Sent
    <2> QED BY <2>1, <2>4, <2>9, <2>10
<1>6. DeliveredInOrder'
    <2>1. ASSUME NEW k \in 1 .. Len(delivered), Uncut(delivered[k][1].msg)'
          PROVE  /\ IsWhole(delivered[k])' /\ ~delivered[k][1].garbled
                 /\ \A msg \in 1 .. delivered[k][1].msg :
                       IsGarbled(msg)' \/ \E j \in 1 .. k : delivered[j][1].msg = msg
        <3>1. PICK top \in Nat : top = delivered[k][1].msg /\ top < M
            BY <1>5
        <3>2. Uncut(top)'
            BY <2>1, <3>1 DEF Uncut
        <3>3. Uncut(top)
            BY <1>4, <3>1, <3>2
        <3>4. /\ IsWhole(delivered[k]) /\ ~delivered[k][1].garbled
              /\ \A msg \in 1 .. delivered[k][1].msg :
                    IsGarbled(msg) \/ \E j \in 1 .. k : delivered[j][1].msg = msg
            BY <3>1, <3>3 DEF DeliveredInOrder
        <3>5. ASSUME NEW msg \in 1 .. top PROVE IsGarbled(msg)' <=> IsGarbled(msg)
            <4>1. msg \in Nat /\ msg < M
                BY <1>1, <3>1, SMT
            <4> QED BY <1>4, <4>1
        <3> QED BY <1>5, <3>1, <3>4, <3>5
    <2>2. \A j, k \in 1 .. Len(delivered) :
             j < k => NumberOf(delivered[j][Len(delivered[j])]) < NumberOf(delivered[k][1])
        BY DEF DeliveredInOrder
    <2>3. \A p : NumberOf(p)' = NumberOf(p')
        BY DEF NumberOf, Number
    <2>4. delivered' = delivered
        OBVIOUS
    <2> QED BY <1>5, <2>1, <2>2, <2>4 DEF DeliveredInOrder, NumberOf, Number
<1>7. Behind'
    <2>1. \A k \in 1 .. Len(delivered) :
             NumberOf(delivered[k][Len(delivered[k])]) < Position(window)
        BY DEF Behind
    <2>2. ASSUME ~receiverClosed, NEW n \in Numbers', n < Position(window), Uncut(Sent(n).msg)'
          PROVE  (IsGarbled(Sent(n).msg) \/ Taken(Sent(n).msg))'
        <3>1. n \in Numbers
            BY <1>1, <1>2, <2>2, SMT
        <3>2. PICK msg \in Nat : msg = Sent(n).msg /\ msg < M /\ Sent(n)'.msg = msg
            BY <1>3, <3>1
        <3>3. Uncut(msg)'
            BY <2>2, <3>2 DEF Uncut, Sent
        <3>4. IsGarbled(msg) \/ Taken(msg)
            BY <1>4, <2>2, <3>1, <3>2, <3>3 DEF Behind
        <3>5. IsGarbled(msg)' \/ Taken(msg)'
            BY <1>4, <3>2, <3>4 DEF Taken
        <3> QED BY <3>2, <3>5 DEF IsGarbled, Taken, PartsOf, Sent
    <2>3. delivered' = delivered /\ receiverClosed' = receiverClosed
        OBVIOUS
    <2> QED BY <1>2, <2>1, <2>2, <2>3 DEF Behind, NumberOf, Number
<1> QED BY <1>6, <1>7

LEMMA EmitOrder ==
    ASSUME OrderInv, Inv', NEW count \in 1 .. Mod, NEW garbled \in BOOLEAN,
           NEW used \in 1 .. count, NEW kept \in 0 .. used, NEW out \in 0 .. kept,
           \/ kept = used /\ used = count /\ unsent' = unsent /\ cut' = cut
           \/ kept = used /\ used < count /\ unsent' = unsent /\ cut' = cut \cup {NextMessage}
           \/ /\ used = kept + 1 /\ cut' = cut
              /\ unsent' = unsent \cup {NumberOf(Part(count, garbled, kept))},
           Emit(count, garbled, kept, out, used), UNCHANGED receiverVars
    PROVE  OrderInv'
<1>1. Inv /\ Following /\ Flagged /\ CutSent /\ NeverOut /\ AtStart /\ Behind /\ DeliveredInOrder
    BY DEF OrderInv
<1>2. PICK L : L = First + Len(log)
    OBVIOUS
<1>3. PICK M : M = NextMessage
    OBVIOUS
<1>4. /\ L \in Nat /\ M \in Nat /\ Numbers = First .. L - 1 /\ Numbers' = First .. L + used - 1
      /\ \A n \in Numbers : Sent(n)' = Sent(n) /\ Sent(n).msg < M
      /\ \A j \in 0 .. used - 1 :
            /\ NumberOf(Part(count, garbled, j)) = L + j
            /\ Sent(L + j)' = Part(count, garbled, j)
            /\ Sent(L + j)'.msg = M
            /\ Sent(L + j)'.fragmented <=> ~(j = 0 <=> j = count - 1)
      /\ Numbers = {} => M = 1
      /\ Numbers # {} => L - 1 \in Numbers /\ M = Sent(L - 1).msg + 1
    BY <1>1, <1>2, <1>3, EmitParts
<1>5. /\ First \in Nat /\ First <= L /\ count \in Nat /\ used \in Nat /\ kept \in Nat
      /\ \/ kept = used /\ used = count /\ cut' = cut
         \/ kept = used /\ used < count /\ cut' = cut \cup {M}
         \/ kept \in Nat /\ used = kept + 1 /\ cut' = cut
    <2>1. First \in Nat /\ Len(log) \in Nat
        BY <1>1, LogIs
    <2>2. count \in Nat /\ used \in Nat /\ kept \in Nat
        BY WindowAssumption, SMT
    <2>3. First <= L
        BY <1>2, <2>1, SMT
    <2> QED BY <1>3, <2>1, <2>2, <2>3
<1>6. Appends(count, used, kept, L, M)
    <2>1. ASSUME NEW n \in L .. L + used - 1
          PROVE  Sent(n)'.msg = M /\ (Sent(n)'.fragmented <=> ~(n = L <=> n = L + count - 1))
        <3>1. n - L \in 0 .. used - 1 /\ L + (n - L) = n
            BY <1>4, <1>5, SMT
        <3>2. PICK j \in 0 .. used - 1 : L + j = n
            BY <3>1
        <3>3. Sent(L + j)'.msg = M /\ (Sent(L + j)'.fragmented <=> ~(j = 0 <=> j = count - 1))
            BY <1>4
        <3>4. (j = 0 <=> n = L) /\ (j = count - 1 <=> n = L + count - 1)
            BY <1>4, <1>5, <3>2, SMT
        <3> QED BY <3>2, <3>3, <3>4
    <2>2. \A n \in Numbers : Sent(n).msg \in Nat
        BY <1>1, LogIs
    <2>3. used \in 1 .. count
        OBVIOUS
    <2> QED BY <1>4, <1>5, <2>1, <2>2, <2>3 DEF Appends
<1>7. Following'
    BY <1>1, <1>6, AppendsFollow
<1>8. UNCHANGED <<window, flat, delivered, receiverClosed>>
    BY DEF receiverVars
<1>9. Behind' /\ DeliveredInOrder'
    BY <1>1, <1>2, <1>6, <1>8, AppendsDelivered
\* The number that a send which throws uses up is the last one.
<1>11. /\ unsent \subseteq unsent' /\ \A n \in L + kept .. L + used - 1 : n \in unsent'
       /\ \A n \in unsent' : n \in unsent \/ (n = L + kept /\ used = kept + 1)
    <2>1. CASE used = kept + 1 /\ unsent' = unsent \cup {NumberOf(Part(count, garbled, kept))}
        <3>1. kept \in 0 .. used - 1
            BY <1>5, <2>1, SMT
        <3>2. unsent' = unsent \cup {L + kept}
            BY <1>4, <2>1, <3>1
        <3>3. \A n \in L + kept .. L + used - 1 : n = L + kept
            BY <1>4, <1>5, <2>1, SMT
        <3> QED BY <2>1, <3>2, <3>3
    <2>2. CASE kept = used /\ unsent' = unsent
        <3>1. \A n \in L + kept .. L + used - 1 : FALSE
            BY <1>4, <1>5, <2>2, SMT
        <3> QED BY <2>2, <3>1
    <2> QED BY <2>1, <2>2
<1>12. Flagged'
    BY <1>1, <1>6, <1>11, AppendsFlags
<1>13. Position(window)' = Position(window) /\ Position(window) \in First .. L
    BY <1>1, <1>2, <1>8 DEF AtStart, Position, Number
<1>14. AtStart'
    <2>1. First + Len(log') = L + used
        <3>1. Numbers' = First .. First + Len(log') - 1 /\ Len(log') \in Nat
            BY FirstConstant, LenProperties DEF Numbers, Inv, TypeOK
        <3>2. First .. First + Len(log') - 1 = First .. L + used - 1
            BY <1>4, <3>1
        <3>3. L + used - 1 \in First .. L + used - 1
            BY <1>4, <1>5, SMT
        <3>4. L + used - 1 <= First + Len(log') - 1
            BY <1>4, <1>5, <3>1, <3>2, <3>3, SMT
        <3>5. First + Len(log') - 1 \in First .. First + Len(log') - 1
            BY <1>4, <1>5, <3>1, <3>4, SMT
        <3>6. First + Len(log') - 1 <= L + used - 1
            BY <1>4, <1>5, <3>1, <3>2, <3>5, SMT
        <3> QED BY <1>4, <1>5, <3>1, <3>4, <3>6, SMT
    <2>2. Position(window)' \in First .. L + used
        BY <1>4, <1>5, <1>13, SMT
    <2>3. ASSUME Position(window) \in Numbers', \A c \in cut' : Sent(Position(window))'.msg <= c
          PROVE  Starts(Position(window))'
        <3>1. PICK P \in First .. L : P = Position(window)
            BY <1>13
        <3>2. CASE P \in Numbers
            <4>1. \A c \in cut : Sent(P).msg <= c
                <5>1. Sent(P)' = Sent(P) /\ cut \subseteq cut'
                    BY <1>4, <1>5, <3>2
                <5>2. Sent(Position(window))' = Sent(P)'
                    BY <1>13, <3>1 DEF Sent
                <5> QED BY <2>3, <5>1, <5>2
            <4>2. Starts(P)
                BY <1>1, <3>1, <3>2, <4>1 DEF AtStart
            <4>3. Starts(P)'
                BY <1>6, <3>2, <4>2, OldStarts
            <4> QED BY <1>13, <3>1, <4>3 DEF Starts
        <3>3. CASE P \notin Numbers
            <4>1. P = L
                BY <1>4, <1>5, <3>3, SMT
            <4>2. Sent(P)'.msg = M
                <5>1. 0 \in 0 .. used - 1 /\ L + 0 = P
                    BY <1>4, <1>5, <4>1, SMT
                <5> QED BY <1>4, <5>1
            <4>3. Starts(P)'
                <5>1. PICK k \in Int : k = P - 1
                    BY <3>1, <1>4, <1>5, SMT
                <5>2. CASE P = First
                    BY <5>1, <5>2, PrimedStarts
                <5>3. CASE P # First
                    <6>1. k \in Numbers
                        BY <1>4, <1>5, <4>1, <5>1, <5>3, SMT
                    <6>2. Sent(k)'.msg < M /\ Sent(k)'.msg \in Nat
                        BY <1>6, <6>1 DEF Appends
                    <6>3. Sent(k)'.msg # Sent(P)'.msg
                        BY <1>4, <4>2, <6>2, SMT
                    <6> QED BY <5>1, <6>3, PrimedStarts
                <5> QED BY <5>2, <5>3
            <4> QED BY <1>13, <3>1, <4>3 DEF Starts
        <3> QED BY <3>2, <3>3
    <2>4. (Position(window) \in Numbers /\ \A c \in cut : Sent(Position(window)).msg <= c)'
             => Starts(Position(window))'
        BY <1>13, <2>3 DEF Sent
    <2> QED BY <1>13, <2>1, <2>2, <2>4, FirstConstant DEF AtStart
<1>15. NeverOut'
    <2> SUFFICES ASSUME NEW n \in unsent'
                 PROVE  n \in Numbers' /\ ~Received(n)' /\ Sent(n)' \notin data' \cup packetAckManager'
        BY DEF NeverOut, Received, Sent
    <2>1. n \in unsent \/ (n = L + kept /\ used = kept + 1)
        BY <1>11
    <2>2. n \in Numbers' /\ n \in Nat /\ (n \in unsent => n \in Numbers)
        <3>1. CASE n \in unsent
            <4>1. n \in Numbers
                BY <1>1, <3>1 DEF NeverOut
            <4> QED BY <1>4, <1>5, <4>1, SMT
        <3>2. CASE n \notin unsent
            BY <1>4, <1>5, <2>1, <3>2, SMT
        <3> QED BY <3>1, <3>2
    <2>3. ~Received(n)
        <3>1. CASE n \in unsent
            BY <1>1, <3>1 DEF NeverOut
        <3>2. CASE n \notin unsent
            <4>1. n >= L
                BY <1>4, <1>5, <2>1, <3>2, SMT
            <4>2. ~(n < Position(window))
                BY <1>4, <1>5, <1>13, <2>2, <4>1, SMT
            <4>3. ASSUME n - Position(window) \in Places, flat[n - Position(window)] # Empty
                  PROVE  FALSE
                <5>1. PICK i \in Places : i = n - Position(window)
                    BY <4>3
                <5>2. Position(window) + i \in Numbers
                    BY <1>1, <4>3, <5>1 DEF Inv, SlotsInSequence
                <5>3. Position(window) + i = n
                    BY <1>4, <1>5, <1>13, <2>2, <5>1, SMT
                <5> QED BY <1>4, <1>5, <2>2, <4>1, <5>2, <5>3, SMT
            <4> QED BY <4>2, <4>3 DEF Received
        <3> QED BY <3>1, <3>2
    <2>4. ~Received(n)'
        <3>1. \A m \in Numbers : m \in Numbers' /\ Sent(m)' = Sent(m)
            <4>1. \A m \in Numbers : m \in Numbers'
                BY <1>4, <1>5, SMT
            <4> QED BY <1>4, <4>1
        <3>2. Received(n)' <=> Received(n)
            BY <1>1, <3>1, ReceiverStill
        <3> QED BY <2>3, <3>2
    <2>5. PICK p : p = Sent(n)'
        OBVIOUS
    <2>6. NumberOf(p) = n
        <3>1. NumberOf(Sent(n))' = n
            BY <2>2 DEF Inv, SenderInv, LogNumbered
        <3>2. NumberOf(Sent(n))' = NumberOf(p)
            BY <2>5 DEF NumberOf, Number
        <3> QED BY <3>1, <3>2
    <2>7. p \notin Parts(count, garbled, kept)
        <3> SUFFICES ASSUME NEW j \in 0 .. kept - 1, p = Part(count, garbled, j) PROVE FALSE
            BY DEF Parts
        <3>1. n = L + j
            <4>1. j \in 0 .. used - 1
                BY <1>5, SMT
            <4> QED BY <1>4, <2>6, <4>1
        <3> QED BY <1>4, <1>5, <2>1, <2>2, <3>1, SMT
    <2>8. p \notin data \cup packetAckManager
        <3>1. CASE n \in unsent
            <4>1. n \in Numbers /\ Sent(n) = p
                BY <1>4, <2>2, <2>5, <3>1
            <4> QED BY <1>1, <3>1, <4>1 DEF NeverOut
        <3>2. CASE n \notin unsent
            <4>1. n \notin Numbers
                BY <1>4, <1>5, <2>1, <3>2, SMT
            <4> QED BY <1>1, <2>6, <4>1 DEF Inv, SenderInv, AllGenuine, Genuine
        <3> QED BY <3>1, <3>2
    <2>9. data' \cup packetAckManager' \subseteq data \cup packetAckManager \cup Parts(count, garbled, kept)
        <3>1. \A j \in 0 .. out - 1 : j \in 0 .. kept - 1
            BY <1>5, SMT
        <3>2. Parts(count, garbled, out) \subseteq Parts(count, garbled, kept)
            BY <3>1 DEF Parts
        <3> QED BY <3>2 DEF Emit, Others
    <2> QED BY <2>2, <2>4, <2>5, <2>7, <2>8, <2>9
<1>16. CutSent'
    <2> SUFFICES ASSUME NEW c \in cut' PROVE \E n \in Numbers' : Sent(n)'.msg = c
        BY DEF CutSent, Sent
    <2>1. CASE c \in cut
        <3>1. PICK n \in Numbers : Sent(n).msg = c
            BY <1>1, <2>1 DEF CutSent
        <3>2. n \in Numbers'
            BY <1>4, <1>5, SMT
        <3> QED BY <1>4, <3>1, <3>2
    <2>2. CASE c = M
        <3>1. 0 \in 0 .. used - 1 /\ L + 0 \in Numbers'
            BY <1>4, <1>5, SMT
        <3> QED BY <1>4, <2>2, <3>1
    <2> QED BY <1>5, <2>1, <2>2
<1> QED BY <1>7, <1>9, <1>12, <1>14, <1>15, <1>16 DEF OrderInv

-----------------------------------------------------------------------------
(* The other steps *)

\* As long as the log stays, so do its commands.
LEMMA SameLog ==
    ASSUME log' = log, cut' = cut
    PROVE  /\ Numbers' = Numbers /\ \A n : Sent(n)' = Sent(n)
           /\ \A n : (Starts(n)' <=> Starts(n)) /\ (GoesOn(n)' <=> GoesOn(n))
           /\ \A msg : /\ PartsOf(msg)' = PartsOf(msg)
                       /\ IsGarbled(msg)' <=> IsGarbled(msg)
                       /\ Uncut(msg)' <=> Uncut(msg)
           /\ \A cmd : (IsPiece(cmd)' <=> IsPiece(cmd)) /\ (IsWhole(cmd)' <=> IsWhole(cmd))
           /\ Following => Following'
           /\ CutSent => CutSent'
           /\ unsent' = unsent /\ Flagged => Flagged'
<1>1. Numbers' = Numbers /\ \A n : Sent(n)' = Sent(n)
    BY FirstConstant DEF Numbers, Sent
<1>2. \A n : (Starts(n)' <=> Starts(n)) /\ (GoesOn(n)' <=> GoesOn(n))
    BY <1>1, FirstConstant DEF Starts, GoesOn
<1>3. \A msg : PartsOf(msg)' = PartsOf(msg)
    BY <1>1 DEF PartsOf
<1>4. \A msg : IsGarbled(msg)' <=> IsGarbled(msg)
    BY <1>1, <1>3 DEF IsGarbled
<1>5. ASSUME NEW cmd PROVE (IsPiece(cmd)' <=> IsPiece(cmd)) /\ (IsWhole(cmd)' <=> IsWhole(cmd))
    <2>1. IsPiece(cmd)' <=> IsPiece(cmd)
        BY <1>1 DEF IsPiece
    <2>2. IsWhole(cmd)' <=> IsWhole(cmd)
        BY <1>1, <1>3 DEF IsWhole
    <2> QED BY <2>1, <2>2
<1>6. Following => Following'
    BY <1>1, FirstConstant DEF Following
<1>7. unsent' = unsent /\ Flagged => Flagged'
    BY <1>1, <1>2 DEF Flagged
<1>8. \A msg : Uncut(msg)' <=> Uncut(msg)
    BY DEF Uncut
<1>9. CutSent => CutSent'
    BY <1>1 DEF CutSent
<1> QED BY <1>1, <1>2, <1>3, <1>4, <1>5, <1>6, <1>7, <1>8, <1>9

\* Nothing is delivered, nothing is sent: what holds of the commands delivered holds.
LEMMA SameDelivered ==
    ASSUME DeliveredInOrder, UNCHANGED <<log, cut, delivered>>
    PROVE  DeliveredInOrder'
<1>1. /\ \A msg : (IsGarbled(msg)' <=> IsGarbled(msg)) /\ (Uncut(msg)' <=> Uncut(msg))
      /\ \A cmd : (IsPiece(cmd)' <=> IsPiece(cmd)) /\ (IsWhole(cmd)' <=> IsWhole(cmd))
    BY SameLog
<1>2. PICK d : d = delivered
    OBVIOUS
<1>3. \A k \in 1 .. Len(d) : IsPiece(d[k])'
    BY <1>1, <1>2 DEF DeliveredInOrder
<1>4. \A j, k \in 1 .. Len(d) : j < k => NumberOf(d[j][Len(d[j])]) < NumberOf(d[k][1])
    BY <1>2 DEF DeliveredInOrder
<1>5. ASSUME NEW k \in 1 .. Len(d), Uncut(d[k][1].msg)'
      PROVE  /\ IsWhole(d[k])' /\ ~d[k][1].garbled
             /\ \A msg \in 1 .. d[k][1].msg : IsGarbled(msg)' \/ \E j \in 1 .. k : d[j][1].msg = msg
    <2>1. Uncut(d[k][1].msg)
        BY <1>1, <1>5
    <2>2. /\ IsWhole(d[k]) /\ ~d[k][1].garbled
          /\ \A msg \in 1 .. d[k][1].msg : IsGarbled(msg) \/ \E j \in 1 .. k : d[j][1].msg = msg
        BY <1>2, <2>1 DEF DeliveredInOrder
    <2> QED BY <1>1, <2>2
<1>6. delivered' = d
    BY <1>2
<1> QED BY <1>3, <1>4, <1>5, <1>6 DEF DeliveredInOrder, NumberOf, Number

\* A step that takes nothing from the queue.
LEMMA StillOrder ==
    ASSUME OrderInv, Inv', UNCHANGED <<log, unsent, cut, window, delivered>>,
           receiverClosed => receiverClosed',
           data' \cup packetAckManager' \subseteq data \cup packetAckManager,
           \A n \in unsent : ~Received(n)'
    PROVE  OrderInv'
<1>1. Inv /\ Following /\ Flagged /\ CutSent /\ NeverOut /\ AtStart /\ Behind /\ DeliveredInOrder
    BY DEF OrderInv
<1>2. /\ Numbers' = Numbers /\ \A n : Sent(n)' = Sent(n)
      /\ \A n : Starts(n)' <=> Starts(n)
      /\ \A msg : /\ PartsOf(msg)' = PartsOf(msg)
                  /\ IsGarbled(msg)' <=> IsGarbled(msg)
                  /\ Uncut(msg)' <=> Uncut(msg)
      /\ Following' /\ Flagged' /\ CutSent'
    BY <1>1, SameLog
<1>3. PICK P : P = Position(window)
    OBVIOUS
<1>4. Position(window)' = P
    BY <1>3 DEF Position, Number
<1>5. NeverOut'
    BY <1>1, <1>2 DEF NeverOut
<1>6. AtStart'
    <2>1. P \in First .. First + Len(log)
        BY <1>1, <1>3 DEF AtStart
    <2>2. P \in Numbers /\ (\A m \in cut : Sent(P).msg <= m) => Starts(P)'
        BY <1>1, <1>2, <1>3 DEF AtStart
    <2>3. Starts(Position(window))' <=> Starts(P)'
        BY <1>4 DEF Starts
    <2>4. Sent(Position(window))' = Sent(P)
        BY <1>2, <1>4 DEF Sent
    <2> QED BY <1>2, <1>4, <2>1, <2>2, <2>3, <2>4, FirstConstant DEF AtStart
<1>7. \A msg : Taken(msg)' <=> Taken(msg)
    BY DEF Taken
<1>8. Behind'
    <2>1. \A k \in 1 .. Len(delivered) : NumberOf(delivered[k][Len(delivered[k])]) < P
        BY <1>1, <1>3 DEF Behind
    <2>2. ASSUME ~receiverClosed', NEW n \in Numbers', n < P, Uncut(Sent(n).msg)'
          PROVE  (IsGarbled(Sent(n).msg) \/ Taken(Sent(n).msg))'
        <3>1. PICK msg : msg = Sent(n).msg
            OBVIOUS
        <3>2. Uncut(msg)'
            BY <1>2, <2>2, <3>1 DEF Uncut
        <3>3. IsGarbled(msg) \/ Taken(msg)
            BY <1>1, <1>2, <1>3, <2>2, <3>1, <3>2 DEF Behind
        <3>4. (IsGarbled(msg) \/ Taken(msg))' /\ msg = Sent(n)'.msg
            BY <1>2, <1>7, <3>1, <3>3
        <3> QED BY <3>4 DEF IsGarbled, Taken, PartsOf, Sent
    <2>3. delivered' = delivered
        OBVIOUS
    <2> QED BY <1>4, <2>1, <2>2, <2>3 DEF Behind, NumberOf, Number
<1>9. DeliveredInOrder'
    BY <1>1, SameDelivered
<1> QED BY <1>2, <1>5, <1>6, <1>8, <1>9 DEF OrderInv

\* A packet that is queued has gone out.
LEMMA AcceptOrder ==
    ASSUME OrderInv, Inv', NEW p \in data, Accept(p)
    PROVE  OrderInv'
<1>1. Inv /\ NeverOut
    BY DEF OrderInv
<1>2. TypeOK /\ p \in Packet /\ Readable(p)
    BY <1>1 DEF Inv, TypeOK, Accept, Receives
<1>3. PICK index \in Int : index = Q!MappedToIndex(window, p.id) /\ NumberOf(p) = Position(window) + index
    BY <1>1, <1>2, ReadableIndex
<1>4. /\ UNCHANGED <<log, unsent, cut, window, delivered, receiverClosed, data, packetAckManager>>
      /\ flat' = [flat EXCEPT ![index] = p]
    BY <1>3 DEF Accept, Q!Set, senderVars
<1>5. ASSUME NEW n \in unsent, Received(n)' PROVE FALSE
    <2>1. n \in Numbers /\ ~Received(n) /\ Sent(n) \notin data
        BY <1>1 DEF NeverOut
    <2>2. Position(window)' = Position(window) /\ Position(window) \in Nat /\ n \in Nat
        BY <1>1, <1>4, <2>1, LogIs DEF Position, Number
    <2>3. PICK i \in Places : i = n - Position(window) /\ flat'[i] # Empty
        BY <1>5, <2>1, <2>2 DEF Received, Places, Q!Places
    <2>4. flat[i] = Empty
        BY <2>1, <2>3 DEF Received
    <2>5. i = index
        BY <1>2, <1>4, <2>3, <2>4 DEF TypeOK
    <2>6. NumberOf(p) = n
        BY <1>3, <2>2, <2>3, <2>5, SMT
    <2>7. p = Sent(n)
        BY <1>1, <2>6 DEF Inv, SenderInv, AllGenuine, Genuine
    <2> QED BY <2>1, <2>7
<1> QED BY <1>4, <1>5, StillOrder

\* What is taken is delivered unless it does not decompress or nobody listens.
LEMMA TakeOrder ==
    ASSUME OrderInv, Inv', NEW last \in Places, IsCommand(last), Dequeue(last + 1),
           UNCHANGED <<log, unsent, cut, data, packetAckManager, receiverClosed>>,
           \/ delivered' = delivered /\ (receiverClosed \/ flat[0].garbled \/ Mixed(last))
           \/ /\ delivered' = Append(delivered, [i \in 1 .. last + 1 |-> flat[i - 1]])
              /\ flat[0].garbled => Mixed(last)
              /\ ~receiverClosed
    PROVE  OrderInv'
<1>1. Inv /\ Following /\ Flagged /\ CutSent /\ NeverOut /\ AtStart /\ Behind /\ DeliveredInOrder
    BY DEF OrderInv
<1>2. /\ Numbers' = Numbers /\ \A n : Sent(n)' = Sent(n)
      /\ \A n : Starts(n)' <=> Starts(n)
      /\ \A msg : /\ PartsOf(msg)' = PartsOf(msg)
                  /\ IsGarbled(msg)' <=> IsGarbled(msg)
                  /\ Uncut(msg)' <=> Uncut(msg)
      /\ \A cmd : (IsPiece(cmd)' <=> IsPiece(cmd)) /\ (IsWhole(cmd)' <=> IsWhole(cmd))
      /\ Following' /\ Flagged' /\ CutSent'
    BY <1>1, SameLog
<1>3. PICK P \in Nat : P = Position(window)
    BY <1>1, LogIs
<1>5. /\ P \in Numbers /\ P + last \in Numbers /\ P + 0 = P
      /\ \A i \in 0 .. last : P + i \in Numbers /\ P + i \notin unsent /\ flat[i] = Sent(P + i)
    BY <1>1, <1>3, TakenIsOut
<1>4. PICK m \in Nat : m = Sent(P).msg
    BY <1>1, <1>5, LogIs
<1>6. last \in Nat /\ last < ReceiveWindow /\ First \in Nat /\ Len(log) \in Nat
    BY <1>1, LogIs, PlacesIs, WindowAssumption, SMT
<1>7. PICK R \in Nat : R = P + last + 1
    BY <1>6, SMT
<1>8. Position(window)' = R
    <2>1. window \in Window /\ last + 1 \in 0 .. Mod
        <3>1. last + 1 \in 0 .. Mod
            BY <1>6, WindowAssumption, SMT
        <3> QED BY <1>1, <3>1 DEF Inv, TypeOK
    <2>2. window' = Advance(window, last + 1)
        BY DEF Dequeue
    <2>3. Position(window') = Position(window) + (last + 1)
        BY <2>1, <2>2, AdvanceMoves
    <2>4. Position(window)' = Position(window')
        BY DEF Position, Number
    <2> QED BY <1>3, <1>6, <1>7, <2>3, <2>4, SMT
\* Up to the first cut it is a command, all of it.
<1>16. ASSUME Uncut(m)
       PROVE  /\ PartsOf(m) = P .. P + last
              /\ R \in Numbers => Starts(R)
              /\ ~Mixed(last)
    BY <1>1, <1>3, <1>4, <1>7, <1>16, CommandIsWhole
<1>17. ASSUME NEW n \in Numbers, ~(n < P), Uncut(Sent(n).msg) PROVE Uncut(m)
    <2>1. n \in Nat /\ Sent(n).msg \in Nat /\ cut \subseteq Nat
        BY <1>1, LogIs DEF Inv, TypeOK
    <2>2. P <= n
        BY <1>17, <2>1, SMT
    <2>3. m <= Sent(n).msg
        BY <1>1, <1>4, <1>5, <2>2 DEF Following
    <2> QED BY <1>4, <1>17, <2>1, <2>3 DEF Uncut
<1>9. AtStart'
    <2>1. R \in First .. First + Len(log)
        BY <1>5, <1>6, <1>7, SMT DEF Numbers
    <2>2. ASSUME R \in Numbers, \A c \in cut : Sent(R).msg <= c PROVE Starts(R)'
        <3>1. CASE Uncut(m)
            BY <1>2, <1>16, <2>2, <3>1
        <3>2. CASE ~Uncut(m)
            <4>1. PICK c \in cut : ~(m < c)
                BY <3>2 DEF Uncut
            <4>2. PICK x \in Nat : x = Sent(R).msg
                BY <1>1, <2>2, LogIs
            <4>3. PICK y \in Nat : y = Sent(P + last).msg
                BY <1>1, <1>5, LogIs
            <4>4. m <= y /\ y <= x
                <5>1. P <= P + last /\ P + last <= R
                    BY <1>6, <1>7, SMT
                <5> QED BY <1>1, <1>4, <1>5, <2>2, <4>2, <4>3, <5>1 DEF Following
            <4>5. c \in Nat /\ \A e \in cut : e \in Nat /\ x <= e
                BY <1>1, <2>2, <4>2 DEF Inv, TypeOK
            <4>6. m = c /\ y = m /\ \A e \in cut : m <= e
                BY <1>4, <4>1, <4>4, <4>5, SMT
            <4>7. Sent(P + last).msg # m
                BY <1>1, <1>3, <1>4, <4>6, CutHasNoEnd
            <4> QED BY <4>3, <4>6, <4>7
        <3> QED BY <3>1, <3>2
    <2>3. Starts(Position(window))' <=> Starts(R)'
        BY <1>8 DEF Starts
    <2>4. Sent(Position(window))' = Sent(R)
        BY <1>2, <1>8 DEF Sent
    <2> QED BY <1>2, <1>8, <2>1, <2>2, <2>3, <2>4, FirstConstant DEF AtStart
<1>10. NeverOut'
    <2> SUFFICES ASSUME NEW n \in unsent, Received(n)' PROVE FALSE
        BY <1>1, <1>2 DEF NeverOut
    <2>1. n \in Numbers /\ ~Received(n) /\ n \in Nat
        BY <1>1, LogIs DEF NeverOut
    <2>2. ~(n < P)
        BY <1>3, <2>1 DEF Received
    <2>3. CASE n < R
        <3>1. n - P \in 0 .. last /\ P + (n - P) = n
            BY <1>6, <1>7, <2>1, <2>2, <2>3, SMT
        <3> QED BY <1>5, <3>1
    <2>4. CASE ~(n < R)
        <3>1. PICK i \in Places : i = n - R /\ flat'[i] # Empty
            BY <1>8, <2>4 DEF Received, Places, Q!Places
        <3>2. i + (last + 1) \in Places /\ flat[i + (last + 1)] # Empty
            BY <3>1 DEF Dequeue
        <3>3. i + (last + 1) = n - P
            BY <1>6, <1>7, <2>1, <3>1, PlacesIs, WindowAssumption, SMT
        <3> QED BY <1>3, <2>1, <3>2, <3>3 DEF Received
    <2> QED BY <2>3, <2>4
<1>11. flat[0] = Sent(P)
    <2>1. 0 \in 0 .. last /\ P + 0 = P
        BY <1>6, SMT
    <2> QED BY <1>5, <2>1
<1>12. delivered \in Seq(Seq(Packet)) /\ Len(delivered) \in Nat
    BY <1>1, LenProperties DEF Inv, TypeOK
\* The commands before this one are garbled or delivered.
<1>13. ASSUME ~receiverClosed, Uncut(m), NEW msg \in 1 .. m - 1
       PROVE  IsGarbled(msg) \/ Taken(msg)
    <2>1. msg \in 1 .. Sent(P).msg /\ msg # m
        BY <1>4, SMT
    <2>2. PICK n \in First .. P : Sent(n).msg = msg
        BY <1>1, <1>5, <2>1 DEF Following
    <2>3. n \in Numbers /\ n < P
        <3>1. n # P
            BY <1>4, <2>1, <2>2
        <3> QED BY <1>5, <1>6, <2>2, <3>1, SMT DEF Numbers
    <2>4. Uncut(msg)
        <3>1. cut \subseteq Nat
            BY <1>1 DEF Inv, TypeOK
        <3> QED BY <1>4, <1>13, <3>1, SMT DEF Uncut
    <2> QED BY <1>1, <1>3, <1>13, <2>2, <2>3, <2>4 DEF Behind
\* What was delivered before ends before this place.
<1>18. ASSUME NEW k \in 1 .. Len(delivered)
       PROVE  /\ NumberOf(delivered[k][Len(delivered[k])]) < P
              /\ NumberOf(delivered[k][Len(delivered[k])]) < R
    <2>1. NumberOf(delivered[k][Len(delivered[k])]) < P
        BY <1>1, <1>3 DEF Behind
    <2>2. PICK cmd \in Seq(Packet) : cmd = delivered[k]
        BY <1>12
    <2>3. IsPiece(cmd)
        BY <1>1, <2>2 DEF DeliveredInOrder
    <2>4. PICK b \in Nat : b = NumberOf(cmd[Len(cmd)])
        BY <1>1, <2>3, PieceEnds, LogIs
    <2>5. b < P => b < R
        BY <1>6, <1>7, SMT
    <2> QED BY <2>1, <2>2, <2>4, <2>5
<1>14. CASE delivered' = delivered /\ (receiverClosed \/ flat[0].garbled \/ Mixed(last))
    <2>1. DeliveredInOrder'
        BY <1>1, <1>14, SameDelivered
    <2>2. \A k \in 1 .. Len(delivered) : NumberOf(delivered[k][Len(delivered[k])]) < R
        BY <1>18
    <2>3. ASSUME ~receiverClosed, NEW n \in Numbers, n < R, Uncut(Sent(n).msg)
          PROVE  (IsGarbled(Sent(n).msg) \/ Taken(Sent(n).msg))'
        <3>1. PICK msg : msg = Sent(n).msg
            OBVIOUS
        <3>2. IsGarbled(msg) \/ Taken(msg)
            <4>1. CASE n < P
                BY <1>1, <1>3, <2>3, <3>1, <4>1 DEF Behind
            <4>2. CASE ~(n < P)
                <5>1. n \in P .. P + last /\ P \in P .. P + last
                    <6>1. n \in Nat
                        BY <1>1, LogIs
                    <6> QED BY <1>6, <1>7, <2>3, <4>2, <6>1, SMT
                <5>2. Uncut(m)
                    BY <1>17, <2>3, <4>2
                <5>3. msg = m /\ P \in PartsOf(m)
                    BY <1>16, <3>1, <5>1, <5>2 DEF PartsOf
                <5>4. Sent(P).garbled
                    BY <1>11, <1>14, <1>16, <2>3, <5>2
                <5> QED BY <5>3, <5>4 DEF IsGarbled
            <4> QED BY <4>1, <4>2
        <3>3. (IsGarbled(msg) \/ Taken(msg))' /\ msg = Sent(n)'.msg
            BY <1>2, <1>14, <3>1, <3>2 DEF Taken
        <3> QED BY <3>3 DEF IsGarbled, Taken, PartsOf, Sent
    <2>4. \A n : Uncut(Sent(n).msg)' <=> Uncut(Sent(n).msg)
        BY <1>2 DEF Uncut, Sent
    <2>5. Behind'
        BY <1>2, <1>8, <1>14, <2>2, <2>3, <2>4 DEF Behind, NumberOf, Number
    <2> QED BY <1>2, <1>9, <1>10, <2>1, <2>5 DEF OrderInv
<1>15. CASE /\ delivered' = Append(delivered, [i \in 1 .. last + 1 |-> flat[i - 1]])
            /\ flat[0].garbled => Mixed(last)
            /\ ~receiverClosed
    <2> DEFINE cmd == [i \in 1 .. last + 1 |-> flat[i - 1]]
    <2>1. PICK D \in Nat : D = Len(delivered)
        BY <1>12
    <2>2. cmd \in Seq(Packet)
        <3>1. \A i \in 1 .. last + 1 : i - 1 \in 0 .. last
            BY <1>6, SMT
        <3>2. \A i \in 0 .. last : flat[i] \in Packet
            BY <1>1, <1>5, LogIs
        <3>3. cmd \in [1 .. last + 1 -> Packet] /\ last + 1 \in Nat
            BY <1>6, <3>1, <3>2
        <3> QED BY <3>3, SeqDef
    <2>3. cmd[1] = Sent(P) /\ cmd[1].msg = m /\ NumberOf(cmd[1]) = P
        <3>1. 1 \in 1 .. last + 1 /\ 1 - 1 = 0
            BY <1>6, SMT
        <3>2. cmd[1] = flat[0]
            BY <3>1
        <3>3. NumberOf(Sent(P)) = P
            BY <1>1, <1>5 DEF Inv, SenderInv, LogNumbered
        <3> QED BY <1>4, <1>11, <3>2, <3>3
    <2>4. PICK b \in Numbers : /\ b = P + last /\ P <= b /\ b < R
                               /\ cmd = [i \in 1 .. b - P + 1 |-> Sent(P + i - 1)]
        <3>1. PICK b \in Numbers : b = P + last
            BY <1>5
        <3>2. b - P + 1 = last + 1 /\ P <= b /\ b < R
            BY <1>6, <1>7, <3>1, SMT
        <3>3. \A i \in 1 .. last + 1 : i - 1 \in 0 .. last /\ flat[i - 1] = Sent(P + i - 1)
            <4>1. \A i \in 1 .. last + 1 : i - 1 \in 0 .. last
                BY <1>6, SMT
            <4> QED BY <1>5, <4>1
        <3>4. cmd = [i \in 1 .. b - P + 1 |-> Sent(P + i - 1)]
            BY <3>2, <3>3
        <3> QED BY <3>1, <3>2, <3>4
    <2>5. delivered' = Append(delivered, cmd)
        BY <1>15
    <2> HIDE DEF cmd
    <2>12. IsPiece(cmd)
        BY <1>5, <2>4 DEF IsPiece
    <2>13. NumberOf(cmd[Len(cmd)]) < R
        <3>1. Len(cmd) = b - P + 1
            <4>1. DOMAIN cmd = 1 .. Len(cmd) /\ Len(cmd) \in Nat
                BY <2>2, LenProperties
            <4>2. DOMAIN cmd = 1 .. b - P + 1 /\ b \in Nat
                BY <1>1, <2>4, LogIs
            <4> QED BY <2>4, <4>1, <4>2, SMT
        <3>2. b - P + 1 \in 1 .. b - P + 1 /\ P + (b - P + 1) - 1 = b
            BY <1>6, <2>4, SMT
        <3>3. cmd[Len(cmd)] = Sent(b)
            BY <2>4, <3>1, <3>2
        <3> QED BY <1>1, <2>4, <3>3 DEF Inv, SenderInv, LogNumbered
    <2>14. ASSUME Uncut(m) PROVE IsWhole(cmd) /\ ~cmd[1].garbled
        <3>1. PartsOf(cmd[1].msg) = P .. b
            BY <1>16, <2>3, <2>4, <2>14
        <3>2. IsWhole(cmd)
            BY <1>5, <2>4, <3>1 DEF IsWhole
        <3> QED BY <1>11, <1>15, <1>16, <2>3, <2>14, <3>2
    <2>0. PICK d : d = delivered'
        OBVIOUS
    <2>6. /\ Len(d) = D + 1 /\ d[D + 1] = cmd
          /\ \A k \in 1 .. D : d[k] = delivered[k]
        BY <1>12, <2>0, <2>1, <2>2, <2>5, AppendProperties
    <2>7. \A k \in 1 .. D + 1 : k \in 1 .. D \/ k = D + 1
        BY SMT
    <2>9. DeliveredInOrder'
        <3>1. ASSUME NEW k \in 1 .. D + 1 PROVE IsPiece(d[k])
            <4>1. CASE k \in 1 .. D
                BY <1>1, <2>1, <2>6, <4>1 DEF DeliveredInOrder
            <4>2. CASE k = D + 1
                BY <2>6, <2>12, <4>2
            <4> QED BY <2>7, <4>1, <4>2
        <3>2. ASSUME NEW j \in 1 .. D + 1, NEW k \in 1 .. D + 1, j < k
              PROVE  NumberOf(d[j][Len(d[j])]) < NumberOf(d[k][1])
            <4>1. j \in 1 .. D
                BY <3>2, SMT
            <4>2. CASE k \in 1 .. D
                BY <1>1, <2>1, <2>6, <3>2, <4>1, <4>2 DEF DeliveredInOrder
            <4>3. CASE k = D + 1
                <5>1. NumberOf(delivered[j][Len(delivered[j])]) < P
                    BY <1>18, <2>1, <4>1
                <5> QED BY <2>3, <2>6, <4>1, <4>3, <5>1
            <4> QED BY <2>7, <4>2, <4>3
        <3>3. ASSUME NEW k \in 1 .. D + 1, Uncut(d[k][1].msg)
              PROVE  IsWhole(d[k]) /\ ~d[k][1].garbled
            <4>1. CASE k \in 1 .. D
                BY <1>1, <2>1, <2>6, <3>3, <4>1 DEF DeliveredInOrder
            <4>2. CASE k = D + 1
                BY <2>3, <2>6, <2>14, <3>3, <4>2
            <4> QED BY <2>7, <4>1, <4>2
        <3>4. ASSUME NEW k \in 1 .. D + 1, Uncut(d[k][1].msg), NEW msg \in 1 .. d[k][1].msg
              PROVE  IsGarbled(msg) \/ \E j \in 1 .. k : d[j][1].msg = msg
            <4>1. CASE k \in 1 .. D
                <5>1. msg \in 1 .. delivered[k][1].msg /\ k \in 1 .. Len(delivered)
                    BY <2>1, <2>6, <3>4, <4>1
                <5>2. IsGarbled(msg) \/ \E j \in 1 .. k : delivered[j][1].msg = msg
                    BY <1>1, <2>6, <3>4, <4>1, <5>1 DEF DeliveredInOrder
                <5>3. \A j \in 1 .. k : j \in 1 .. D
                    BY <4>1, SMT
                <5> QED BY <2>6, <5>2, <5>3
            <4>2. CASE k = D + 1
                <5>1. msg \in 1 .. m /\ msg \in Nat /\ Uncut(m)
                    <6>1. d[k][1].msg = m
                        BY <2>3, <2>6, <4>2
                    <6>2. msg \in 1 .. m
                        BY <3>4, <6>1
                    <6> QED BY <1>4, <3>4, <6>1, <6>2
                <5>2. CASE msg = m
                    <6>1. k \in 1 .. k
                        BY SMT
                    <6> QED BY <2>3, <2>6, <4>2, <5>2, <6>1
                <5>3. CASE msg # m
                    <6>1. msg \in 1 .. m - 1
                        BY <1>4, <5>1, <5>3, SMT
                    <6>2. IsGarbled(msg) \/ Taken(msg)
                        BY <1>13, <1>15, <5>1, <6>1
                    <6>3. \A j \in 1 .. D : j \in 1 .. k
                        BY <4>2, SMT
                    <6> QED BY <2>1, <2>6, <6>2, <6>3 DEF Taken
                <5> QED BY <5>2, <5>3
            <4> QED BY <2>7, <4>1, <4>2
        <3>5. \A k \in 1 .. Len(d) : IsPiece(d[k])'
            BY <1>2, <2>6, <3>1
        <3>6. \A k \in 1 .. Len(d) : Uncut(d[k][1].msg)' =>
                 /\ IsWhole(d[k])' /\ ~d[k][1].garbled
                 /\ \A msg \in 1 .. d[k][1].msg :
                       IsGarbled(msg)' \/ \E j \in 1 .. k : d[j][1].msg = msg
            BY <1>2, <2>6, <3>3, <3>4
        <3>7. \A j, k \in 1 .. Len(d) : j < k => NumberOf(d[j][Len(d[j])]) < NumberOf(d[k][1])
            BY <2>6, <3>2
        <3> QED BY <2>0, <3>5, <3>6, <3>7 DEF DeliveredInOrder, NumberOf, Number
    <2>10. \A msg : Taken(msg)' <=> Taken(msg) \/ msg = m
        <3>1. \A j \in 1 .. D : j \in 1 .. D + 1
            BY SMT
        <3>2. D + 1 \in 1 .. D + 1
            BY SMT
        <3> QED BY <2>0, <2>1, <2>3, <2>6, <2>7, <3>1, <3>2 DEF Taken
    <2>11. Behind'
        <3>1. ASSUME NEW k \in 1 .. D + 1
              PROVE  NumberOf(d[k][Len(d[k])]) < R
            <4>1. CASE k \in 1 .. D
                BY <1>18, <2>1, <2>6, <4>1
            <4>2. CASE k = D + 1
                BY <2>6, <2>13, <4>2
            <4> QED BY <2>7, <4>1, <4>2
        <3>2. ASSUME NEW n \in Numbers, n < R, Uncut(Sent(n).msg)
              PROVE  (IsGarbled(Sent(n).msg) \/ Taken(Sent(n).msg))'
            <4>1. PICK msg : msg = Sent(n).msg
                OBVIOUS
            <4>2. IsGarbled(msg) \/ Taken(msg) \/ msg = m
                <5>1. CASE n < P
                    BY <1>1, <1>3, <1>15, <3>2, <4>1, <5>1 DEF Behind
                <5>2. CASE ~(n < P)
                    <6>1. n \in P .. P + last
                        <7>1. n \in Nat
                            BY <1>1, LogIs
                        <7> QED BY <1>6, <1>7, <3>2, <5>2, <7>1, SMT
                    <6>2. Uncut(m)
                        BY <1>17, <3>2, <5>2
                    <6> QED BY <1>16, <4>1, <6>1, <6>2 DEF PartsOf
                <5> QED BY <5>1, <5>2
            <4>3. (IsGarbled(msg) \/ Taken(msg))' /\ msg = Sent(n)'.msg
                BY <1>2, <2>10, <4>1, <4>2
            <4> QED BY <4>3 DEF IsGarbled, Taken, PartsOf, Sent
        <3>3. \A k \in 1 .. Len(d) : NumberOf(d[k][Len(d[k])]) < R
            BY <2>6, <3>1
        <3>4. \A n : Uncut(Sent(n).msg)' <=> Uncut(Sent(n).msg)
            BY <1>2 DEF Uncut, Sent
        <3> QED BY <1>2, <1>8, <2>0, <3>2, <3>3, <3>4 DEF Behind, NumberOf, Number
    <2> QED BY <1>2, <1>9, <1>10, <2>9, <2>11 DEF OrderInv
<1> QED BY <1>14, <1>15

LEMMA DeliverOrder ==
    ASSUME OrderInv, Inv', NEW last \in Places, Deliver(last) \/ DropGarbled(last)
    PROVE  OrderInv'
<1>1. /\ IsCommand(last) /\ Dequeue(last + 1)
      /\ UNCHANGED <<log, unsent, cut, data, packetAckManager, receiverClosed>>
    BY DEF Deliver, DropGarbled, senderVars
<1>2. \/ delivered' = delivered /\ (receiverClosed \/ flat[0].garbled \/ Mixed(last))
      \/ /\ delivered' = Append(delivered, [i \in 1 .. last + 1 |-> flat[i - 1]])
         /\ flat[0].garbled => Mixed(last)
         /\ ~receiverClosed
    BY Zenon DEF Deliver, DropGarbled
<1> QED BY <1>1, <1>2, TakeOrder

LEMMA SendsOrder ==
    ASSUME OrderInv, Inv', Sends
    PROVE  OrderInv'
<1>1. PICK count \in PartCounts, garbled \in Garbling :
        \/ SendCommand(count, garbled)
        \/ \E j \in 0 .. count - 1 : \/ SendCommandThrows(count, garbled, j)
                                    \/ SendCommandFails(count, garbled, j)
    BY DEF Sends
<1>2. count \in 1 .. Mod /\ count \in Nat /\ garbled \in BOOLEAN
    <2>1. count \in 1 .. Mod
        BY ChannelAssumption
    <2>2. garbled \in BOOLEAN
        BY DEF Garbling
    <2> QED BY <2>1, <2>2, WindowAssumption, SMT
<1>3. CASE SendCommand(count, garbled)
    <2>1. count \in 1 .. count /\ count \in 0 .. count
        BY <1>2, SMT
    <2>2. /\ Emit(count, garbled, count, count, count)
          /\ unsent' = unsent /\ cut' = cut /\ UNCHANGED receiverVars
        BY <1>3 DEF SendCommand
    <2> QED BY <1>2, <2>1, <2>2, EmitOrder
<1>4. ASSUME NEW j \in 0 .. count - 1, SendCommandThrows(count, garbled, j)
      PROVE  OrderInv'
    <2>1. PICK used \in 1 .. count : used = j + 1
        BY <1>2, SMT
    <2>2. PICK kept \in 0 .. used : kept = j /\ kept \in 0 .. kept
        BY <1>2, <2>1, SMT
    <2>3. /\ Emit(count, garbled, kept, kept, used) /\ UNCHANGED receiverVars /\ used = kept + 1
          /\ unsent' = unsent \cup {NumberOf(Part(count, garbled, kept))} /\ cut' = cut
        BY <1>4, <2>1, <2>2 DEF SendCommandThrows
    <2> QED BY <1>2, <2>2, <2>3, EmitOrder
<1>5. ASSUME NEW j \in 0 .. count - 1, SendCommandFails(count, garbled, j)
      PROVE  OrderInv'
    <2>1. PICK used \in 1 .. count : used = j + 1 /\ used \in 0 .. used /\ j \in 0 .. used
        BY <1>2, SMT
    <2>2. /\ Emit(count, garbled, used, j, used) /\ UNCHANGED receiverVars /\ unsent' = unsent
          /\ cut' = IF j < count - 1 THEN cut \cup {NextMessage} ELSE cut
        BY <1>5, <2>1 DEF SendCommandFails
    <2>3. \/ used = count /\ cut' = cut
          \/ used < count /\ cut' = cut \cup {NextMessage}
        <3>1. CASE j < count - 1
            <4>1. used < count
                BY <1>2, <2>1, <3>1, SMT
            <4> QED BY <2>2, <3>1, <4>1
        <3>2. CASE ~(j < count - 1)
            <4>1. used = count
                BY <1>2, <2>1, <3>2, SMT
            <4> QED BY <2>2, <3>2, <4>1
        <3> QED BY <3>1, <3>2
    <2> QED BY <1>2, <2>1, <2>2, <2>3, EmitOrder
<1> QED BY <1>1, <1>3, <1>4, <1>5

\* Acks, resends, losses, repeated acks and the two ways to stop.
LEMMA QuietOrder ==
    ASSUME OrderInv, Inv',
           \/ \E p \in packetAckManager : Resend(p)
           \/ \E a \in acks : ReceiveAck(a) \/ LoseAck(a)
           \/ \E p \in data : LoseData(p) \/ AckAgain(p)
           \/ StopSender \/ StopReceiver \/ EndDrain \/ UNCHANGED vars
    PROVE  OrderInv'
<1>1. /\ UNCHANGED <<log, unsent, cut, window, flat, delivered>>
      /\ data' \cup packetAckManager' \subseteq data \cup packetAckManager
      /\ receiverClosed => receiverClosed'
    BY DEF Resend, ReceiveAck, LoseAck, LoseData, AckAgain, StopSender, StopReceiver, EndDrain,
           vars, senderVars, receiverVars
<1>2. \A n : Received(n)' <=> Received(n)
    BY <1>1 DEF Received, Position, Number, Places, Q!Places
<1>3. \A n \in unsent : ~Received(n)'
    BY <1>2 DEF OrderInv, NeverOut
<1> QED BY <1>1, <1>3, StillOrder

LEMMA InitOrder == Init => OrderInv
<1> SUFFICES ASSUME Init PROVE OrderInv
    OBVIOUS
<1>1. Inv
    BY InitInv
<1>2. First \in Nat /\ Len(log) = 0 /\ Len(delivered) = 0
    BY <1>1, LogIs DEF Init
<1>3. Numbers = {} /\ unsent = {} /\ cut = {}
    <2>1. unsent = {} /\ cut = {}
        BY DEF Init
    <2> QED BY <1>2, <2>1, SMT DEF Numbers
<1>4. Position(window) = First
    BY DEF Init, Position, First
<1>5. AtStart
    BY <1>2, <1>3, <1>4, SMT DEF AtStart
<1>6. \A k \in 1 .. Len(delivered) : FALSE
    BY <1>2, SMT
<1>7. Behind /\ DeliveredInOrder
    BY <1>3, <1>6 DEF Behind, DeliveredInOrder
<1> QED BY <1>1, <1>3, <1>5, <1>7 DEF OrderInv, Following, Flagged, CutSent, NeverOut

LEMMA NextOrder == OrderInv /\ [Next]_vars => OrderInv'
<1> SUFFICES ASSUME OrderInv, [Next]_vars PROVE OrderInv'
    OBVIOUS
<1>1. Inv'
    BY NextInv DEF OrderInv
<1>2. CASE Sends
    BY <1>1, <1>2, SendsOrder
<1>3. CASE \E p \in data : Accept(p)
    BY <1>1, <1>3, AcceptOrder
<1>4. CASE \E last \in Places : Deliver(last) \/ DropGarbled(last)
    BY <1>1, <1>4, DeliverOrder
<1>5. CASE \/ \E p \in packetAckManager : Resend(p)
           \/ \E a \in acks : ReceiveAck(a) \/ LoseAck(a)
           \/ \E p \in data : LoseData(p) \/ AckAgain(p)
           \/ StopSender \/ StopReceiver \/ EndDrain \/ UNCHANGED vars
    BY <1>1, <1>5, QuietOrder
<1> QED BY <1>2, <1>3, <1>4, <1>5 DEF Next

\* PacketEvent sees no packet twice, none behind a later one and no gap, whatever the
\* network and the socket do and however often the ids wrap.  Up to the first command a
\* socket error cut short it sees the commands that were sent, in order, each once and
\* made of exactly its own packets, and passes over none that decompresses; also after a
\* send that threw half way, whose packets never become a command (TryGetCommand,
\* ReceiveCommand, AddOutgoingSplitData).
THEOREM CommandsInOrder == Spec => []DeliveredInOrder
<1>1. OrderInv => DeliveredInOrder
    BY DEF OrderInv
<1> QED BY <1>1, InitOrder, NextOrder, PTL DEF Spec
=============================================================================
