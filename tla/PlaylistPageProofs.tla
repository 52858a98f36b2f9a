-------------------------- MODULE PlaylistPageProofs --------------------------
(***************************************************************************)
(* The playlists of the web interface, for every set of lists, every size  *)
(* of a page and every number of overlapping requests: the editor never    *)
(* waits for nothing, what it and the overview show is what they know, and *)
(* an operation on a row hits its item or has a cause not to.              *)
(*                                                                         *)
(* A change of a list gives it a new version.  Whatever remembers a row or *)
(* a page of a list (the editor, an edit box, the row being dragged, a     *)
(* request, an answer) remembers its version too, and is right as long as  *)
(* that is the list's (RowTrue, DataTrue).  A version the page has not     *)
(* seen is one it will hear of, or was not told of for a reason (Told).    *)
(***************************************************************************)
EXTENDS PlaylistPage, SequenceTheorems, TLAPS

-----------------------------------------------------------------------------
(* Types                                                                   *)

Awaited == {"show", "remove", "rename", "move", "insert", "add"}
Kinds == Overview \cup Awaited \cup {"play", "title"}

IsCall(c) ==
    /\ c \in [n : Nat \ {0}, kind : Kinds, list : List \cup {None}, args : {c.args}, row : {c.row},
              offset : {c.offset}, meant : {c.meant}, seen : {c.seen},
              state : {"sent", "ok", "failed"}, res : Data, names : SUBSET List, own : BOOLEAN]
    /\ c.kind # "list" => c.list \in List
    /\ c.kind \in Overview => c.own
    /\ c.kind # "show" => c.res.id = None /\ c.res.items = <<>>
    /\ c.kind \in OnRow => 1 \in DOMAIN c.args
    /\ c.kind = "move" => 2 \in DOMAIN c.args
    /\ c.kind = "show" => c.args[1] \in Nat

IsEditor(e) ==
    /\ e \in [gone : BOOLEAN, loading : BOOLEAN, offset : Nat, dragging : {e.dragging}, data : Data,
              boxes : {e.boxes}, asked : Nat, by : Nat]
    /\ e.boxes = [r \in 0 .. PerPage - 1 |-> e.boxes[r]]
    /\ \A r \in 0 .. PerPage - 1 : e.boxes[r] # NoBox => r < Len(e.data.items)

IsListed(x) == x = [asked |-> x.asked, by |-> x.by] /\ x.asked \in Nat /\ x.by \in Nat

\* Items of a list: no more than MaxSongs, each of them once, and none that is
\* not made yet.
AreItems(s, made) ==
    /\ s \in Seq(Nat) /\ Len(s) <= MaxSongs
    /\ \A i \in 1 .. Len(s) : s[i] <= made
    /\ \A i, j \in 1 .. Len(s) : s[i] = s[j] => i = j

-----------------------------------------------------------------------------
(* What is remembered, and what is told                                    *)

RowTrue(x, L) ==
    x.seen[1] \in List =>
        /\ x.seen[2] \in Nat /\ x.seen[2] <= L[x.seen[1]].ver
        /\ x.seen[2] = L[x.seen[1]].ver => L[x.seen[1]].items[x.offset + x.row + 1] = x.meant

DataTrue(d, L) ==
    /\ d.id = None => d.items = <<>>
    /\ d.id \in List =>
          /\ d.ver <= L[d.id].ver
          /\ d.ver = L[d.id].ver =>
                \A r \in 0 .. Len(d.items) - 1 : d.items[r + 1] = L[d.id].items[d.offset + r + 1]

Remembers(e, L) == /\ RowTrue(e.dragging, L)
                   /\ \A r \in 0 .. PerPage - 1 : RowTrue(e.boxes[r], L)

\* The continuation of c will take notice of version v of l.
Tells(c, l, v) == /\ c.own /\ c.kind \in Changes /\ c.list = l
                  /\ c.state = "ok" /\ c.res.ver = v

Told(l, v, C, E) == <<l, v>> \in E \/ \E c \in C : Tells(c, l, v)

\* The set S is right about the existence of l.
Agrees(l, S, L, C, E) == (l \in S) = L[l].there \/ Told(l, L[l].ver, C, E)

\* d shows l, as far as it was told.
Knows(d, l, L, C, E) == d.id = l /\ \A v \in d.ver + 1 .. L[l].ver : Told(l, v, C, E)

-----------------------------------------------------------------------------
(* The invariant                                                           *)

Shape ==
    /\ issued \in Nat /\ items \in Nat
    /\ lists \in [List -> [there : BOOLEAN, items : Seq(Nat), ver : Nat]]
    /\ route \in List \cup {None}
    /\ IsEditor(ed) /\ ed.asked <= issued /\ ed.by <= issued
    /\ IsListed(listed) /\ listed.asked <= issued /\ listed.by <= issued
    /\ playlists \subseteq List /\ dialog \subseteq List
    /\ \A c \in calls : IsCall(c) /\ c.n <= issued

Numbered == \A c, d \in calls : c.n = d.n => c = d

ListsFit == \A l \in List : AreItems(lists[l].items, items)

\* Without an editor only the overview listens.
EditorIsThere == /\ ed.gone <=> route = None
                 /\ ed.gone => \A c \in calls : c.own => c.kind \in Overview

\* The requests whose continuation takes the cover off the table.
Waits(c) == c.own /\ c.kind \in Awaited
Covered == ed.loading => \E c \in calls : Waits(c)

RowsTrue ==
    /\ DataTrue(ed.data, lists) /\ Remembers(ed, lists)
    /\ \A c \in calls : /\ DataTrue(c.res, lists)
                        /\ c.kind \in OnRow => RowTrue(c, lists)
                        /\ c.kind \in {"remove", "play"} => c.args[1] = c.offset + c.row
    /\ hit.right \/ hit.misled

\* What the newest fetch of the editor brought, or will bring.
Seeing ==
    ~ed.gone =>
        /\ ed.by = ed.asked => Knows(ed.data, route, lists, calls, excused)
        /\ \A c \in calls : c.kind = "show" /\ c.own /\ c.n = ed.asked =>
              c.list = route /\ (c.state = "ok" => Knows(c.res, route, lists, calls, excused))

\* The same for the overview.
Overviewed ==
    route = None =>
        /\ listed.by = listed.asked => \A l \in List : Agrees(l, playlists, lists, calls, excused)
        /\ \A c \in calls : c.kind = "list" /\ c.n = listed.asked /\ c.state = "ok" =>
              \A l \in List : Agrees(l, c.names, lists, calls, excused)

Inv == /\ Shape /\ Numbered /\ ListsFit /\ EditorIsThere /\ Covered /\ RowsTrue
       /\ Seeing /\ Overviewed

USE DEF vars

-----------------------------------------------------------------------------
(* Sequences                                                               *)

LEMMA RemoveAtIs ==
    ASSUME NEW s \in Seq(Nat), NEW i \in 1 .. Len(s), NEW t, t = RemoveAt(s, i)
    PROVE  /\ t \in Seq(Nat) /\ Len(t) = Len(s) - 1
           /\ \A k \in 1 .. i - 1 : t[k] = s[k]
           /\ \A k \in i .. Len(s) - 1 : t[k] = s[k + 1]
<1> DEFINE a == SubSeq(s, 1, i - 1)
           b == SubSeq(s, i + 1, Len(s))
<1>1. Len(s) \in Nat /\ \A k \in 1 .. Len(s) : s[k] \in Nat
    BY LenProperties, ElementOfSeq
<1>2. a \in Seq(Nat) /\ Len(a) = i - 1 /\ \A k \in 1 .. i - 1 : a[k] = s[k]
    <2>1. \A k \in 1 .. i - 1 : s[k] \in Nat
        BY <1>1
    <2>2. /\ a \in Seq(Nat) /\ Len(a) = IF 1 <= i - 1 THEN i - 1 - 1 + 1 ELSE 0
          /\ \A k \in 1 .. i - 1 - 1 + 1 : a[k] = s[1 + k - 1]
        BY <1>1, <2>1, SubSeqProperties
    <2> QED BY <1>1, <2>2
<1>3. b \in Seq(Nat) /\ Len(b) = Len(s) - i /\ \A k \in 1 .. Len(s) - i : b[k] = s[i + k]
    <2>1. \A k \in i + 1 .. Len(s) : s[k] \in Nat
        BY <1>1
    <2>2. /\ b \in Seq(Nat) /\ Len(b) = IF i + 1 <= Len(s) THEN Len(s) - (i + 1) + 1 ELSE 0
          /\ \A k \in 1 .. Len(s) - (i + 1) + 1 : b[k] = s[i + 1 + k - 1]
        BY <1>1, <2>1, SubSeqProperties
    <2> QED BY <1>1, <2>2
<1>4. t = a \o b
    BY DEF RemoveAt
<1> HIDE DEF a, b
<1>5. /\ a \o b \in Seq(Nat) /\ Len(a \o b) = Len(a) + Len(b)
      /\ \A k \in 1 .. Len(a) + Len(b) : (a \o b)[k] = IF k <= Len(a) THEN a[k] ELSE b[k - Len(a)]
    BY <1>2, <1>3, ConcatProperties
<1>6. t \in Seq(Nat) /\ Len(t) = Len(s) - 1
    BY <1>1, <1>2, <1>3, <1>4, <1>5
<1>7. ASSUME NEW k \in 1 .. i - 1 PROVE t[k] = s[k]
    <2>1. k \in 1 .. Len(a) + Len(b) /\ k <= Len(a)
        BY <1>1, <1>2, <1>3
    <2> QED BY <1>2, <1>4, <1>5, <2>1
<1>8. ASSUME NEW k \in i .. Len(s) - 1 PROVE t[k] = s[k + 1]
    <2>1. k \in 1 .. Len(a) + Len(b) /\ ~(k <= Len(a)) /\ k - Len(a) \in 1 .. Len(s) - i
          /\ i + (k - Len(a)) = k + 1
        BY <1>1, <1>2, <1>3
    <2>2. t[k] = b[k - Len(a)]
        BY <1>4, <1>5, <2>1
    <2> QED BY <1>3, <2>1, <2>2
<1> QED BY <1>6, <1>7, <1>8

HasInserted(t, s, i, e) ==
    /\ t \in Seq(Nat) /\ Len(t) = Len(s) + 1
    /\ \A k \in 1 .. i - 1 : t[k] = s[k]
    /\ t[i] = e
    /\ \A k \in i + 1 .. Len(s) + 1 : t[k] = s[k - 1]

LEMMA InsertAtIs ==
    ASSUME NEW s \in Seq(Nat), NEW i \in 1 .. Len(s) + 1, NEW e \in Nat
    PROVE  HasInserted(InsertAt(s, i, e), s, i, e)
<1> SUFFICES ASSUME NEW t, t = InsertAt(s, i, e) PROVE HasInserted(t, s, i, e)
    OBVIOUS
<1> DEFINE a == SubSeq(s, 1, i - 1)
           b == SubSeq(s, i, Len(s))
           c == a \o <<e>>
<1>1. Len(s) \in Nat /\ \A k \in 1 .. Len(s) : s[k] \in Nat
    BY LenProperties, ElementOfSeq
<1>2. a \in Seq(Nat) /\ Len(a) = i - 1 /\ \A k \in 1 .. i - 1 : a[k] = s[k]
    <2>1. \A k \in 1 .. i - 1 : s[k] \in Nat
        BY <1>1
    <2>2. /\ a \in Seq(Nat) /\ Len(a) = IF 1 <= i - 1 THEN i - 1 - 1 + 1 ELSE 0
          /\ \A k \in 1 .. i - 1 - 1 + 1 : a[k] = s[1 + k - 1]
        BY <1>1, <2>1, SubSeqProperties
    <2> QED BY <1>1, <2>2
<1>3. b \in Seq(Nat) /\ Len(b) = Len(s) - i + 1 /\ \A k \in 1 .. Len(s) - i + 1 : b[k] = s[i + k - 1]
    <2>1. \A k \in i .. Len(s) : s[k] \in Nat
        BY <1>1
    <2>2. /\ b \in Seq(Nat) /\ Len(b) = IF i <= Len(s) THEN Len(s) - i + 1 ELSE 0
          /\ \A k \in 1 .. Len(s) - i + 1 : b[k] = s[i + k - 1]
        BY <1>1, <2>1, SubSeqProperties
    <2> QED BY <1>1, <2>2
<1>4. t = c \o b
    BY DEF InsertAt
<1> HIDE DEF a, b
<1>5. c \in Seq(Nat) /\ Len(c) = i /\ \A k \in 1 .. i : c[k] = IF k < i THEN s[k] ELSE e
    <2>1. <<e>> \in Seq(Nat) /\ Len(<<e>>) = 1 /\ <<e>>[1] = e
        OBVIOUS
    <2>2. /\ a \o <<e>> \in Seq(Nat) /\ Len(a \o <<e>>) = Len(a) + Len(<<e>>)
          /\ \A k \in 1 .. Len(a) + Len(<<e>>) :
                (a \o <<e>>)[k] = IF k <= Len(a) THEN a[k] ELSE <<e>>[k - Len(a)]
        BY <1>2, <2>1, ConcatProperties
    <2> QED BY <1>1, <1>2, <2>1, <2>2
<1> HIDE DEF c
<1>6. /\ c \o b \in Seq(Nat) /\ Len(c \o b) = Len(c) + Len(b)
      /\ \A k \in 1 .. Len(c) + Len(b) : (c \o b)[k] = IF k <= Len(c) THEN c[k] ELSE b[k - Len(c)]
    BY <1>3, <1>5, ConcatProperties
<1>7. t \in Seq(Nat) /\ Len(t) = Len(s) + 1
    BY <1>1, <1>3, <1>4, <1>5, <1>6
<1>8. ASSUME NEW k \in 1 .. i PROVE t[k] = c[k]
    <2>1. k \in 1 .. Len(c) + Len(b) /\ k <= Len(c)
        BY <1>1, <1>3, <1>5
    <2> QED BY <1>4, <1>6, <2>1
<1>9. ASSUME NEW k \in i + 1 .. Len(s) + 1 PROVE t[k] = s[k - 1]
    <2>1. k \in 1 .. Len(c) + Len(b) /\ ~(k <= Len(c)) /\ k - Len(c) \in 1 .. Len(s) - i + 1
          /\ i + (k - Len(c)) - 1 = k - 1
        BY <1>1, <1>3, <1>5
    <2>2. t[k] = b[k - Len(c)]
        BY <1>4, <1>6, <2>1
    <2> QED BY <1>3, <2>1, <2>2
<1>10. t[i] = e /\ \A k \in 1 .. i - 1 : t[k] = s[k]
    BY <1>1, <1>5, <1>8
<1> QED BY <1>7, <1>9, <1>10 DEF HasInserted

-----------------------------------------------------------------------------
(* Data                                                                    *)

\* The edits of a list.
LEMMA RemovedItems ==
    ASSUME NEW made \in Nat, NEW s, AreItems(s, made), NEW i \in 1 .. Len(s), NEW t, t = RemoveAt(s, i)
    PROVE  /\ AreItems(t, made) /\ Len(t) = Len(s) - 1
           /\ \A k \in 1 .. Len(t) : t[k] # s[i]
<1>1. s \in Seq(Nat) /\ Len(s) \in Nat /\ \A k \in 1 .. Len(s) : s[k] \in Nat /\ s[k] <= made
    BY LenProperties, ElementOfSeq DEF AreItems
<1>2. /\ t \in Seq(Nat) /\ Len(t) = Len(s) - 1
      /\ \A k \in 1 .. i - 1 : t[k] = s[k]
      /\ \A k \in i .. Len(s) - 1 : t[k] = s[k + 1]
    BY <1>1, RemoveAtIs
<1>3. \A k \in 1 .. Len(t) : \E x \in 1 .. Len(s) : x # i /\ t[k] = s[x] /\ (k < i => x = k) /\ (k >= i => x = k + 1)
    <2> SUFFICES ASSUME NEW k \in 1 .. Len(t)
                 PROVE  \E x \in 1 .. Len(s) : x # i /\ t[k] = s[x] /\ (k < i => x = k) /\ (k >= i => x = k + 1)
        OBVIOUS
    <2>1. CASE k < i
        BY <1>1, <1>2, <2>1
    <2>2. CASE k >= i
        BY <1>1, <1>2, <2>2
    <2> QED BY <1>1, <1>2, <2>1, <2>2
<1>4. ASSUME NEW k \in 1 .. Len(t) PROVE t[k] <= made /\ t[k] # s[i]
    BY <1>1, <1>3 DEF AreItems
<1>5. ASSUME NEW k \in 1 .. Len(t), NEW j \in 1 .. Len(t), t[k] = t[j] PROVE k = j
    <2>1. PICK x \in 1 .. Len(s) : t[k] = s[x] /\ (k < i => x = k) /\ (k >= i => x = k + 1)
        BY <1>3
    <2>2. PICK y \in 1 .. Len(s) : t[j] = s[y] /\ (j < i => y = j) /\ (j >= i => y = j + 1)
        BY <1>3
    <2>3. x = y
        BY <1>5, <2>1, <2>2 DEF AreItems
    <2>4. k \in Int /\ j \in Int /\ i \in Int
        BY <1>1, <1>2
    <2>5. /\ k < i => x = k
          /\ k >= i => x = k + 1
          /\ j < i => x = j
          /\ j >= i => x = j + 1
        BY <2>1, <2>2, <2>3
    <2> QED BY <2>4, <2>5
<1>6. Len(t) <= MaxSongs
    BY <1>1, <1>2, PageAssumption DEF AreItems
<1> QED BY <1>2, <1>4, <1>5, <1>6 DEF AreItems

LEMMA InsertedItems ==
    ASSUME NEW made \in Nat, NEW s, AreItems(s, made), NEW i \in 1 .. Len(s) + 1,
           NEW e \in Nat, e <= made, \A k \in 1 .. Len(s) : s[k] # e, Len(s) < MaxSongs,
           NEW t, t = InsertAt(s, i, e)
    PROVE  AreItems(t, made)
<1>1. s \in Seq(Nat) /\ Len(s) \in Nat /\ \A k \in 1 .. Len(s) : s[k] \in Nat /\ s[k] <= made
    BY LenProperties, ElementOfSeq DEF AreItems
<1>2. /\ t \in Seq(Nat) /\ Len(t) = Len(s) + 1
      /\ \A k \in 1 .. i - 1 : t[k] = s[k]
      /\ t[i] = e
      /\ \A k \in i + 1 .. Len(s) + 1 : t[k] = s[k - 1]
    <2>1. s \in Seq(Nat)
        BY <1>1
    <2>2. HasInserted(InsertAt(s, i, e), s, i, e)
        BY <2>1, InsertAtIs
    <2> QED BY <2>2 DEF HasInserted
<1>3. \A k \in 1 .. Len(t) : k # i =>
          \E x \in 1 .. Len(s) : t[k] = s[x] /\ (k < i => x = k) /\ (k >= i => x = k - 1)
    <2> SUFFICES ASSUME NEW k \in 1 .. Len(t), k # i
                 PROVE  \E x \in 1 .. Len(s) : t[k] = s[x] /\ (k < i => x = k) /\ (k >= i => x = k - 1)
        OBVIOUS
    <2>1. CASE k < i
        BY <1>1, <1>2, <2>1
    <2>2. CASE k > i
        <3>1. k \in i + 1 .. Len(s) + 1 /\ k - 1 \in 1 .. Len(s) /\ ~(k < i)
            BY <1>1, <1>2, <2>2
        <3> QED BY <1>2, <3>1
    <2> QED BY <1>1, <1>2, <2>1, <2>2
<1>4. ASSUME NEW k \in 1 .. Len(t) PROVE t[k] <= made
    BY <1>1, <1>2, <1>3
<1>5. ASSUME NEW k \in 1 .. Len(t), NEW j \in 1 .. Len(t), t[k] = t[j] PROVE k = j
    <2>1. CASE k = i \/ j = i
        BY <1>2, <1>3, <1>5, <2>1
    <2>2. CASE k # i /\ j # i
        <3>1. PICK x \in 1 .. Len(s) : t[k] = s[x] /\ (k < i => x = k) /\ (k >= i => x = k - 1)
            BY <1>3, <2>2
        <3>2. PICK y \in 1 .. Len(s) : t[j] = s[y] /\ (j < i => y = j) /\ (j >= i => y = j - 1)
            BY <1>3, <2>2
        <3>3. x = y
            BY <1>5, <3>1, <3>2 DEF AreItems
        <3>4. k \in Int /\ j \in Int /\ i \in Int
            BY <1>1, <1>2
        <3>5. /\ k < i => x = k
              /\ k >= i => x = k - 1
              /\ j < i => x = j
              /\ j >= i => x = j - 1
            BY <3>1, <3>2, <3>3
        <3> QED BY <2>2, <3>4, <3>5
    <2> QED BY <2>1, <2>2
<1>6. Len(t) <= MaxSongs
    BY <1>1, <1>2, PageAssumption
<1> QED BY <1>2, <1>4, <1>5, <1>6 DEF AreItems

LEMMA AppendedItems ==
    ASSUME NEW made \in Nat, NEW s, AreItems(s, made), Len(s) < MaxSongs
    PROVE  AreItems(Append(s, made + 1), made + 1)
<1>1. s \in Seq(Nat) /\ Len(s) \in Nat
    BY LenProperties DEF AreItems
<1>2. /\ Append(s, made + 1) \in Seq(Nat) /\ Len(Append(s, made + 1)) = Len(s) + 1
      /\ \A i \in 1 .. Len(s) : Append(s, made + 1)[i] = s[i]
      /\ Append(s, made + 1)[Len(s) + 1] = made + 1
    BY <1>1
<1>3. \A i \in 1 .. Len(s) : s[i] <= made /\ s[i] \in Nat
    BY <1>1, ElementOfSeq DEF AreItems
<1>4. Len(s) + 1 <= MaxSongs
    BY <1>1, PageAssumption
<1>5. PICK t : t = Append(s, made + 1)
    OBVIOUS
<1>6. \A i \in 1 .. Len(t) : t[i] <= made + 1
    BY <1>1, <1>2, <1>3, <1>5
<1>7. \A i, j \in 1 .. Len(t) : t[i] = t[j] => i = j
    BY <1>1, <1>2, <1>3, <1>5 DEF AreItems
<1> QED BY <1>2, <1>4, <1>5, <1>6, <1>7 DEF AreItems

LEMMA MadeMore ==
    ASSUME NEW made \in Nat, NEW s, AreItems(s, made)
    PROVE  AreItems(s, made + 1)
<1>1. s \in Seq(Nat) /\ \A i \in 1 .. Len(s) : s[i] \in Nat
    BY ElementOfSeq DEF AreItems
<1> QED BY <1>1 DEF AreItems

LEMMA NoItems == ASSUME NEW made PROVE AreItems(<<>>, made)
    BY PageAssumption DEF AreItems

\* What a command leaves is a list again.
LEMMA EditedIs ==
    ASSUME Shape, ListsFit, NEW c \in calls, Accepted(c), c.kind \in Changes
    PROVE  LET k == IF c.kind \in {"add", "insert"} THEN 1 ELSE 0
           IN  AreItems(Edited(c), items + k)
<1> DEFINE s == lists[c.list].items
           i == c.args[1] + 1
<1>1. c.list \in List /\ items \in Nat /\ IsCall(c) /\ AreItems(s, items)
    BY DEF Shape, IsCall, Changes, ListsFit
<1>2. s \in Seq(Nat) /\ Len(s) \in Nat
    BY <1>1, LenProperties DEF AreItems
<1>3. c.kind \in OnRow => i \in 1 .. Len(s)
    <2>1. c.kind \in OnRow => InList(c.list, c.args[1])
        BY <1>1 DEF Accepted, OnRow, IsCall
    <2> QED BY <1>2, <2>1 DEF InList, Count
<1>4. CASE c.kind = "remove"
    <2>1. Edited(c) = RemoveAt(s, i)
        BY <1>4 DEF Edited
    <2>2. i \in 1 .. Len(s)
        BY <1>3, <1>4 DEF OnRow
    <2> HIDE DEF s, i
    <2>3. AreItems(Edited(c), items)
        BY <1>1, <2>1, <2>2, RemovedItems
    <2> QED BY <1>1, <1>4, <2>3
<1>5. CASE c.kind = "move"
    <2> DEFINE t == RemoveAt(s, i)
               j == c.args[2] + 1
               e == s[i]
    <2>1. Edited(c) = InsertAt(t, j, e)
        BY <1>5 DEF Edited
    <2>2. i \in 1 .. Len(s)
        BY <1>3, <1>5 DEF OnRow
    <2>3. j \in 1 .. Len(s)
        <3>1. InList(c.list, c.args[2])
            BY <1>1, <1>5 DEF Accepted, IsCall
        <3> QED BY <1>2, <3>1 DEF InList, Count
    <2>4. e \in Nat /\ e <= items
        BY <1>1, <1>2, <2>2, ElementOfSeq DEF AreItems
    <2> HIDE DEF s, i, j
    <2>5. AreItems(t, items) /\ Len(t) = Len(s) - 1 /\ \A k \in 1 .. Len(t) : t[k] # e
        BY <1>1, <2>2, RemovedItems
    <2>6. Len(s) <= MaxSongs
        BY <1>1 DEF AreItems
    <2> HIDE DEF t, e
    <2>7. Len(t) < MaxSongs /\ j \in 1 .. Len(t) + 1
        BY <1>2, <2>3, <2>5, <2>6, PageAssumption
    <2>8. AreItems(Edited(c), items)
        BY <1>1, <2>1, <2>4, <2>5, <2>7, InsertedItems
    <2> QED BY <1>1, <1>5, <2>8
<1>6. CASE c.kind = "insert"
    <2>1. Edited(c) = InsertAt(s, i, items + 1)
        BY <1>6 DEF Edited
    <2>2. i \in 1 .. Len(s) /\ Len(s) < MaxSongs
        BY <1>3, <1>6 DEF OnRow, Accepted, Count
    <2>3. AreItems(s, items + 1) /\ items + 1 \in Nat
        BY <1>1, MadeMore
    <2>4. \A k \in 1 .. Len(s) : s[k] # items + 1
        <3>1. \A k \in 1 .. Len(s) : s[k] \in Nat /\ s[k] <= items
            BY <1>1, <1>2, ElementOfSeq DEF AreItems
        <3> QED BY <1>1, <3>1
    <2> DEFINE e == items + 1
    <2>5. e \in Nat /\ e <= e
        BY <1>1
    <2> HIDE DEF s, i, e
    <2>6. AreItems(InsertAt(s, i, e), e)
        <3>1. i \in 1 .. Len(s) + 1
            BY <1>2, <2>2
        <3>2. AreItems(s, e) /\ \A k \in 1 .. Len(s) : s[k] # e
            BY <2>3, <2>4 DEF e
        <3> QED BY <2>2, <2>5, <3>1, <3>2, InsertedItems
    <2> QED BY <1>1, <1>6, <2>1, <2>6 DEF e
<1>7. CASE c.kind = "add"
    <2>1. Edited(c) = Append(s, items + 1)
        BY <1>7 DEF Edited
    <2>2. Len(s) < MaxSongs
        BY <1>7 DEF Accepted, Count
    <2> HIDE DEF s
    <2>3. AreItems(Append(s, items + 1), items + 1)
        BY <1>1, <2>2, AppendedItems
    <2> QED BY <1>1, <1>7, <2>1, <2>3
<1>8. CASE c.kind \in {"create", "delete"}
    <2>1. Edited(c) = <<>>
        BY <1>8 DEF Edited
    <2> QED BY <1>1, <1>8, <2>1, NoItems
<1>9. CASE c.kind = "rename"
    <2>1. Edited(c) = s
        BY <1>9 DEF Edited
    <2> HIDE DEF s
    <2> QED BY <1>1, <1>9, <2>1
<1> QED BY <1>4, <1>5, <1>6, <1>7, <1>8, <1>9 DEF Changes

\* What "list show" answers is a page of the list.
LEMMA ShownIs ==
    ASSUME Shape, NEW c \in calls, c.kind = "show"
    PROVE  /\ Shown(c) \in Data /\ DataTrue(Shown(c), lists)
           /\ Shown(c).id = c.list /\ Shown(c).ver = lists[c.list].ver
<1> DEFINE s == lists[c.list].items
           o == Clamp(c.args[1], 0, Len(s))
           p == Clamp(o + PerPage, 0, Len(s))
           t == SubSeq(s, o + 1, p)
           d == Shown(c)
<1>1. c.list \in List /\ c.args[1] \in Nat
    BY DEF Shape, IsCall
<1>2. s \in Seq(Nat) /\ Len(s) \in Nat /\ lists[c.list].ver \in Nat
    BY <1>1, LenProperties DEF Shape
<1>3. o \in 0 .. Len(s) /\ p \in o .. Len(s) /\ p - o <= PerPage
    <2>1. \A x \in Nat, n \in Nat : Clamp(x, 0, n) \in 0 .. n /\ Clamp(x, 0, n) <= x
                                  /\ \A y \in 0 .. n : y <= x => y <= Clamp(x, 0, n)
        BY DEF Clamp
    <2>2. o \in 0 .. Len(s)
        BY <1>1, <1>2, <2>1
    <2> HIDE DEF o
    <2>3. o + PerPage \in Nat /\ o <= o + PerPage
        BY <1>2, <2>2, PageAssumption
    <2>4. p \in 0 .. Len(s) /\ p <= o + PerPage /\ o <= p
        BY <1>2, <2>1, <2>2, <2>3
    <2> HIDE DEF p
    <2> QED BY <1>2, <2>2, <2>4, PageAssumption
<1>4. /\ d.id = c.list /\ d.ver = lists[c.list].ver /\ d.offset = o /\ d.count = Len(s) /\ d.items = t
      /\ d = [id |-> d.id, ver |-> d.ver, offset |-> d.offset, count |-> d.count, items |-> d.items]
    BY DEF Shown, Version
<1> HIDE DEF s, o, p, d
<1>5. t \in Seq(Nat) /\ Len(t) = p - o /\ \A k \in 1 .. p - o : t[k] = s[o + k]
    <2>1. \A k \in o + 1 .. p : s[k] \in Nat
        BY <1>2, <1>3, ElementOfSeq
    <2>2. /\ t \in Seq(Nat) /\ Len(t) = IF o + 1 <= p THEN p - (o + 1) + 1 ELSE 0
          /\ \A k \in 1 .. p - (o + 1) + 1 : t[k] = s[o + 1 + k - 1]
        BY <1>2, <1>3, <2>1, SubSeqProperties
    <2>3. Len(t) = p - o
        BY <1>2, <1>3, <2>2
    <2>4. ASSUME NEW k \in 1 .. p - o PROVE t[k] = s[o + k]
        <3>1. k \in 1 .. p - (o + 1) + 1 /\ o + 1 + k - 1 = o + k
            BY <1>2, <1>3
        <3> QED BY <2>2, <3>1
    <2> QED BY <2>2, <2>3, <2>4
<1> HIDE DEF t
<1>6. d \in [id : List \cup {None}, ver : Nat, items : Seq(Nat), offset : Nat, count : Nat]
    BY <1>1, <1>2, <1>3, <1>4, <1>5
<1>7. d \in Data
    BY <1>2, <1>3, <1>4, <1>5, <1>6 DEF Data
<1>8. DataTrue(d, lists)
    <2>1. \A r \in 0 .. Len(d.items) - 1 : d.items[r + 1] = s[d.offset + r + 1]
        <3> TAKE r \in 0 .. Len(d.items) - 1
        <3>1. r \in 0 .. p - o - 1
            BY <1>4, <1>5
        <3>2. r + 1 \in 1 .. p - o /\ o + (r + 1) = o + r + 1
            BY <1>2, <1>3, <3>1
        <3> QED BY <1>4, <1>5, <3>2
    <2> QED BY <1>1, <1>2, <1>4, <2>1, PageAssumption DEF DataTrue, s
<1> QED BY <1>4, <1>7, <1>8 DEF d

-----------------------------------------------------------------------------
(* Requests                                                                *)

NewCall(d, n) == IsCall(d) /\ d.n = n /\ d.state = "sent" /\ d.own /\ d.res = NoData

IsRequest(d, n, kind, l, args, box) ==
    /\ NewCall(d, n) /\ d.kind = kind /\ d.list = l /\ d.args = args
    /\ d.row = box.row /\ d.offset = box.offset /\ d.meant = box.meant /\ d.seen = box.seen

ArgsFit(kind, args) == /\ kind \in OnRow => 1 \in DOMAIN args
                       /\ kind = "move" => 2 \in DOMAIN args
                       /\ kind = "show" => args[1] \in Nat

LEMMA NoDataIs == NoData \in Data /\ NoData.items = <<>> /\ NoData.id = None
<1>1. <<>> \in Seq(Nat) /\ Len(<<>>) = 0
    BY EmptySeq
<1> QED BY <1>1, PageAssumption DEF NoData, Data

LEMMA RequestIs ==
    ASSUME NEW n \in Nat \ {0}, NEW kind \in Kinds, NEW l \in List \cup {None}, NEW args, NEW box,
           kind # "list" => l \in List, ArgsFit(kind, args)
    PROVE  IsRequest(Request(n, kind, l, args, box), n, kind, l, args, box)
<1> DEFINE d == Request(n, kind, l, args, box)
<1>1. d.n = n /\ d.kind = kind /\ d.list = l /\ d.args = args /\ d.row = box.row /\ d.offset = box.offset
      /\ d.meant = box.meant /\ d.seen = box.seen /\ d.state = "sent" /\ d.res = NoData /\ d.names = {}
      /\ d.own = TRUE
    BY DEF Request
<1>2. d = [n |-> d.n, kind |-> d.kind, list |-> d.list, args |-> d.args, row |-> d.row,
           offset |-> d.offset, meant |-> d.meant, seen |-> d.seen, state |-> d.state, res |-> d.res,
           names |-> d.names, own |-> d.own]
    BY DEF Request
<1> HIDE DEF d
<1>3. IsCall(d)
    BY <1>1, <1>2, NoDataIs DEF IsCall, ArgsFit
<1> QED BY <1>1, <1>3 DEF IsRequest, NewCall, d

LEMMA ShowIs ==
    ASSUME NEW n \in Nat \ {0}, NEW l \in List, NEW offset \in Nat
    PROVE  NewCall(Show(n, l, offset), n) /\ Show(n, l, offset).kind = "show" /\ Show(n, l, offset).list = l
<1>1. ArgsFit("show", <<offset>>)
    BY DEF ArgsFit, OnRow
<1> QED BY <1>1, RequestIs DEF Show, IsRequest, Kinds, Awaited

LEMMA ListAllIs ==
    ASSUME NEW n \in Nat \ {0}
    PROVE  NewCall(ListAll(n), n) /\ ListAll(n).kind = "list"
<1>1. ArgsFit("list", <<>>)
    BY DEF ArgsFit, OnRow
<1> QED BY <1>1, RequestIs DEF ListAll, IsRequest, Kinds, Overview

LEMMA FreshIs ==
    ASSUME NEW L
    PROVE  /\ IsEditor(Fresh) /\ ~Fresh.gone /\ Fresh.data = NoData /\ Fresh.by = 0 /\ Fresh.asked = 0
           /\ IsEditor(Gone) /\ Gone.gone /\ ~Gone.loading /\ Gone.data = NoData
           /\ Gone.by = 0 /\ Gone.asked = 0
           /\ Remembers(Fresh, L) /\ Remembers(Gone, L) /\ DataTrue(NoData, L)
<1>1. RowTrue(NoBox, L)
    BY PageAssumption DEF RowTrue, NoBox
<1>2. IsEditor(Fresh) /\ Remembers(Fresh, L) /\ Fresh.data = NoData /\ ~Fresh.gone /\ Fresh.by = 0
      /\ Fresh.asked = 0
    BY <1>1, NoDataIs DEF Fresh, IsEditor, Remembers
<1>3. IsEditor(Gone) /\ Remembers(Gone, L) /\ Gone.data = NoData /\ Gone.gone /\ ~Gone.loading
      /\ Gone.by = 0 /\ Gone.asked = 0
    BY <1>1, NoDataIs DEF Fresh, Gone, IsEditor, Remembers
<1>4. DataTrue(NoData, L)
    BY NoDataIs, PageAssumption DEF DataTrue
<1> QED BY <1>2, <1>3, <1>4

\* What is orphaned listens no more, unless it is the overview's.
LEMMA OrphanIs ==
    ASSUME NEW C, \A c \in C : IsCall(c), NEW o \in Orphan(C)
    PROVE  /\ IsCall(o) /\ (o.own => o.kind \in Overview)
           /\ o.kind \in Overview => o \in C
           /\ \E c \in C : /\ o.n = c.n /\ o.kind = c.kind /\ o.list = c.list /\ o.args = c.args
                           /\ o.row = c.row /\ o.offset = c.offset /\ o.meant = c.meant
                           /\ o.seen = c.seen /\ o.res = c.res /\ o.state = c.state
                           /\ o = IF c.kind \in Overview THEN c ELSE [c EXCEPT !.own = FALSE]
<1>1. PICK c \in C : o = IF c.kind \in Overview THEN c ELSE [c EXCEPT !.own = FALSE]
    BY DEF Orphan
<1>2. CASE c.kind \in Overview
    BY <1>1, <1>2
<1>3. CASE c.kind \notin Overview
    <2>1. o = [c EXCEPT !.own = FALSE] /\ IsCall(c)
        BY <1>1, <1>3
    <2>2. IsCall(o) /\ o.own = FALSE /\ o.n = c.n /\ o.kind = c.kind /\ o.list = c.list /\ o.args = c.args
          /\ o.row = c.row /\ o.offset = c.offset /\ o.meant = c.meant /\ o.seen = c.seen
          /\ o.res = c.res /\ o.state = c.state
        BY <1>3, <2>1 DEF IsCall
    <2> QED BY <1>1, <1>3, <2>2
<1> QED BY <1>2, <1>3

\* What was told stays told, if every change whose continuation has ended
\* without notice is excused.
LEMMA ToldStays ==
    ASSUME NEW l, NEW v, NEW C, NEW E, NEW D, NEW F, E \subseteq F, Told(l, v, C, E),
           \A c \in C : Tells(c, l, v) => c \in D \/ <<l, v>> \in F
    PROVE  Told(l, v, D, F)
    BY DEF Told

\* A list that changes gets a new version.
Later(L, M) == \A l \in List : /\ L[l].ver \in Nat
                               /\ M[l] = L[l] \/ M[l].ver = L[l].ver + 1

LEMMA RowStays ==
    ASSUME NEW L, NEW M, Later(L, M), NEW x, RowTrue(x, L)
    PROVE  RowTrue(x, M)
    BY DEF Later, RowTrue

LEMMA DataStays ==
    ASSUME NEW L, NEW M, Later(L, M), NEW d \in Data, DataTrue(d, L)
    PROVE  DataTrue(d, M)
<1>1. d.ver \in Nat
    BY DEF Data
<1>2. CASE d.id \in List
    <2>1. CASE M[d.id] = L[d.id]
        BY <1>1, <1>2, <2>1 DEF DataTrue
    <2>2. CASE M[d.id].ver = L[d.id].ver + 1
        BY <1>1, <1>2, <2>2 DEF DataTrue, Later
    <2> QED BY <1>2, <2>1, <2>2 DEF Later
<1>3. CASE d.id \notin List
    BY <1>3 DEF DataTrue
<1> QED BY <1>2, <1>3

LEMMA RememberStays ==
    ASSUME NEW L, NEW M, Later(L, M), NEW e, Remembers(e, L)
    PROVE  Remembers(e, M)
    BY RowStays DEF Remembers


-----------------------------------------------------------------------------
(* What the page knows                                                     *)

\* Of the changes of l nothing is forgotten, as one state follows another.
Hears(l, C, E, D, F) == /\ E \subseteq F
                        /\ \A c \in C, v \in Nat : Tells(c, l, v) => c \in D \/ <<l, v>> \in F

\* Nothing happens that the page will not be told of.
Follows(L, C, E, M, D, F) ==
    /\ Later(L, M)
    /\ \A l \in List : /\ Hears(l, C, E, D, F)
                       /\ M[l] = L[l] \/ (M[l].ver \in Nat /\ Told(l, M[l].ver, D, F))

LEMMA KnowsStays ==
    ASSUME NEW L, NEW C, NEW E, NEW M, NEW D, NEW F, Follows(L, C, E, M, D, F),
           NEW l \in List, NEW d \in Data, Knows(d, l, L, C, E)
    PROVE  Knows(d, l, M, D, F)
<1>1. d.ver \in Nat /\ L[l].ver \in Nat /\ Hears(l, C, E, D, F)
    BY DEF Data, Follows, Later
<1>2. ASSUME NEW v \in d.ver + 1 .. M[l].ver PROVE Told(l, v, D, F)
    <2>1. CASE M[l].ver = L[l].ver + 1 /\ v = M[l].ver
        BY <2>1, <1>1 DEF Follows
    <2>2. CASE v \in d.ver + 1 .. L[l].ver
        <3>1. v \in Nat /\ Told(l, v, C, E)
            BY <1>1, <2>2 DEF Knows
        <3> QED BY <1>1, <3>1 DEF Told, Hears
    <2>3. M[l].ver = L[l].ver \/ M[l].ver = L[l].ver + 1
        BY DEF Follows, Later
    <2> QED BY <1>1, <2>1, <2>2, <2>3
<1> QED BY <1>2 DEF Knows

LEMMA AgreesStays ==
    ASSUME NEW L, NEW C, NEW E, NEW M, NEW D, NEW F, Follows(L, C, E, M, D, F),
           NEW l \in List, NEW S, Agrees(l, S, L, C, E)
    PROVE  Agrees(l, S, M, D, F)
<1>1. L[l].ver \in Nat /\ Hears(l, C, E, D, F)
    BY DEF Follows, Later
<1>2. CASE M[l] = L[l]
    <2>1. Told(l, L[l].ver, C, E) => Told(l, L[l].ver, D, F)
        BY <1>1 DEF Told, Hears
    <2> QED BY <1>2, <2>1 DEF Agrees
<1>3. CASE Told(l, M[l].ver, D, F)
    BY <1>3 DEF Agrees
<1> QED BY <1>2, <1>3 DEF Follows

\* Requests are added, and lists stay as they are.
LEMMA MoreFollows ==
    ASSUME NEW L, NEW C, NEW E, NEW D, NEW F, C \subseteq D, E \subseteq F,
           \A l \in List : L[l].ver \in Nat
    PROVE  Follows(L, C, E, L, D, F)
    BY DEF Follows, Hears, Later

\* The editor still shows what it showed.
LEMMA SeeingInv ==
    ASSUME Shape, EditorIsThere, Seeing, Follows(lists, calls, excused, lists', calls', excused'),
           UNCHANGED route, ed'.gone = ed.gone, ed'.data = ed.data, ed'.by = ed.by, ed'.asked = ed.asked,
           \A c \in calls' : c.kind = "show" /\ c.own /\ c.n = ed.asked /\ c \notin calls =>
              c.list = route /\ (c.state = "ok" => Knows(c.res, route, lists', calls', excused'))
    PROVE  Seeing'
<1> SUFFICES ASSUME ~ed.gone
             PROVE  /\ ed.by = ed.asked => Knows(ed.data, route, lists', calls', excused')
                    /\ \A c \in calls' : c.kind = "show" /\ c.own /\ c.n = ed.asked =>
                          c.list = route /\ (c.state = "ok" => Knows(c.res, route, lists', calls', excused'))
    BY DEF Seeing
<1>1. route \in List /\ ed.data \in Data
    BY DEF Shape, EditorIsThere, IsEditor
<1>2. ed.by = ed.asked => Knows(ed.data, route, lists', calls', excused')
    BY <1>1, KnowsStays DEF Seeing
<1>3. ASSUME NEW c \in calls, c.kind = "show" /\ c.own /\ c.n = ed.asked
      PROVE  c.list = route /\ (c.state = "ok" => Knows(c.res, route, lists', calls', excused'))
    <2>1. c.res \in Data
        BY DEF Shape, IsCall
    <2> QED BY <1>1, <1>3, <2>1, KnowsStays DEF Seeing
<1> QED BY <1>2, <1>3

LEMMA OverviewedInv ==
    ASSUME Overviewed, Follows(lists, calls, excused, lists', calls', excused'),
           UNCHANGED <<route, playlists, listed>>,
           \A c \in calls' : c.kind = "list" /\ c.n = listed.asked /\ c.state = "ok" /\ c \notin calls =>
              \A l \in List : Agrees(l, c.names, lists', calls', excused')
    PROVE  Overviewed'
<1> SUFFICES ASSUME route = None
             PROVE  /\ listed.by = listed.asked =>
                          \A l \in List : Agrees(l, playlists, lists', calls', excused')
                    /\ \A c \in calls' : c.kind = "list" /\ c.n = listed.asked /\ c.state = "ok" =>
                          \A l \in List : Agrees(l, c.names, lists', calls', excused')
    BY DEF Overviewed
<1>1. ASSUME listed.by = listed.asked, NEW l \in List
      PROVE  Agrees(l, playlists, lists', calls', excused')
    BY <1>1, AgreesStays DEF Overviewed
<1>2. ASSUME NEW c \in calls, c.kind = "list" /\ c.n = listed.asked /\ c.state = "ok", NEW l \in List
      PROVE  Agrees(l, c.names, lists', calls', excused')
    BY <1>2, AgreesStays DEF Overviewed
<1> QED BY <1>1, <1>2

-----------------------------------------------------------------------------
(* The user asks                                                           *)

\* The editor changes, but what it shows and what it asked for last.
Keeps(e, f, L) == /\ IsEditor(f) /\ f.gone = e.gone /\ f.data = e.data /\ f.by = e.by
                  /\ Remembers(f, L)

\* d is a request the page can make.
Askable(d, L) == /\ d.kind # "list"
                 /\ d.kind \in OnRow => RowTrue(d, L)
                 /\ d.kind \in {"remove", "play"} => d.args[1] = d.offset + d.row

LEMMA AskedInv ==
    ASSUME Inv, UNCHANGED <<lists, route, playlists, listed, items, excused, hit>>, dialog' \subseteq List,
           NEW d, NewCall(d, issued + 1), Askable(d, lists), d.kind \notin Overview => ~ed.gone,
           calls' = calls \cup {d}, issued' = issued + 1,
           Keeps(ed, ed', lists), ed'.loading => ed.loading \/ Waits(d),
           d.kind # "show" => ed'.asked = ed.asked,
           d.kind = "show" => d.list = route /\ ed'.asked = issued + 1
    PROVE  Inv'
<1>1. Shape /\ Numbered /\ ListsFit /\ EditorIsThere /\ Covered /\ RowsTrue /\ Seeing /\ Overviewed
    BY DEF Inv
<1>2. issued \in Nat /\ issued + 1 \in Nat /\ IsCall(d) /\ d.n = issued + 1 /\ d.state = "sent" /\ d.own
      /\ d.res = NoData
    BY <1>1 DEF Shape, NewCall
<1>3. Shape'
    <2>1. IsEditor(ed') /\ ed'.asked <= issued + 1 /\ ed'.by <= issued + 1
        BY <1>1, <1>2 DEF Shape, Keeps, IsEditor
    <2>2. IsListed(listed) /\ listed.asked <= issued + 1 /\ listed.by <= issued + 1
        BY <1>1, <1>2 DEF Shape, IsListed
    <2>3. \A c \in calls' : IsCall(c) /\ c.n <= issued + 1
        BY <1>1, <1>2 DEF Shape, IsCall
    <2> QED BY <1>1, <1>2, <2>1, <2>2, <2>3 DEF Shape
<1>4. d \notin calls /\ \A c \in calls : c.n # d.n
    BY <1>1, <1>2 DEF Shape, IsCall
<1>5. Numbered'
    BY <1>1, <1>4 DEF Numbered
<1>6. ListsFit' /\ EditorIsThere'
    BY <1>1, <1>2 DEF ListsFit, EditorIsThere, Keeps
<1>7. Covered'
    BY <1>1 DEF Covered
<1>8. RowsTrue'
    <2>1. DataTrue(NoData, lists)
        BY FreshIs
    <2>2. DataTrue(ed'.data, lists) /\ Remembers(ed', lists)
        BY <1>1 DEF Keeps, RowsTrue
    <2> QED BY <1>1, <1>2, <2>1, <2>2 DEF RowsTrue, Askable
<1>9. Follows(lists, calls, excused, lists', calls', excused')
    BY <1>1, MoreFollows DEF Shape
<1>10. Seeing'
    <2>1. CASE d.kind = "show"
        <3>1. ed'.by # ed'.asked
            BY <1>1, <1>2, <2>1 DEF Shape, Keeps, IsEditor
        <3>2. \A c \in calls' : c.n = ed'.asked => c = d
            BY <1>2, <1>4, <2>1
        <3> QED BY <1>2, <2>1, <3>1, <3>2 DEF Seeing
    <2>2. CASE d.kind # "show"
        BY <1>1, <1>9, <2>2, SeeingInv DEF Keeps
    <2> QED BY <2>1, <2>2
<1>11. Overviewed'
    BY <1>1, <1>9, OverviewedInv DEF Askable
<1> QED BY <1>3, <1>5, <1>6, <1>7, <1>8, <1>10, <1>11 DEF Inv

\* Nothing is asked.
LEMMA LocalInv ==
    ASSUME Inv, UNCHANGED <<lists, route, playlists, listed, calls, issued, items, excused, hit>>,
           dialog' \subseteq List, Keeps(ed, ed', lists), ed'.loading = ed.loading, ed'.asked = ed.asked
    PROVE  Inv'
<1>1. Shape /\ Numbered /\ ListsFit /\ EditorIsThere /\ Covered /\ RowsTrue /\ Seeing /\ Overviewed
    BY DEF Inv
<1>2. Shape' /\ Numbered' /\ ListsFit' /\ EditorIsThere' /\ Covered' /\ RowsTrue'
    BY <1>1 DEF Shape, Numbered, ListsFit, EditorIsThere, Covered, RowsTrue, Keeps
<1>3. Follows(lists, calls, excused, lists', calls', excused')
    BY <1>1, MoreFollows DEF Shape
<1>4. Seeing'
    BY <1>1, <1>3, SeeingInv DEF Keeps
<1>5. Overviewed'
    BY <1>1, <1>3, OverviewedInv
<1> QED BY <1>2, <1>4, <1>5 DEF Inv

-----------------------------------------------------------------------------
(* Operations on a row                                                     *)

\* A row of the page is what the data say, and its place is on the page.
LEMMA RowIs ==
    ASSUME Inv, NEW r \in Rows
    PROVE  /\ RowTrue(Row(r), lists) /\ Row(r).row = r /\ Row(r).offset = ed.data.offset
           /\ ~ed.gone /\ route \in List /\ r \in 0 .. PerPage - 1 /\ r < Len(ed.data.items)
           /\ ed.data.offset \in Nat
<1>1. ~ed.gone /\ r \in 0 .. Len(ed.data.items) - 1 /\ ed.data \in Data /\ DataTrue(ed.data, lists)
    BY DEF Rows, Inv, Shape, IsEditor, RowsTrue
<1>2. Len(ed.data.items) \in Nat /\ Len(ed.data.items) <= PerPage /\ ed.data.ver \in Nat
      /\ ed.data.offset \in Nat /\ ed.data.id \in List \cup {None} /\ ed.data.items \in Seq(Nat)
    BY <1>1, LenProperties DEF Data
<1>3. route \in List
    BY <1>1 DEF Inv, Shape, EditorIsThere
<1>4. r \in 0 .. PerPage - 1 /\ r < Len(ed.data.items)
    BY <1>1, <1>2, PageAssumption
<1>5. /\ Row(r).row = r /\ Row(r).offset = ed.data.offset /\ Row(r).meant = ed.data.items[r + 1]
      /\ Row(r).seen[1] = ed.data.id /\ Row(r).seen[2] = ed.data.ver
    BY DEF Row, Seen
<1>6. RowTrue(Row(r), lists)
    BY <1>1, <1>2, <1>5 DEF RowTrue, DataTrue
<1> QED BY <1>1, <1>2, <1>3, <1>4, <1>5, <1>6

\* A box is filled or emptied, the dragging begins or ends.
LEMMA BoxKept ==
    ASSUME NEW L, NEW e, IsEditor(e), Remembers(e, L), NEW r \in 0 .. PerPage - 1, NEW b,
           b # NoBox => r < Len(e.data.items), RowTrue(b, L)
    PROVE  LET f == [e EXCEPT !.boxes[r] = b]
           IN  Keeps(e, f, L) /\ f.asked = e.asked /\ f.loading = e.loading
<1> DEFINE boxes == [e.boxes EXCEPT ![r] = b]
           f == [e EXCEPT !.boxes = boxes]
<1>1. boxes = [x \in 0 .. PerPage - 1 |-> boxes[x]] /\ \A x \in 0 .. PerPage - 1 :
          boxes[x] = IF x = r THEN b ELSE e.boxes[x]
    BY DEF IsEditor
<1> HIDE DEF boxes
<1>2. /\ f \in [gone : BOOLEAN, loading : BOOLEAN, offset : Nat, dragging : {f.dragging}, data : Data,
                boxes : {f.boxes}, asked : Nat, by : Nat]
      /\ f.boxes = boxes /\ f.gone = e.gone /\ f.data = e.data /\ f.by = e.by /\ f.asked = e.asked
      /\ f.loading = e.loading /\ f.dragging = e.dragging
    BY DEF IsEditor
<1> HIDE DEF f
<1>3. IsEditor(f) /\ Remembers(f, L)
    BY <1>1, <1>2 DEF IsEditor, Remembers
<1>4. f = [e EXCEPT !.boxes[r] = b]
    BY DEF f, boxes
<1> QED BY <1>2, <1>3, <1>4 DEF Keeps

LEMMA DragKept ==
    ASSUME NEW L, NEW e, IsEditor(e), Remembers(e, L), NEW b, RowTrue(b, L)
    PROVE  LET f == [e EXCEPT !.dragging = b]
           IN  Keeps(e, f, L) /\ f.asked = e.asked /\ f.loading = e.loading
<1> DEFINE f == [e EXCEPT !.dragging = b]
<1>1. /\ f \in [gone : BOOLEAN, loading : BOOLEAN, offset : Nat, dragging : {f.dragging}, data : Data,
                boxes : {f.boxes}, asked : Nat, by : Nat]
      /\ f.boxes = e.boxes /\ f.gone = e.gone /\ f.data = e.data /\ f.by = e.by /\ f.asked = e.asked
      /\ f.loading = e.loading /\ f.dragging = b
    BY DEF IsEditor
<1> HIDE DEF f
<1>2. IsEditor(f) /\ Remembers(f, L)
    BY <1>1 DEF IsEditor, Remembers
<1> QED BY <1>1, <1>2 DEF Keeps, f

LEMMA BoxIs == ASSUME NEW L PROVE RowTrue(NoBox, L)
    BY PageAssumption DEF RowTrue, NoBox

\* A request of the editor, made with the editor in state e.
LEMMA SendInv ==
    ASSUME Inv, NEW e, Keeps(ed, e, lists), e.loading = ed.loading, e.asked = ed.asked, ~ed.gone,
           NEW kind \in Awaited \ {"show"}, NEW args, NEW box, ArgsFit(kind, args),
           kind \in OnRow => RowTrue(box, lists),
           kind = "remove" => args[1] = box.offset + box.row,
           Send(e, kind, args, box),
           UNCHANGED <<lists, playlists, items, excused, hit>>
    PROVE  Inv'
<1> DEFINE d == Request(issued + 1, kind, route, args, box)
<1>1. /\ calls' = calls \cup {d} /\ issued' = issued + 1 /\ ed' = [e EXCEPT !.loading = TRUE]
      /\ UNCHANGED <<route, listed, dialog>>
    BY DEF Send, Ask
<1>2. issued + 1 \in Nat \ {0} /\ route \in List /\ dialog \subseteq List
    BY DEF Inv, Shape, EditorIsThere
<1>3. IsRequest(d, issued + 1, kind, route, args, box)
    <2>1. kind \in Kinds
        BY DEF Kinds
    <2> QED BY <1>2, <2>1, RequestIs
<1> HIDE DEF d
<1>4. NewCall(d, issued + 1) /\ Waits(d) /\ d.kind = kind
    BY <1>3 DEF IsRequest, NewCall, Waits
<1>5. Askable(d, lists)
    <2>1. kind \notin {"list", "play"}
        BY DEF Awaited
    <2>2. RowTrue(box, lists) => RowTrue(d, lists)
        BY <1>3 DEF IsRequest, RowTrue
    <2> QED BY <1>3, <2>1, <2>2 DEF IsRequest, Askable
<1>6. Keeps(ed, ed', lists) /\ ed'.asked = ed.asked
    <2>1. IsEditor(e)
        BY DEF Keeps
    <2>2. /\ ed' \in [gone : BOOLEAN, loading : BOOLEAN, offset : Nat, dragging : {ed'.dragging}, data : Data,
                      boxes : {ed'.boxes}, asked : Nat, by : Nat]
          /\ ed'.boxes = e.boxes /\ ed'.gone = e.gone /\ ed'.data = e.data /\ ed'.by = e.by
          /\ ed'.asked = e.asked /\ ed'.dragging = e.dragging
        BY <1>1, <2>1 DEF IsEditor
    <2>3. IsEditor(ed') /\ Remembers(ed', lists)
        BY <2>1, <2>2 DEF IsEditor, Remembers, Keeps
    <2> QED BY <2>2, <2>3 DEF Keeps
<1> QED BY <1>1, <1>2, <1>4, <1>5, <1>6, AskedInv

LEMMA RowInv ==
    ASSUME Inv, NEW r \in Rows,
           \/ ItemRemove(r) \/ ItemPlay(r) \/ Edit(r) \/ Submit(r)
           \/ Cancel(r) \/ DragStart(r) \/ DropRow(r) \/ DropLink(r)
    PROVE  Inv'
<1>1. IsEditor(ed) /\ Remembers(ed, lists) /\ dialog \subseteq List
    BY DEF Inv, Shape, RowsTrue
<1>2. /\ RowTrue(Row(r), lists) /\ Row(r).row = r /\ Row(r).offset = ed.data.offset
      /\ ~ed.gone /\ route \in List /\ r \in 0 .. PerPage - 1 /\ r < Len(ed.data.items)
      /\ ed.data.offset \in Nat
    BY RowIs
<1>3. Click => UNCHANGED <<lists, playlists, items, excused, hit>>
    BY DEF Click
<1>4. Keeps(ed, ed, lists)
    BY <1>1 DEF Keeps
<1>5. \A kind \in Kinds : \A x : kind # "show" => ArgsFit(kind, <<x>>) \/ kind = "move"
    BY DEF ArgsFit
<1>6. RowTrue(NoBox, lists)
    BY BoxIs
<1>7. CASE ItemRemove(r)
    <2>1. ArgsFit("remove", <<ed.data.offset + r>>)
        BY DEF ArgsFit
    <2> QED BY <1>2, <1>3, <1>4, <1>7, <2>1, SendInv DEF ItemRemove, Awaited
<1>8. CASE ItemPlay(r)
    <2> DEFINE args == <<ed.data.offset + r>>
               d == Request(issued + 1, "play", route, args, Row(r))
    <2>1. ArgsFit("play", args) /\ args[1] = ed.data.offset + r
        BY DEF ArgsFit
    <2>2. issued + 1 \in Nat \ {0} /\ "play" \in Kinds
        BY DEF Inv, Shape, Kinds
    <2>3. calls' = calls \cup {d} /\ issued' = issued + 1 /\ UNCHANGED <<ed, route, listed, dialog>>
        BY <1>8 DEF ItemPlay, Ask
    <2>4. IsRequest(d, issued + 1, "play", route, args, Row(r))
        BY <1>2, <2>1, <2>2, RequestIs
    <2> HIDE DEF d, args
    <2>5. NewCall(d, issued + 1) /\ Askable(d, lists) /\ d.kind = "play"
        <3>1. RowTrue(d, lists)
            BY <1>2, <2>4 DEF IsRequest, RowTrue
        <3> QED BY <1>2, <2>1, <2>4, <3>1 DEF IsRequest, NewCall, Askable
    <2>6. Click
        BY <1>8 DEF ItemPlay
    <2> QED BY <1>1, <1>2, <1>3, <1>4, <2>3, <2>5, <2>6, AskedInv DEF Overview
<1>9. CASE Edit(r) \/ Cancel(r)
    <2>1. PICK b : ed' = [ed EXCEPT !.boxes[r] = b] /\ RowTrue(b, lists)
        BY <1>2, <1>6, <1>9 DEF Edit, Cancel
    <2>2. Keeps(ed, ed', lists) /\ ed'.asked = ed.asked /\ ed'.loading = ed.loading
        BY <1>1, <1>2, <2>1, BoxKept
    <2>3. Click /\ UNCHANGED <<route, listed, dialog, calls, issued>>
        BY <1>9 DEF Edit, Cancel
    <2> QED BY <1>1, <1>3, <2>2, <2>3, LocalInv
<1>10. CASE Submit(r)
    <2> DEFINE e == [ed EXCEPT !.boxes[r] = NoBox]
    <2>1. Keeps(ed, e, lists) /\ e.asked = ed.asked /\ e.loading = ed.loading
        BY <1>1, <1>2, <1>6, BoxKept
    <2>2. Send(e, "rename", <<ed.data.offset + r>>, ed.boxes[r]) /\ Click
        BY <1>10 DEF Submit
    <2>3. RowTrue(ed.boxes[r], lists)
        BY <1>1, <1>2 DEF Remembers
    <2>4. ArgsFit("rename", <<ed.data.offset + r>>)
        BY DEF ArgsFit
    <2> HIDE DEF e
    <2> QED BY <1>2, <1>3, <2>1, <2>2, <2>3, <2>4, SendInv DEF Awaited
<1>11. CASE DragStart(r)
    <2>1. Keeps(ed, ed', lists) /\ ed'.asked = ed.asked /\ ed'.loading = ed.loading
        BY <1>1, <1>2, <1>11, DragKept DEF DragStart
    <2>2. Click /\ UNCHANGED <<route, listed, dialog, calls, issued>>
        BY <1>11 DEF DragStart
    <2> QED BY <1>1, <1>3, <2>1, <2>2, LocalInv
<1>12. CASE DropRow(r)
    <2> DEFINE e == [ed EXCEPT !.dragging = NoBox]
    <2>1. Keeps(ed, e, lists) /\ e.asked = ed.asked /\ e.loading = ed.loading
        BY <1>1, <1>6, DragKept
    <2>2. \/ ed' = e /\ UNCHANGED <<route, listed, dialog, calls, issued>>
          \/ Send(e, "move", <<ed.dragging.row, r>>, ed.dragging)
        BY <1>12 DEF DropRow
    <2>3. Click
        BY <1>12 DEF DropRow
    <2>4. ArgsFit("move", <<ed.dragging.row, r>>)
        BY DEF ArgsFit
    <2>5. RowTrue(ed.dragging, lists)
        BY <1>1 DEF Remembers
    <2> HIDE DEF e
    <2>6. CASE ed' = e /\ UNCHANGED <<route, listed, dialog, calls, issued>>
        BY <1>1, <1>3, <2>1, <2>3, <2>6, LocalInv
    <2>7. CASE Send(e, "move", <<ed.dragging.row, r>>, ed.dragging)
        BY <1>2, <1>3, <2>1, <2>3, <2>4, <2>5, <2>7, SendInv DEF Awaited
    <2> QED BY <2>2, <2>6, <2>7
<1>13. CASE DropLink(r)
    <2>1. ArgsFit("insert", <<r>>)
        BY DEF ArgsFit
    <2> QED BY <1>2, <1>3, <1>4, <1>13, <2>1, SendInv DEF DropLink, Awaited
<1> QED BY <1>7, <1>8, <1>9, <1>10, <1>11, <1>12, <1>13

-----------------------------------------------------------------------------
(* The route changes                                                       *)

\* The requests C: m have been made.
CallsFit(C, m, L) ==
    /\ m \in Nat
    /\ \A c \in C : /\ IsCall(c) /\ c.n <= m /\ DataTrue(c.res, L)
                    /\ c.kind \in OnRow => RowTrue(c, L)
                    /\ c.kind \in {"remove", "play"} => c.args[1] = c.offset + c.row
    /\ \A c, d \in C : c.n = d.n => c = d

LEMMA CallsFitNow == ASSUME Inv PROVE CallsFit(calls, issued, lists)
    BY DEF Inv, Shape, Numbered, RowsTrue, CallsFit

LEMMA CallsFitMore ==
    ASSUME NEW C, NEW m, NEW L, CallsFit(C, m, L), NEW d, NewCall(d, m + 1), d.kind \in {"list", "show"}
    PROVE  CallsFit(C \cup {d}, m + 1, L)
<1>1. IsCall(d) /\ d.n = m + 1 /\ DataTrue(d.res, L) /\ d.kind \notin OnRow \cup {"remove", "play"}
    BY FreshIs DEF NewCall, OnRow
<1>2. \A c \in C : c.n # d.n /\ c.n <= m + 1
    BY <1>1 DEF CallsFit, IsCall
<1> QED BY <1>1, <1>2 DEF CallsFit

LEMMA CallsFitOrphan ==
    ASSUME NEW C, NEW m, NEW L, CallsFit(C, m, L)
    PROVE  CallsFit(Orphan(C), m, L)
<1>1. \A c \in C : IsCall(c)
    BY DEF CallsFit
<1>2. ASSUME NEW o \in Orphan(C)
      PROVE  /\ IsCall(o) /\ o.n <= m /\ DataTrue(o.res, L)
             /\ o.kind \in OnRow => RowTrue(o, L)
             /\ o.kind \in {"remove", "play"} => o.args[1] = o.offset + o.row
    <2>1. PICK c \in C : /\ o.n = c.n /\ o.kind = c.kind /\ o.args = c.args
                         /\ o.row = c.row /\ o.offset = c.offset /\ o.meant = c.meant
                         /\ o.seen = c.seen /\ o.res = c.res
        BY <1>1, OrphanIs
    <2>2. IsCall(o)
        BY <1>1, OrphanIs
    <2>3. RowTrue(c, L) => RowTrue(o, L)
        BY <2>1 DEF RowTrue
    <2> QED BY <2>1, <2>2, <2>3 DEF CallsFit
<1>3. ASSUME NEW o \in Orphan(C), NEW p \in Orphan(C), o.n = p.n
      PROVE  o = p
    <2>1. PICK c \in C : o.n = c.n /\ o = IF c.kind \in Overview THEN c ELSE [c EXCEPT !.own = FALSE]
        BY <1>1, OrphanIs
    <2>2. PICK d \in C : p.n = d.n /\ p = IF d.kind \in Overview THEN d ELSE [d EXCEPT !.own = FALSE]
        BY <1>1, OrphanIs
    <2>3. c = d
        BY <1>3, <2>1, <2>2 DEF CallsFit
    <2> QED BY <2>1, <2>2, <2>3
<1> QED BY <1>2, <1>3 DEF CallsFit

\* All but what the page knows, while the server does nothing.
LEMMA PageKept ==
    ASSUME Inv, UNCHANGED <<lists, items, hit>>, playlists' \subseteq List, dialog' \subseteq List,
           CallsFit(calls', issued', lists'), route' \in List \cup {None}, IsEditor(ed'),
           ed'.asked <= issued', ed'.by <= issued', ed'.gone <=> route' = None,
           ed'.gone => \A c \in calls' : c.own => c.kind \in Overview,
           DataTrue(ed'.data, lists'), Remembers(ed', lists'), IsListed(listed'), listed'.asked <= issued',
           listed'.by <= issued', ed'.loading => \E c \in calls' : Waits(c)
    PROVE  Shape' /\ Numbered' /\ ListsFit' /\ EditorIsThere' /\ Covered' /\ RowsTrue'
<1>1. Shape /\ ListsFit /\ RowsTrue
    BY DEF Inv
<1>2. Shape'
    BY <1>1 DEF Shape, CallsFit
<1>3. Numbered' /\ ListsFit' /\ EditorIsThere' /\ Covered'
    BY <1>1 DEF CallsFit, Numbered, ListsFit, EditorIsThere, Covered
<1>4. RowsTrue'
    BY <1>1 DEF RowsTrue, CallsFit
<1> QED BY <1>2, <1>3, <1>4

LEMMA NavigateInv ==
    ASSUME Inv, NEW l \in List \cup {None}, NEW rest \in SUBSET calls, NEW reload \in BOOLEAN,
           Navigate(l, rest, reload), UNCHANGED <<lists, playlists, items, hit>>, dialog' \subseteq List,
           excused \subseteq excused', reload \/ l # route,
           \A c \in calls \ rest : ~Waits(c),
           \A c \in calls \ rest, v \in Nat : Tells(c, route, v) /\ l = route => <<route, v>> \in excused'
    PROVE  Inv'
<1> DEFINE k == IF reload THEN 1 ELSE 0
           all == rest \cup (IF reload THEN {ListAll(issued + 1)} ELSE {})
           e == IF ed.gone THEN Fresh ELSE ed
           asked == IF reload THEN issued + 1 ELSE listed.asked
           n == issued + k + 1
<1>1. Shape /\ Numbered /\ ListsFit /\ EditorIsThere /\ Covered /\ RowsTrue /\ Seeing /\ Overviewed
    BY DEF Inv
<1>2. issued \in Nat /\ issued + k \in Nat /\ issued <= issued + k /\ issued + k < n /\ n \in Nat \ {0}
      /\ issued + k + 1 = n /\ issued + k <= n /\ issued <= n
    BY <1>1 DEF Shape
<1>3. IsListed(listed) /\ listed.asked \in Nat /\ listed.by \in Nat /\ listed.asked <= issued
      /\ listed.by <= issued
    BY <1>1 DEF Shape, IsListed
<1>4. CallsFit(all, issued + k, lists)
    <2>1. CallsFit(rest, issued, lists)
        BY CallsFitNow DEF CallsFit
    <2>2. CASE reload
        <3>1. NewCall(ListAll(issued + 1), issued + 1) /\ ListAll(issued + 1).kind = "list"
            BY <1>2, ListAllIs
        <3> QED BY <2>1, <2>2, <3>1, CallsFitMore
    <2>3. CASE ~reload
        BY <1>2, <2>1, <2>3
    <2> QED BY <2>2, <2>3
<1>5. /\ asked \in Nat /\ asked <= issued + k
      /\ reload => asked = issued + 1 /\ asked # listed.by
    BY <1>1, <1>2, <1>3
<1>6. /\ rest \subseteq all
      /\ \A c \in all \ rest : c.kind = "list" /\ c.state = "sent" /\ c.own
      /\ \A c \in all : reload /\ c.n = asked => c.state = "sent"
    <2>1. NewCall(ListAll(issued + 1), issued + 1) /\ ListAll(issued + 1).kind = "list"
        BY <1>2, ListAllIs
    <2>2. \A c \in rest : c.n <= issued /\ c.n \in Nat
        BY <1>1 DEF Shape, IsCall
    <2> QED BY <1>2, <2>1, <2>2 DEF NewCall
<1>7. IsEditor(e) /\ e.data \in Data /\ DataTrue(e.data, lists) /\ Remembers(e, lists) /\ e.by \in Nat
      /\ e.by <= issued /\ ~e.gone /\ e.offset \in Nat
    <2>1. CASE ed.gone
        <3>1. e = Fresh
            BY <2>1
        <3>2. e.data \in Data /\ e.by \in Nat /\ e.offset \in Nat
            BY <3>1, FreshIs DEF IsEditor
        <3> HIDE DEF e
        <3> QED BY <1>2, <3>1, <3>2, FreshIs
    <2>2. CASE ~ed.gone
        <3>1. e = ed
            BY <2>2
        <3> HIDE DEF e
        <3> QED BY <1>1, <2>2, <3>1 DEF Shape, RowsTrue, IsEditor
    <2> QED BY <2>1, <2>2
<1>8. \/ /\ l = route /\ calls' = all /\ issued' = issued + k
         /\ listed' = [listed EXCEPT !.asked = asked] /\ UNCHANGED <<route, ed>>
      \/ /\ l = None /\ route # None /\ route' = None /\ ed' = Gone
         /\ calls' = Orphan(all) \cup {ListAll(n)} /\ issued' = n
         /\ listed' = [listed EXCEPT !.asked = n]
      \/ /\ l # None /\ route # l /\ route' = l /\ ed' = [e EXCEPT !.loading = TRUE, !.asked = n]
         /\ calls' = all \cup {Show(n, l, e.offset)} /\ issued' = n
         /\ listed' = [listed EXCEPT !.asked = asked]
    BY Zenon DEF Navigate
<1>9. \A c \in rest : c \in calls
    OBVIOUS
<1> HIDE DEF all, k, e, asked, n
<1>10. playlists' \subseteq List
    BY <1>1 DEF Shape
<1>11. CASE /\ l = route /\ calls' = all /\ issued' = issued + k
            /\ listed' = [listed EXCEPT !.asked = asked] /\ UNCHANGED <<route, ed>>
    <2>1. IsListed(listed') /\ listed'.asked = asked /\ listed'.by = listed.by
        BY <1>3, <1>5, <1>11 DEF IsListed
    <2>2. Shape' /\ Numbered' /\ ListsFit' /\ EditorIsThere' /\ Covered' /\ RowsTrue'
        <3>1. ed.asked <= issued + k /\ ed.by <= issued + k /\ IsEditor(ed)
            BY <1>1, <1>2 DEF Shape, IsEditor
        <3>2. listed.by <= issued + k
            BY <1>2, <1>3
        <3>3. ed.gone => \A c \in all : c.own => c.kind \in Overview
            BY <1>1, <1>6 DEF EditorIsThere, Overview
        <3>4. ed.loading => \E c \in all : Waits(c)
            BY <1>1, <1>6 DEF Covered
        <3>5. ed.gone <=> route = None
            BY <1>1 DEF EditorIsThere
        <3> QED BY <1>1, <1>2, <1>4, <1>5, <1>10, <1>11, <2>1, <3>1, <3>2, <3>3, <3>4, <3>5, PageKept
                DEF Shape, RowsTrue
    <2>3. Seeing'
        <3> SUFFICES ASSUME ~ed.gone PROVE Seeing'
            BY <1>11 DEF Seeing
        <3>1. route \in List /\ \A x \in List : lists[x].ver \in Nat
            BY <1>1 DEF Shape, EditorIsThere
        <3>2. \A v \in Nat : Told(route, v, calls, excused) => Told(route, v, calls', excused')
            <4> SUFFICES ASSUME NEW v \in Nat, Told(route, v, calls, excused)
                         PROVE  Told(route, v, calls', excused')
                OBVIOUS
            <4>1. \A c \in calls : Tells(c, route, v) => c \in calls' \/ <<route, v>> \in excused'
                BY <1>6, <1>11
            <4> QED BY <4>1, ToldStays
        <3>3. ASSUME NEW d \in Data, Knows(d, route, lists, calls, excused)
              PROVE  Knows(d, route, lists', calls', excused')
            <4>1. d.ver \in Nat /\ lists[route].ver \in Nat
                BY <3>1 DEF Data
            <4>2. d.ver + 1 .. lists[route].ver \subseteq Nat
                BY <4>1
            <4> QED BY <3>2, <3>3, <4>2 DEF Knows
        <3>4. ed.data \in Data /\ \A c \in calls : c.res \in Data
            BY <1>1 DEF Shape, IsEditor, IsCall
        <3>5. \A c \in all : c.kind = "show" => c \in calls
            BY <1>6
        <3>6. ed.by = ed.asked => Knows(ed.data, route, lists', calls', excused')
            BY <1>1, <3>3, <3>4 DEF Seeing
        <3>7. ASSUME NEW c \in all, c.kind = "show" /\ c.own /\ c.n = ed.asked
              PROVE  c.list = route /\ (c.state = "ok" => Knows(c.res, route, lists', calls', excused'))
            BY <1>1, <3>3, <3>4, <3>5, <3>7 DEF Seeing
        <3> QED BY <1>11, <3>6, <3>7 DEF Seeing
    <2>4. Overviewed'
        <3>1. reload
            BY <1>11
        <3> QED BY <1>5, <1>6, <1>11, <2>1, <3>1 DEF Overviewed
    <2> QED BY <2>2, <2>3, <2>4 DEF Inv
<1>12. CASE /\ l = None /\ route # None /\ route' = None /\ ed' = Gone
            /\ calls' = Orphan(all) \cup {ListAll(n)} /\ issued' = n
            /\ listed' = [listed EXCEPT !.asked = n]
    <2>1. IsListed(listed') /\ listed'.asked = n /\ listed'.by = listed.by
        BY <1>2, <1>3, <1>12 DEF IsListed
    <2>2. NewCall(ListAll(n), n) /\ ListAll(n).kind = "list"
        BY <1>2, ListAllIs
    <2>3. CallsFit(Orphan(all), issued + k, lists)
        BY <1>4, CallsFitOrphan
    <2>4. CallsFit(calls', issued', lists')
        BY <1>2, <1>12, <2>2, <2>3, CallsFitMore
    <2>5. Shape' /\ Numbered' /\ ListsFit' /\ EditorIsThere' /\ Covered' /\ RowsTrue'
        <3>1. \A c \in calls' : c.own => c.kind \in Overview
            <4>1. \A c \in all : IsCall(c)
                BY <1>4 DEF CallsFit
            <4>2. \A c \in Orphan(all) : c.own => c.kind \in Overview
                BY <4>1, OrphanIs
            <4> QED BY <1>12, <2>2, <4>2 DEF Overview
        <3>2. /\ IsEditor(ed') /\ ed'.gone /\ ed'.asked = 0 /\ ed'.by = 0 /\ ~ed'.loading
              /\ DataTrue(ed'.data, lists') /\ Remembers(ed', lists')
            BY <1>12, FreshIs
        <3>3. listed'.by <= n /\ listed'.asked <= n /\ 0 <= n /\ issued <= n
            BY <1>2, <1>3, <2>1
        <3> QED BY <1>2, <1>10, <1>12, <2>1, <2>4, <3>1, <3>2, <3>3, PageKept
    <2>6. Seeing'
        BY <1>12, FreshIs DEF Seeing
    <2>7. Overviewed'
        <3>1. listed'.by # listed'.asked
            BY <1>2, <1>3, <2>1
        <3>2. \A c \in calls' : c.n = n => c.state = "sent"
            <4>1. \A c \in Orphan(all) : c.n <= issued + k /\ c.n \in Nat
                BY <2>3 DEF CallsFit, IsCall
            <4> QED BY <1>2, <1>12, <2>2, <4>1 DEF NewCall
        <3> QED BY <2>1, <3>1, <3>2 DEF Overviewed
    <2> QED BY <2>5, <2>6, <2>7 DEF Inv
<1>13. CASE /\ l # None /\ route # l /\ route' = l /\ ed' = [e EXCEPT !.loading = TRUE, !.asked = n]
            /\ calls' = all \cup {Show(n, l, e.offset)} /\ issued' = n
            /\ listed' = [listed EXCEPT !.asked = asked]
    <2>1. IsListed(listed') /\ listed'.asked = asked /\ listed'.by = listed.by
        BY <1>3, <1>5, <1>13 DEF IsListed
    <2>2. NewCall(Show(n, l, e.offset), n) /\ Show(n, l, e.offset).kind = "show" /\ Show(n, l, e.offset).list = l
        BY <1>2, <1>7, <1>13, ShowIs
    <2>3. CallsFit(calls', issued', lists')
        BY <1>2, <1>4, <1>13, <2>2, CallsFitMore
    <2>4. /\ IsEditor(ed') /\ ed'.gone = FALSE /\ ed'.asked = n /\ ed'.by = e.by
          /\ ed'.data = e.data /\ Remembers(ed', lists)
        <3>1. /\ ed' \in [gone : BOOLEAN, loading : BOOLEAN, offset : Nat, dragging : {ed'.dragging},
                          data : Data, boxes : {ed'.boxes}, asked : Nat, by : Nat]
              /\ ed'.boxes = e.boxes /\ ed'.gone = e.gone /\ ed'.data = e.data /\ ed'.by = e.by
              /\ ed'.asked = n /\ ed'.dragging = e.dragging
            BY <1>2, <1>7, <1>13 DEF IsEditor
        <3> QED BY <1>7, <3>1 DEF IsEditor, Remembers
    <2>5. Shape' /\ Numbered' /\ ListsFit' /\ EditorIsThere' /\ Covered' /\ RowsTrue'
        <3>1. \E c \in calls' : Waits(c)
            BY <1>13, <2>2 DEF NewCall, Waits, Awaited
        <3>2. listed'.by <= n /\ listed'.asked <= n /\ e.by <= n /\ n <= n
            BY <1>2, <1>3, <1>5, <1>7, <2>1
        <3>3. ed'.asked <= issued' /\ ed'.by <= issued' /\ issued <= issued'
            BY <1>2, <1>13, <2>4, <3>2
        <3>4. l \in List
            BY <1>13
        <3> QED BY <1>7, <1>10, <1>13, <2>1, <2>3, <2>4, <3>1, <3>2, <3>3, <3>4, PageKept, PageAssumption
    <2>6. Seeing'
        <3>1. ed'.by # ed'.asked
            BY <1>2, <1>7, <2>4
        <3>2. \A c \in calls' : c.n = n => c.kind # "show" \/ (c.state = "sent" /\ c.list = route')
            <4>1. \A c \in all : c.n <= issued + k /\ c.n \in Nat
                BY <1>4 DEF CallsFit, IsCall
            <4> QED BY <1>2, <1>13, <2>2, <4>1 DEF NewCall
        <3> QED BY <2>4, <3>1, <3>2 DEF Seeing
    <2>7. Overviewed'
        BY <1>13 DEF Overviewed
    <2> QED BY <2>5, <2>6, <2>7 DEF Inv
<1> QED BY <1>8, <1>11, <1>12, <1>13

-----------------------------------------------------------------------------
(* The user                                                                *)

\* A request that belongs to no row, and changes nothing of the page.
LEMMA PlainInv ==
    ASSUME Inv, NEW kind \in {"create", "delete", "title"}, NEW l \in List,
           Ask(Request(issued + 1, kind, l, <<>>, NoBox)), kind = "title" => ~ed.gone,
           UNCHANGED <<lists, route, playlists, listed, items, excused, hit, ed>>, dialog' \subseteq List
    PROVE  Inv'
<1> DEFINE d == Request(issued + 1, kind, l, <<>>, NoBox)
<1>1. calls' = calls \cup {d} /\ issued' = issued + 1
    BY DEF Ask
<1>2. ArgsFit(kind, <<>>) /\ issued + 1 \in Nat \ {0} /\ kind \in Kinds
    BY DEF ArgsFit, OnRow, Inv, Shape, Kinds, Overview
<1>3. IsRequest(d, issued + 1, kind, l, <<>>, NoBox)
    BY <1>2, RequestIs
<1> HIDE DEF d
<1>4. NewCall(d, issued + 1) /\ d.kind = kind /\ Askable(d, lists)
    BY <1>3 DEF IsRequest, Askable, OnRow
<1>5. Keeps(ed, ed', lists)
    BY DEF Inv, Shape, RowsTrue, Keeps
<1>6. kind \notin Overview => ~ed.gone
    BY DEF Overview
<1> QED BY <1>1, <1>4, <1>5, <1>6, AskedInv

LEMMA PageChangeInv ==
    ASSUME Inv, NEW offset, OnPageChange(offset), offset \in Nat
    PROVE  Inv'
<1> DEFINE d == Show(issued + 1, route, offset)
<1>1. /\ calls' = calls \cup {d} /\ issued' = issued + 1 /\ ~ed.gone
      /\ ed' = [ed EXCEPT !.loading = TRUE, !.offset = offset, !.asked = issued + 1]
      /\ UNCHANGED <<lists, playlists, items, excused, hit, route, listed, dialog>>
    BY DEF OnPageChange, Ask, Click
<1>2. route \in List /\ issued + 1 \in Nat \ {0} /\ dialog \subseteq List /\ IsEditor(ed) /\ Remembers(ed, lists)
    BY <1>1 DEF Inv, Shape, EditorIsThere, RowsTrue
<1>3. NewCall(d, issued + 1) /\ d.kind = "show" /\ d.list = route
    BY <1>2, ShowIs
<1> HIDE DEF d
<1>4. Keeps(ed, ed', lists) /\ ed'.asked = issued + 1
    <2>1. /\ ed' \in [gone : BOOLEAN, loading : BOOLEAN, offset : Nat, dragging : {ed'.dragging}, data : Data,
                      boxes : {ed'.boxes}, asked : Nat, by : Nat]
          /\ ed'.boxes = ed.boxes /\ ed'.gone = ed.gone /\ ed'.data = ed.data /\ ed'.by = ed.by
          /\ ed'.asked = issued + 1 /\ ed'.dragging = ed.dragging
        BY <1>1, <1>2 DEF IsEditor
    <2> QED BY <1>2, <2>1 DEF Keeps, IsEditor, Remembers
<1>5. Askable(d, lists) /\ Waits(d)
    BY <1>3 DEF Askable, OnRow, NewCall, Waits, Awaited
<1> QED BY <1>1, <1>2, <1>3, <1>4, <1>5, AskedInv

LEMMA UserInv ==
    ASSUME Inv, User
    PROVE  Inv'
<1>1. IsEditor(ed) /\ dialog \subseteq List /\ Keeps(ed, ed, lists)
    BY DEF Inv, Shape, RowsTrue, Keeps
<1>2. Click => UNCHANGED <<lists, playlists, items, excused, hit>>
    BY DEF Click
<1>3. ~ed.gone => route \in List
    BY DEF Inv, Shape, EditorIsThere
<1>4. CASE \E l \in List \cup {None} : Route(l)
    <2>1. PICK l \in List \cup {None} : Route(l)
        BY <1>4
    <2>2. Navigate(l, calls, FALSE) /\ Click /\ l # route /\ UNCHANGED dialog
        BY <2>1 DEF Route
    <2>3. calls \in SUBSET calls /\ calls \ calls = {}
        OBVIOUS
    <2> QED BY <1>1, <1>2, <2>2, <2>3, NavigateInv
<1>5. CASE \E l \in List : CreatePlaylist(l) \/ DeletePlaylist(l)
    <2>1. PICK l \in List : CreatePlaylist(l) \/ DeletePlaylist(l)
        BY <1>5
    <2>2. CASE CreatePlaylist(l)
        BY <1>1, <1>2, <2>2, PlainInv DEF CreatePlaylist
    <2>3. CASE DeletePlaylist(l)
        <3>1. dialog' \subseteq List
            BY <1>1, <2>3 DEF DeletePlaylist
        <3> QED BY <1>2, <2>3, <3>1, PlainInv DEF DeletePlaylist
    <2> QED BY <2>1, <2>2, <2>3
<1>6. CASE \E p \in 0 .. 1 : OnPageChange(p * PerPage)
    <2>1. PICK p \in 0 .. 1 : OnPageChange(p * PerPage)
        BY <1>6
    <2>2. p * PerPage \in Nat
        <3>1. p = 0 \/ p = 1
            OBVIOUS
        <3> QED BY <3>1, PageAssumption
    <2> QED BY <2>1, <2>2, PageChangeInv
<1>7. CASE SetPlaylistTitle
    BY <1>1, <1>2, <1>3, <1>7, PlainInv DEF SetPlaylistTitle
<1>8. CASE AddItem
    <2>1. ArgsFit("add", <<>>)
        BY DEF ArgsFit, OnRow
    <2> QED BY <1>1, <1>2, <1>8, <2>1, SendInv DEF AddItem, Awaited, OnRow
<1>9. CASE DeletePlaylistClick
    <2>1. ed.data.id \in List
        BY <1>1, <1>9 DEF DeletePlaylistClick, IsEditor, Data
    <2>2. dialog' \subseteq List
        BY <1>1, <1>9, <2>1 DEF DeletePlaylistClick
    <2> QED BY <1>1, <1>2, <1>9, <2>2, LocalInv DEF DeletePlaylistClick
<1> QED BY <1>4, <1>5, <1>6, <1>7, <1>8, <1>9, RowInv DEF User

-----------------------------------------------------------------------------
(* The server                                                              *)

SameRequest(c, d) ==
    /\ d.n = c.n /\ d.kind = c.kind /\ d.list = c.list /\ d.args = c.args /\ d.row = c.row
    /\ d.offset = c.offset /\ d.meant = c.meant /\ d.seen = c.seen /\ d.own = c.own

\* A request is answered or lost.
LEMMA AnswerInv ==
    ASSUME Inv, NEW c \in calls, NEW d, Answer(c, d), IsCall(d), SameRequest(c, d),
           UNCHANGED <<route, playlists, listed, ed, dialog, issued>>,
           Follows(lists, calls, excused, lists', calls', excused'),
           lists' \in [List -> [there : BOOLEAN, items : Seq(Nat), ver : Nat]], items' \in Nat, ListsFit',
           DataTrue(d.res, lists'), hit'.right \/ hit'.misled,
           d.kind = "show" /\ d.state = "ok" => Knows(d.res, d.list, lists', calls', excused'),
           d.kind = "list" /\ d.state = "ok" =>
              \A l \in List : Agrees(l, d.names, lists', calls', excused')
    PROVE  Inv'
<1>1. Shape /\ Numbered /\ ListsFit /\ EditorIsThere /\ Covered /\ RowsTrue /\ Seeing /\ Overviewed
    BY DEF Inv
<1>2. /\ calls' = (calls \ {c}) \cup {d}
      /\ d.n = c.n /\ d.kind = c.kind /\ d.list = c.list /\ d.own = c.own /\ d.args = c.args
      /\ d.offset = c.offset /\ d.row = c.row
    BY DEF Answer, SameRequest
<1>3. Later(lists, lists')
    BY DEF Follows
<1>4. Shape'
    BY <1>1, <1>2 DEF Shape
<1>5. Numbered' /\ EditorIsThere'
    BY <1>1, <1>2 DEF Numbered, EditorIsThere
<1>6. Covered'
    <2>1. \A e \in calls : Waits(e) => \E f \in calls' : Waits(f)
        BY <1>2 DEF Waits
    <2> QED BY <1>1, <2>1 DEF Covered
<1>7. RowsTrue'
    <2>1. DataTrue(ed.data, lists') /\ Remembers(ed, lists')
        <3>1. ed.data \in Data
            BY <1>1 DEF Shape, IsEditor
        <3> QED BY <1>1, <1>3, <3>1, DataStays, RememberStays DEF RowsTrue
    <2>2. \A e \in calls : DataTrue(e.res, lists') /\ (e.kind \in OnRow => RowTrue(e, lists'))
        <3>1. \A e \in calls : e.res \in Data
            BY <1>1 DEF Shape, IsCall
        <3> QED BY <1>1, <1>3, <3>1, DataStays, RowStays DEF RowsTrue
    <2>3. RowTrue(c, lists') => RowTrue(d, lists')
        BY DEF RowTrue, SameRequest
    <2> QED BY <1>1, <1>2, <2>1, <2>2, <2>3 DEF RowsTrue
<1>8. Seeing'
    <2>1. d.kind = "show" /\ d.own /\ d.n = ed.asked => d.list = route
        BY <1>1, <1>2 DEF Seeing, EditorIsThere, Overview
    <2> QED BY <1>1, <1>2, <2>1, SeeingInv
<1>9. Overviewed'
    BY <1>1, <1>2, OverviewedInv
<1> QED BY <1>4, <1>5, <1>6, <1>7, <1>8, <1>9 DEF Inv

\* What is heard as a request is answered.
LEMMA AnswerHears ==
    ASSUME NEW c \in calls, NEW d, Answer(c, d), excused \subseteq excused',
           \A l \in List, v \in Nat : Tells(c, l, v) => <<l, v>> \in excused'
    PROVE  \A l \in List : Hears(l, calls, excused, calls', excused')
<1>1. calls' = (calls \ {c}) \cup {d}
    BY DEF Answer
<1> QED BY <1>1 DEF Hears

\* The lists are left alone.
LEMMA AnswerFollows ==
    ASSUME Inv, NEW c \in calls, NEW d, Answer(c, d), UNCHANGED lists, excused \subseteq excused',
           \A l \in List, v \in Nat : Tells(c, l, v) => <<l, v>> \in excused'
    PROVE  Follows(lists, calls, excused, lists', calls', excused')
<1>1. \A l \in List : lists[l].ver \in Nat
    BY DEF Inv, Shape
<1>2. \A l \in List : Hears(l, calls, excused, calls', excused')
    BY AnswerHears
<1>3. Later(lists, lists')
    BY <1>1 DEF Later
<1> QED BY <1>2, <1>3 DEF Follows

LEMMA LoseInv ==
    ASSUME Inv, NEW c \in calls, Lose(c)
    PROVE  Inv'
<1> DEFINE d == [c EXCEPT !.state = "failed"]
<1>1. /\ Answer(c, d) /\ IsCall(c)
      /\ UNCHANGED <<lists, route, playlists, listed, ed, dialog, issued, items, hit>>
    BY DEF Lose, Inv, Shape
<1>2. excused \subseteq excused' /\ \A l \in List, v \in Nat : Tells(c, l, v) => <<l, v>> \in excused'
    BY DEF Lose, Tells
<1>3. IsCall(d) /\ SameRequest(c, d) /\ d.res = c.res /\ d.state = "failed"
    BY <1>1 DEF IsCall, SameRequest
<1> HIDE DEF d
<1>4. Follows(lists, calls, excused, lists', calls', excused')
    BY <1>1, <1>2, AnswerFollows
<1>5. /\ lists' \in [List -> [there : BOOLEAN, items : Seq(Nat), ver : Nat]] /\ items' \in Nat /\ ListsFit'
      /\ DataTrue(d.res, lists') /\ (hit'.right \/ hit'.misled)
    BY <1>1, <1>3 DEF Inv, Shape, ListsFit, RowsTrue
<1> QED BY <1>1, <1>3, <1>4, <1>5, AnswerInv

\* The operation hits the row's item, or there is a cause.
LEMMA HitIs ==
    ASSUME Inv, NEW c \in calls, Serve(c)
    PROVE  hit'.right \/ hit'.misled
<1>1. CASE ~(c.kind \in OnRow /\ Accepted(c))
    BY <1>1 DEF Serve, Inv, RowsTrue
<1>2. CASE c.kind \in OnRow /\ Accepted(c)
    <2>1. hit' = Aim(c)
        BY <1>2 DEF Serve
    <2>2. RowTrue(c, lists) /\ IsCall(c) /\ (c.kind \in {"remove", "play"} => c.args[1] = c.offset + c.row)
        BY <1>2 DEF Inv, Shape, RowsTrue
    <2>3. c.list \in List
        BY <1>2, <2>2 DEF IsCall, OnRow
    <2>4. ASSUME c.seen = <<c.list, Version(c.list)>>, c.args[1] = c.offset + c.row
          PROVE  c.seen[1] = c.list /\ lists[c.list].items[c.args[1] + 1] = c.meant
        <3>1. c.seen[1] = c.list /\ c.seen[2] = lists[c.list].ver
            BY <2>4 DEF Version
        <3> QED BY <2>2, <2>3, <2>4, <3>1 DEF RowTrue
    <2>5. Aim(c).misled \/ (c.seen = <<c.list, Version(c.list)>> /\ c.args[1] = c.offset + c.row)
        BY <1>2, <2>2 DEF Aim, OnRow
    <2>6. c.seen[1] = c.list /\ lists[c.list].items[c.args[1] + 1] = c.meant => Aim(c).right
        BY DEF Aim
    <2> QED BY <2>1, <2>4, <2>5, <2>6
<1> QED BY <1>1, <1>2

LEMMA RefuseInv ==
    ASSUME Inv, NEW c \in calls, Serve(c), Refuse(c)
    PROVE  Inv'
<1> DEFINE d == [c EXCEPT !.state = "failed"]
<1>1. /\ Answer(c, d) /\ IsCall(c) /\ c.state = "sent"
      /\ UNCHANGED <<lists, route, playlists, listed, ed, dialog, issued, items, excused>>
    BY DEF Serve, Refuse, Inv, Shape
<1>2. \A l \in List, v \in Nat : ~Tells(c, l, v)
    BY <1>1 DEF Tells
<1>3. IsCall(d) /\ SameRequest(c, d) /\ d.res = c.res /\ d.state = "failed"
    BY <1>1 DEF IsCall, SameRequest
<1> HIDE DEF d
<1>4. Follows(lists, calls, excused, lists', calls', excused')
    BY <1>1, <1>2, AnswerFollows
<1>5. /\ lists' \in [List -> [there : BOOLEAN, items : Seq(Nat), ver : Nat]] /\ items' \in Nat /\ ListsFit'
      /\ DataTrue(d.res, lists')
    BY <1>1, <1>3 DEF Inv, Shape, ListsFit, RowsTrue
<1>6. hit'.right \/ hit'.misled
    BY HitIs
<1> QED BY <1>1, <1>3, <1>4, <1>5, <1>6, AnswerInv

LEMMA ReadInv ==
    ASSUME Inv, NEW c \in calls, Serve(c), Read(c)
    PROVE  Inv'
<1> DEFINE res == IF c.kind = "show" THEN Shown(c) ELSE c.res
           names == {l \in List : c.kind = "list" /\ Exists(l)}
           d == [c EXCEPT !.state = "ok", !.res = res, !.names = names]
<1>1. /\ Answer(c, d) /\ IsCall(c) /\ c.state = "sent" /\ Shape
      /\ UNCHANGED <<lists, route, playlists, listed, ed, dialog, issued, items, excused>>
    BY DEF Serve, Read, Inv, Shape
<1>2. \A l \in List, v \in Nat : ~Tells(c, l, v)
    BY <1>1 DEF Tells
<1>3. /\ res \in Data /\ DataTrue(res, lists)
      /\ c.kind # "show" => res.id = None /\ res.items = <<>>
      /\ c.kind = "show" => res.id = c.list /\ res.ver = lists[c.list].ver /\ c.list \in List
    <2>1. CASE c.kind = "show"
        <3>1. res = Shown(c)
            BY <2>1
        <3> HIDE DEF res
        <3> QED BY <1>1, <2>1, <3>1, ShownIs DEF IsCall
    <2>2. CASE c.kind # "show"
        <3>1. res = c.res
            BY <2>2
        <3> HIDE DEF res
        <3> QED BY <1>1, <2>2, <3>1 DEF IsCall, Inv, RowsTrue
    <2> QED BY <2>1, <2>2
<1>4. names \subseteq List /\ (c.kind = "list" => \A l \in List : (l \in names) = lists[l].there)
    <2>1. \A l \in List : lists[l].there \in BOOLEAN
        BY <1>1 DEF Shape
    <2> QED BY <2>1 DEF Exists
<1> HIDE DEF res, names
<1>5. IsCall(d) /\ SameRequest(c, d) /\ d.res = res /\ d.names = names /\ d.state = "ok"
    <2>1. /\ d \in [n : Nat \ {0}, kind : Kinds, list : List \cup {None}, args : {d.args}, row : {d.row},
                    offset : {d.offset}, meant : {d.meant}, seen : {d.seen},
                    state : {"sent", "ok", "failed"}, res : Data, names : SUBSET List, own : BOOLEAN]
          /\ d.n = c.n /\ d.kind = c.kind /\ d.list = c.list /\ d.args = c.args /\ d.row = c.row
          /\ d.offset = c.offset /\ d.meant = c.meant /\ d.seen = c.seen /\ d.own = c.own
          /\ d.res = res /\ d.names = names /\ d.state = "ok"
        BY <1>1, <1>3, <1>4 DEF IsCall
    <2> HIDE DEF d
    <2> QED BY <1>1, <1>3, <2>1 DEF IsCall, SameRequest
<1> HIDE DEF d
<1>6. Follows(lists, calls, excused, lists', calls', excused')
    BY <1>1, <1>2, AnswerFollows
<1>7. /\ lists' \in [List -> [there : BOOLEAN, items : Seq(Nat), ver : Nat]] /\ items' \in Nat /\ ListsFit'
      /\ DataTrue(d.res, lists')
    BY <1>1, <1>3, <1>5 DEF Inv, Shape, ListsFit
<1>8. hit'.right \/ hit'.misled
    BY HitIs
<1>9. d.kind = "show" => Knows(d.res, d.list, lists', calls', excused')
    <2>1. d.kind = "show" => d.res.id = d.list /\ d.res.ver = lists'[d.list].ver /\ d.res.ver \in Nat
        BY <1>1, <1>3, <1>5 DEF SameRequest, Data
    <2> QED BY <2>1 DEF Knows
<1>10. d.kind = "list" => \A l \in List : Agrees(l, d.names, lists', calls', excused')
    BY <1>1, <1>4, <1>5 DEF SameRequest, Agrees
<1> QED BY <1>1, <1>5, <1>6, <1>7, <1>8, <1>9, <1>10, AnswerInv

LEMMA ChangeInv ==
    ASSUME Inv, NEW c \in calls, Serve(c), Change(c)
    PROVE  Inv'
<1> DEFINE v == Version(c.list) + 1
           res == [c.res EXCEPT !.ver = v]
           d == [c EXCEPT !.state = "ok", !.res = res]
           new == [there |-> c.kind # "delete", items |-> Edited(c), ver |-> v]
           k == IF c.kind \in {"add", "insert"} THEN 1 ELSE 0
<1>1. /\ Answer(c, d) /\ IsCall(c) /\ c.state = "sent" /\ Shape /\ ListsFit
      /\ c.kind \in Changes /\ Accepted(c)
      /\ UNCHANGED <<route, playlists, listed, ed, dialog, issued>>
      /\ lists' = [lists EXCEPT ![c.list] = new] /\ items' = items + k
    BY DEF Serve, Change, Inv, Shape, Version
<1>2. \A l \in List, x \in Nat : ~Tells(c, l, x)
    BY <1>1 DEF Tells
<1>3. c.list \in List /\ v \in Nat /\ v = lists[c.list].ver + 1
      /\ lists \in [List -> [there : BOOLEAN, items : Seq(Nat), ver : Nat]]
    BY <1>1 DEF IsCall, Changes, Shape, Version
<1>4. AreItems(Edited(c), items + k) /\ k \in {0, 1} /\ items \in Nat
    BY <1>1, EditedIs DEF Shape
<1>5. res \in Data /\ res.id = None /\ res.items = <<>> /\ res.ver = v
    <2>1. c.res \in Data /\ c.res.id = None /\ c.res.items = <<>>
        BY <1>1 DEF IsCall, Changes
    <2> HIDE DEF v
    <2> QED BY <1>3, <2>1 DEF Data
<1>6. excused \subseteq excused' /\ (c.own \/ <<c.list, v>> \in excused')
    BY DEF Change
<1> HIDE DEF res, v, k
<1>7. IsCall(d) /\ SameRequest(c, d) /\ d.res = res /\ d.state = "ok" /\ d.kind \in Changes
    <2>1. /\ d \in [n : Nat \ {0}, kind : Kinds, list : List \cup {None}, args : {d.args}, row : {d.row},
                    offset : {d.offset}, meant : {d.meant}, seen : {d.seen},
                    state : {"sent", "ok", "failed"}, res : Data, names : SUBSET List, own : BOOLEAN]
          /\ d.n = c.n /\ d.kind = c.kind /\ d.list = c.list /\ d.args = c.args /\ d.row = c.row
          /\ d.offset = c.offset /\ d.meant = c.meant /\ d.seen = c.seen /\ d.own = c.own
          /\ d.res = res /\ d.state = "ok"
        BY <1>1, <1>5 DEF IsCall
    <2> HIDE DEF d
    <2> QED BY <1>1, <1>5, <2>1 DEF IsCall, SameRequest
<1>8. /\ new \in [there : BOOLEAN, items : Seq(Nat), ver : Nat] /\ new.ver = v
      /\ new.items = Edited(c)
    <2>1. Edited(c) \in Seq(Nat) /\ (c.kind # "delete") \in BOOLEAN
        BY <1>4 DEF AreItems
    <2> QED BY <1>3, <2>1
<1> HIDE DEF d, new
<1>9. /\ lists' \in [List -> [there : BOOLEAN, items : Seq(Nat), ver : Nat]]
      /\ lists'[c.list] = new
      /\ \A l \in List : l # c.list => lists'[l] = lists[l]
    BY <1>1, <1>3, <1>8
<1>10. Follows(lists, calls, excused, lists', calls', excused')
    <2>1. Later(lists, lists')
        BY <1>3, <1>8, <1>9 DEF Later
    <2>2. \A l \in List : Hears(l, calls, excused, calls', excused')
        BY <1>1, <1>2, <1>6, AnswerHears
    <2>3. Told(c.list, v, calls', excused')
        <3>1. d \in calls'
            BY <1>1 DEF Answer
        <3>2. c.own => Tells(d, c.list, v)
            BY <1>5, <1>7 DEF SameRequest, Tells
        <3> QED BY <1>6, <3>1, <3>2 DEF Told
    <2>4. \A l \in List : lists'[l] = lists[l] \/ (lists'[l].ver \in Nat /\ Told(l, lists'[l].ver, calls', excused'))
        BY <1>3, <1>8, <1>9, <2>3
    <2> QED BY <2>1, <2>2, <2>4 DEF Follows
<1>11. ListsFit' /\ items' \in Nat
    <2>1. \A l \in List : AreItems(lists[l].items, items + k)
        <3>1. k = 0 => items + k = items
            BY <1>4
        <3> QED BY <1>1, <1>4, <3>1, MadeMore DEF ListsFit
    <2> QED BY <1>1, <1>4, <1>8, <1>9, <2>1 DEF ListsFit
<1>12. DataTrue(res, lists')
    BY <1>5, PageAssumption DEF DataTrue
<1>13. hit'.right \/ hit'.misled
    BY HitIs
<1>14. d.kind # "show" /\ d.kind # "list"
    BY <1>7 DEF Changes
<1> QED BY <1>1, <1>7, <1>9, <1>10, <1>11, <1>12, <1>13, <1>14, AnswerInv

\* Somebody else changes a list.
LEMMA ForeignInv ==
    ASSUME Inv, NEW l \in List, Foreign(l)
    PROVE  Inv'
<1> DEFINE v == lists[l].ver + 1
<1>1. Shape /\ Numbered /\ ListsFit /\ EditorIsThere /\ Covered /\ RowsTrue /\ Seeing /\ Overviewed
    BY DEF Inv
<1>2. lists \in [List -> [there : BOOLEAN, items : Seq(Nat), ver : Nat]] /\ v \in Nat
      /\ AreItems(lists[l].items, items) /\ items \in Nat
    BY <1>1 DEF Shape, ListsFit
<1>3. PICK new \in [there : BOOLEAN, items : Seq(Nat), ver : Nat] :
          lists' = [lists EXCEPT ![l] = new] /\ new.ver = v /\ AreItems(new.items, items)
    <2>1. ASSUME NEW x \in [there : BOOLEAN, items : Seq(Nat), ver : Nat],
                 lists' = [lists EXCEPT ![l] = x], x.ver = v, AreItems(x.items, items)
          PROVE  \E y \in [there : BOOLEAN, items : Seq(Nat), ver : Nat] :
                    lists' = [lists EXCEPT ![l] = y] /\ y.ver = v /\ AreItems(y.items, items)
        BY <2>1
    <2>2. CASE Count(l) > 0 /\ lists' = [lists EXCEPT ![l].items = Tail(@), ![l].ver = @ + 1]
        <3> DEFINE s == lists[l].items
                   t == Tail(s)
                   x == [lists[l] EXCEPT !.items = t, !.ver = v]
        <3>1. s \in Seq(Nat) /\ Len(s) \in Nat /\ Len(s) > 0 /\ Len(s) <= MaxSongs
              /\ \A i \in 1 .. Len(s) : s[i] \in Nat /\ s[i] <= items
            BY <1>2, <2>2, LenProperties, ElementOfSeq DEF AreItems, Count
        <3>2. t \in Seq(Nat) /\ Len(t) = Len(s) - 1 /\ \A i \in 1 .. Len(t) : t[i] = s[i + 1]
            <4>1. s # <<>>
                BY <3>1, EmptySeq
            <4> QED BY <3>1, <4>1, HeadTailProperties
        <3>3. AreItems(t, items)
            <4>1. \A i \in 1 .. Len(t) : i + 1 \in 1 .. Len(s) /\ t[i] <= items
                BY <3>1, <3>2
            <4>2. ASSUME NEW i \in 1 .. Len(t), NEW j \in 1 .. Len(t), t[i] = t[j] PROVE i = j
                <5>1. i + 1 = j + 1
                    BY <1>2, <3>2, <4>1, <4>2 DEF AreItems
                <5>2. i \in Int /\ j \in Int
                    BY <3>1, <3>2
                <5> QED BY <5>1, <5>2
            <4>3. Len(t) <= MaxSongs
                BY <3>1, <3>2, PageAssumption
            <4> QED BY <3>2, <4>1, <4>2, <4>3 DEF AreItems
        <3> HIDE DEF t, v
        <3>4. x \in [there : BOOLEAN, items : Seq(Nat), ver : Nat] /\ x.ver = v /\ x.items = t
            BY <1>2, <3>2
        <3>5. lists' = [lists EXCEPT ![l] = x]
            <4>1. lists' = [lists EXCEPT ![l].items = t, ![l].ver = v]
                BY <2>2 DEF t, v
            <4> QED BY <1>2, <4>1
        <3> HIDE DEF x
        <3> QED BY <2>1, <3>3, <3>4, <3>5
    <2>3. CASE lists' = [lists EXCEPT ![l] = [there |-> FALSE, items |-> <<>>, ver |-> @.ver + 1]]
        <3> DEFINE x == [there |-> FALSE, items |-> <<>>, ver |-> v]
        <3>1. lists' = [lists EXCEPT ![l] = x]
            BY <2>3
        <3>2. x \in [there : BOOLEAN, items : Seq(Nat), ver : Nat] /\ x.ver = v /\ x.items = <<>>
            BY <1>2, EmptySeq
        <3> HIDE DEF x
        <3> QED BY <2>1, <3>1, <3>2, NoItems
    <2> QED BY <2>2, <2>3 DEF Foreign
<1>4. /\ excused \subseteq excused' /\ <<l, v>> \in excused'
      /\ UNCHANGED <<route, playlists, listed, ed, dialog, calls, issued, items, hit>>
    BY DEF Foreign, Version
<1> HIDE DEF v
<1>5. /\ lists' \in [List -> [there : BOOLEAN, items : Seq(Nat), ver : Nat]] /\ lists'[l] = new
      /\ \A m \in List : m # l => lists'[m] = lists[m]
    BY <1>2, <1>3
<1>6. Follows(lists, calls, excused, lists', calls', excused')
    <2>1. Later(lists, lists')
        BY <1>2, <1>3, <1>5 DEF Later, v
    <2>2. \A m \in List : Hears(m, calls, excused, calls', excused')
        BY <1>4 DEF Hears
    <2>3. Told(l, v, calls', excused')
        BY <1>4 DEF Told
    <2>4. \A m \in List : lists'[m] = lists[m] \/ (lists'[m].ver \in Nat /\ Told(m, lists'[m].ver, calls', excused'))
        BY <1>2, <1>3, <1>5, <2>3
    <2> QED BY <2>1, <2>2, <2>4 DEF Follows
<1>7. Shape' /\ Numbered' /\ EditorIsThere' /\ Covered'
    BY <1>1, <1>4, <1>5 DEF Shape, Numbered, EditorIsThere, Covered
<1>8. ListsFit'
    BY <1>1, <1>3, <1>4, <1>5 DEF ListsFit
<1>9. RowsTrue'
    <2>1. ed.data \in Data /\ \A e \in calls : e.res \in Data
        BY <1>1 DEF Shape, IsEditor, IsCall
    <2>2. Later(lists, lists')
        BY <1>6 DEF Follows
    <2> QED BY <1>1, <1>4, <2>1, <2>2, DataStays, RememberStays, RowStays DEF RowsTrue
<1>10. Seeing'
    BY <1>1, <1>4, <1>6, SeeingInv
<1>11. Overviewed'
    BY <1>1, <1>4, <1>6, OverviewedInv
<1> QED BY <1>7, <1>8, <1>9, <1>10, <1>11 DEF Inv

-----------------------------------------------------------------------------
(* The continuations                                                       *)

\* The editor e with its cover taken off, or put on while it asks.
LEMMA SameEditor ==
    ASSUME NEW L, NEW e, IsEditor(e), Remembers(e, L),
           NEW f, f \in [gone : BOOLEAN, loading : BOOLEAN, offset : Nat, dragging : {f.dragging}, data : Data,
                         boxes : {f.boxes}, asked : Nat, by : Nat],
           f.boxes = e.boxes, f.gone = e.gone, f.data = e.data, f.by = e.by, f.dragging = e.dragging
    PROVE  Keeps(e, f, L)
    BY DEF Keeps, IsEditor, Remembers

LEMMA CoverKept ==
    ASSUME NEW L, NEW e, IsEditor(e), Remembers(e, L), NEW f, f = [e EXCEPT !.loading = FALSE]
    PROVE  Keeps(e, f, L) /\ f.loading = FALSE /\ f.asked = e.asked
<1>1. /\ f \in [gone : BOOLEAN, loading : BOOLEAN, offset : Nat, dragging : {f.dragging}, data : Data,
                boxes : {f.boxes}, asked : Nat, by : Nat]
      /\ f.boxes = e.boxes /\ f.gone = e.gone /\ f.data = e.data /\ f.by = e.by /\ f.dragging = e.dragging
      /\ f.loading = FALSE /\ f.asked = e.asked
    BY DEF IsEditor
<1> QED BY <1>1, SameEditor

Asking(e, n) == [e EXCEPT !.loading = TRUE, !.asked = n]

LEMMA AskKept ==
    ASSUME NEW L, NEW e, IsEditor(e), Remembers(e, L), NEW n \in Nat, NEW f, f = Asking(e, n)
    PROVE  Keeps(e, f, L) /\ f.asked = n
<1>1. /\ f \in [gone : BOOLEAN, loading : BOOLEAN, offset : Nat, dragging : {f.dragging}, data : Data,
                boxes : {f.boxes}, asked : Nat, by : Nat]
      /\ f.boxes = e.boxes /\ f.gone = e.gone /\ f.data = e.data /\ f.by = e.by /\ f.dragging = e.dragging
      /\ f.asked = n
    BY DEF IsEditor, Asking
<1> QED BY <1>1, SameEditor

\* A request has ended, and there was nothing to hear.
LEMMA DoneFollows ==
    ASSUME Inv, NEW c \in calls, Done(c), UNCHANGED <<lists, excused>>,
           \A l \in List, v \in Nat : ~Tells(c, l, v)
    PROVE  Follows(lists, calls, excused, lists', calls', excused')
<1>1. \A l \in List : lists[l].ver \in Nat
    BY DEF Inv, Shape
<1>2. \A l \in List : Hears(l, calls, excused, calls', excused')
    BY DEF Done, Hears
<1>3. Later(lists, lists')
    BY <1>1 DEF Later
<1> QED BY <1>2, <1>3 DEF Follows

LEMMA FewerFit ==
    ASSUME Inv, NEW C \in SUBSET calls
    PROVE  CallsFit(C, issued, lists)
    BY CallsFitNow DEF CallsFit

LEMMA DoneInv ==
    ASSUME Inv, NEW c \in calls, Done(c), ~Waits(c), \A l \in List, v \in Nat : ~Tells(c, l, v),
           UNCHANGED <<lists, route, playlists, listed, ed, dialog, issued, items, excused, hit>>
    PROVE  Inv'
<1>1. Shape /\ Numbered /\ ListsFit /\ EditorIsThere /\ Covered /\ RowsTrue /\ Seeing /\ Overviewed
    BY DEF Inv
<1>2. calls' = calls \ {c}
    BY DEF Done
<1>3. Shape' /\ Numbered' /\ ListsFit' /\ EditorIsThere' /\ Covered' /\ RowsTrue'
    BY <1>1, <1>2 DEF Shape, Numbered, ListsFit, EditorIsThere, Covered, RowsTrue
<1>4. Follows(lists, calls, excused, lists', calls', excused')
    BY DoneFollows
<1>5. Seeing'
    BY <1>1, <1>2, <1>4, SeeingInv
<1>6. Overviewed'
    BY <1>1, <1>2, <1>4, OverviewedInv
<1> QED BY <1>3, <1>5, <1>6 DEF Inv

LEMMA ListedInv ==
    ASSUME Inv, NEW c \in calls, c.kind = "list", Listed(c),
           UNCHANGED <<lists, dialog, items, hit>>
    PROVE  Inv'
<1>1. Shape /\ Numbered /\ ListsFit /\ EditorIsThere /\ Covered /\ RowsTrue /\ Seeing /\ Overviewed
    BY DEF Inv
<1>2. (\A l \in List, v \in Nat : ~Tells(c, l, v)) /\ ~Waits(c)
    BY DEF Tells, Waits, Changes, Awaited
<1>3. /\ Done(c) /\ calls' = calls \ {c} /\ UNCHANGED <<route, ed, issued, excused>>
    BY DEF Listed, Done
<1>4. CASE UNCHANGED <<playlists, listed>>
    BY <1>2, <1>3, <1>4, DoneInv
<1>5. CASE c.state = "ok" /\ playlists' = c.names /\ listed' = [listed EXCEPT !.by = c.n]
    <2>1. IsCall(c) /\ c.n \in Nat /\ c.n <= issued /\ c.names \subseteq List
        BY <1>1 DEF Shape, IsCall
    <2>2. IsListed(listed') /\ listed'.asked = listed.asked /\ listed'.by = c.n
        BY <1>1, <1>5, <2>1 DEF Shape, IsListed
    <2>3. Shape' /\ Numbered' /\ ListsFit' /\ EditorIsThere' /\ Covered' /\ RowsTrue'
        BY <1>1, <1>2, <1>3, <1>5, <2>1, <2>2
           DEF Shape, Numbered, ListsFit, EditorIsThere, Covered, RowsTrue
    <2>4. Follows(lists, calls, excused, lists', calls', excused')
        BY <1>2, <1>3, DoneFollows
    <2>5. Seeing'
        BY <1>1, <1>3, <2>4, SeeingInv
    <2>6. Overviewed'
        <3> SUFFICES ASSUME route = None
                     PROVE  /\ c.n = listed.asked =>
                                  \A l \in List : Agrees(l, c.names, lists', calls', excused')
                            /\ \A e \in calls' : e.kind = "list" /\ e.n = listed.asked /\ e.state = "ok" =>
                                  \A l \in List : Agrees(l, e.names, lists', calls', excused')
            BY <1>3, <1>5, <2>2 DEF Overviewed
        <3>1. ASSUME NEW e \in calls, e.kind = "list" /\ e.n = listed.asked /\ e.state = "ok", NEW l \in List
              PROVE  Agrees(l, e.names, lists', calls', excused')
            BY <1>1, <2>4, <3>1, AgreesStays DEF Overviewed
        <3> QED BY <1>3, <1>5, <3>1
    <2> QED BY <2>3, <2>5, <2>6 DEF Inv
<1> QED BY <1>4, <1>5 DEF Listed

\* The cover is taken off.
LEMMA UncoverInv ==
    ASSUME Inv, NEW c \in calls, Done(c), \A l \in List, v \in Nat : ~Tells(c, l, v),
           ed' = [ed EXCEPT !.loading = FALSE],
           UNCHANGED <<lists, route, playlists, listed, dialog, issued, items, excused, hit>>
    PROVE  Inv'
<1>1. Shape /\ Numbered /\ ListsFit /\ EditorIsThere /\ Covered /\ RowsTrue /\ Seeing /\ Overviewed
    BY DEF Inv
<1>2. calls' = calls \ {c}
    BY DEF Done
<1>3. Keeps(ed, ed', lists) /\ ed'.asked = ed.asked /\ ed'.loading = FALSE
    <2>1. IsEditor(ed) /\ Remembers(ed, lists)
        BY <1>1 DEF Shape, RowsTrue
    <2> QED BY <2>1, CoverKept
<1>4. Shape' /\ Numbered' /\ ListsFit' /\ EditorIsThere' /\ Covered' /\ RowsTrue'
    BY <1>1, <1>2, <1>3 DEF Shape, Numbered, ListsFit, EditorIsThere, Covered, RowsTrue, Keeps
<1>5. Follows(lists, calls, excused, lists', calls', excused')
    BY DoneFollows
<1>6. Seeing'
    BY <1>1, <1>2, <1>3, <1>5, SeeingInv DEF Keeps
<1>7. Overviewed'
    BY <1>1, <1>2, <1>5, OverviewedInv
<1> QED BY <1>4, <1>6, <1>7 DEF Inv

LEMMA FetchedInv ==
    ASSUME Inv, NEW c \in calls, c.own, c.kind = "show", c.state # "sent", Fetched(c),
           UNCHANGED <<lists, dialog, items, hit>>
    PROVE  Inv'
<1>1. Shape /\ Numbered /\ ListsFit /\ EditorIsThere /\ Covered /\ RowsTrue /\ Seeing /\ Overviewed
    BY DEF Inv
<1>2. \A l \in List, v \in Nat : ~Tells(c, l, v)
    BY DEF Tells, Changes
<1>3. Done(c) /\ calls' = calls \ {c} /\ UNCHANGED <<route, playlists, listed, issued, excused>>
    BY DEF Fetched, Done
<1>4. CASE c.state = "failed"
    BY <1>2, <1>3, <1>4, UncoverInv DEF Fetched
<1>5. CASE c.state # "failed"
    <2> DEFINE offset == c.res.offset
               data == c.res
               by == c.n
               boxes == [r \in DOMAIN ed.boxes |-> IF r < Len(c.res.items) THEN ed.boxes[r] ELSE NoBox]
    <2>1. ed' = [ed EXCEPT !.loading = FALSE, !.offset = offset, !.data = data, !.by = by, !.boxes = boxes]
        BY <1>5 DEF Fetched
    <2>2. IsCall(c) /\ c.state = "ok" /\ by \in Nat /\ by <= issued /\ data \in Data /\ offset \in Nat
          /\ DataTrue(data, lists) /\ IsEditor(ed) /\ Remembers(ed, lists)
        BY <1>1, <1>5 DEF Shape, IsCall, Data, RowsTrue
    <2>3. /\ boxes = [r \in 0 .. PerPage - 1 |-> boxes[r]]
          /\ \A r \in 0 .. PerPage - 1 : boxes[r] # NoBox => boxes[r] = ed.boxes[r] /\ r < Len(data.items)
        BY <2>2 DEF IsEditor
    <2> HIDE DEF offset, data, by, boxes
    <2>4. /\ ed' \in [gone : BOOLEAN, loading : BOOLEAN, offset : Nat, dragging : {ed'.dragging}, data : Data,
                      boxes : {ed'.boxes}, asked : Nat, by : Nat]
          /\ ed'.boxes = boxes /\ ed'.gone = ed.gone /\ ed'.data = data /\ ed'.by = by
          /\ ed'.asked = ed.asked /\ ed'.dragging = ed.dragging /\ ed'.loading = FALSE
        BY <2>1, <2>2 DEF IsEditor
    <2>5. IsEditor(ed')
        BY <2>3, <2>4 DEF IsEditor
    <2>6. Remembers(ed', lists)
        BY <2>2, <2>3, <2>4, BoxIs DEF Remembers
    <2>7. Shape' /\ Numbered' /\ ListsFit' /\ EditorIsThere' /\ Covered' /\ RowsTrue'
        BY <1>1, <1>3, <2>2, <2>4, <2>5, <2>6
           DEF Shape, Numbered, ListsFit, EditorIsThere, Covered, RowsTrue
    <2>8. Follows(lists, calls, excused, lists', calls', excused')
        BY <1>2, <1>3, DoneFollows
    <2>9. Seeing'
        <3> SUFFICES ASSUME ~ed.gone
                     PROVE  /\ by = ed.asked => Knows(data, route, lists', calls', excused')
                            /\ \A e \in calls' : e.kind = "show" /\ e.own /\ e.n = ed.asked =>
                                  /\ e.list = route
                                  /\ e.state = "ok" => Knows(e.res, route, lists', calls', excused')
            BY <1>3, <2>4 DEF Seeing
        <3>1. route \in List
            BY <1>1 DEF Shape, EditorIsThere
        <3>2. ASSUME NEW e \in calls, e.kind = "show" /\ e.own /\ e.n = ed.asked
              PROVE  e.list = route /\ (e.state = "ok" => Knows(e.res, route, lists', calls', excused'))
            <4>1. e.res \in Data
                BY <1>1 DEF Shape, IsCall
            <4> QED BY <1>1, <2>8, <3>1, <3>2, <4>1, KnowsStays DEF Seeing
        <3> QED BY <1>3, <2>2, <3>2 DEF by, data
    <2>10. Overviewed'
        BY <1>1, <1>3, <2>8, OverviewedInv
    <2> QED BY <2>7, <2>9, <2>10 DEF Inv
<1> QED BY <1>4, <1>5

LEMMA AppliedInv ==
    ASSUME Inv, NEW c \in calls, c.own, c.kind \in Awaited \ {"show"}, Applied(c),
           UNCHANGED <<lists, dialog, items, hit>>
    PROVE  Inv'
<1>1. Shape /\ Numbered /\ ListsFit /\ EditorIsThere /\ Covered /\ RowsTrue /\ Seeing /\ Overviewed
    BY DEF Inv
<1>2. CASE c.state = "failed" /\ Done(c) /\ ed' = [ed EXCEPT !.loading = FALSE] /\ UNCHANGED issued
    <2>1. \A l \in List, v \in Nat : ~Tells(c, l, v)
        BY <1>2 DEF Tells
    <2> QED BY <1>2, <2>1, UncoverInv DEF Applied
<1>3. CASE /\ calls' = (calls \ {c}) \cup {Show(issued + 1, route, ed.offset)}
           /\ ed' = [ed EXCEPT !.loading = TRUE, !.asked = issued + 1] /\ issued' = issued + 1
    <2> DEFINE d == Show(issued + 1, route, ed.offset)
               n == issued + 1
    <2>1. ~ed.gone /\ route \in List /\ issued \in Nat /\ n \in Nat \ {0} /\ issued < n /\ IsEditor(ed)
          /\ Remembers(ed, lists) /\ ed.offset \in Nat /\ ed.by \in Nat /\ ed.by <= issued
        BY <1>1 DEF Shape, EditorIsThere, Awaited, Overview, IsEditor, RowsTrue
    <2>2. NewCall(d, n) /\ d.kind = "show" /\ d.list = route
        BY <2>1, ShowIs
    <2>3. calls' = (calls \ {c}) \cup {d} /\ issued' = n
        BY <1>3
    <2>4. Keeps(ed, ed', lists) /\ ed'.asked = n
        <3>1. ed' = Asking(ed, n)
            BY <1>3 DEF Asking
        <3> HIDE DEF n
        <3>2. n \in Nat /\ IsEditor(ed) /\ Remembers(ed, lists)
            BY <2>1
        <3> QED BY <3>1, <3>2, AskKept
    <2> HIDE DEF d, n
    <2>5. CallsFit(calls \ {c}, issued, lists)
        BY FewerFit
    <2>6. CallsFit(calls', issued', lists')
        BY <2>2, <2>3, <2>5, CallsFitMore DEF n
    <2>7. UNCHANGED <<route, playlists, listed, excused>>
        BY DEF Applied
    <2>8. Shape' /\ Numbered' /\ ListsFit' /\ EditorIsThere' /\ Covered' /\ RowsTrue'
        <3>1. Waits(d)
            BY <2>2 DEF NewCall, Waits, Awaited
        <3>2. IsListed(listed) /\ listed.asked <= n /\ listed.by <= n
            BY <1>1, <2>1 DEF Shape, IsListed
        <3>3. ed'.by <= n /\ n <= n /\ IsEditor(ed') /\ ed'.gone = FALSE /\ Remembers(ed', lists)
              /\ DataTrue(ed'.data, lists) /\ playlists \subseteq List /\ dialog \subseteq List
            BY <1>1, <2>1, <2>4 DEF Keeps, IsEditor, RowsTrue, Shape
        <3>4. route # None
            BY <2>1, PageAssumption
        <3>5. \E e \in calls' : Waits(e)
            BY <2>3, <3>1
        <3> QED BY <2>1, <2>3, <2>4, <2>6, <2>7, <3>2, <3>3, <3>4, <3>5, PageKept
    <2>9. Seeing'
        <3>1. ed'.by # ed'.asked
            BY <2>1, <2>4 DEF Keeps
        <3>2. \A e \in calls' : e.n = n => e = d
            <4>1. \A e \in calls : e.n <= issued /\ e.n \in Nat
                BY <1>1 DEF Shape, IsCall
            <4> QED BY <2>1, <2>3, <4>1
        <3> QED BY <2>2, <2>4, <2>7, <3>1, <3>2 DEF Seeing, NewCall
    <2>10. Overviewed'
        BY <2>1, <2>7, PageAssumption DEF Overviewed
    <2> QED BY <2>8, <2>9, <2>10 DEF Inv
<1> QED BY <1>2, <1>3 DEF Applied

LEMMA MovedInv ==
    ASSUME Inv, NEW c \in calls, c.kind \in {"create", "delete"}, Moved(c),
           UNCHANGED <<lists, dialog, items, hit>>
    PROVE  Inv'
<1>1. ~Waits(c) /\ c.list \in List /\ dialog \subseteq List /\ route \in List \cup {None}
    BY DEF Waits, Awaited, Inv, Shape, IsCall
<1>2. CASE c.state = "failed" /\ Done(c) /\ UNCHANGED <<route, ed, issued, listed, excused>>
    <2>1. \A l \in List, v \in Nat : ~Tells(c, l, v)
        BY <1>2 DEF Tells
    <2> QED BY <1>1, <1>2, <2>1, DoneInv DEF Moved
<1>3. CASE /\ c.state = "ok"
           /\ Navigate(IF c.kind = "create" THEN c.list ELSE None, calls \ {c}, TRUE)
           /\ excused' = IF c.list = route /\ c.kind = "create"
                         THEN excused \cup {<<c.list, c.res.ver>>} ELSE excused
    <2> DEFINE l == IF c.kind = "create" THEN c.list ELSE None
               rest == calls \ {c}
    <2>1. l \in List \cup {None} /\ rest \in SUBSET calls /\ calls \ rest = {c}
          /\ (l = route /\ route \in List => c.list = route /\ c.kind = "create")
        BY <1>1, PageAssumption
    <2>2. Navigate(l, rest, TRUE)
        BY <1>3
    <2> HIDE DEF l, rest
    <2>3. excused \subseteq excused'
        BY <1>3
    <2>4. \A e \in calls \ rest, v \in Nat : Tells(e, route, v) /\ l = route => <<route, v>> \in excused'
        BY <1>1, <1>3, <2>1 DEF Tells
    <2>5. \A e \in calls \ rest : ~Waits(e)
        BY <1>1, <2>1
    <2>6. UNCHANGED playlists
        BY DEF Moved
    <2> QED BY <1>1, <2>1, <2>2, <2>3, <2>4, <2>5, <2>6, NavigateInv
<1> QED BY <1>2, <1>3 DEF Moved

LEMMA ResumeInv ==
    ASSUME Inv, NEW c \in calls, Resume(c)
    PROVE  Inv'
<1>1. UNCHANGED <<lists, dialog, items, hit>> /\ c.state # "sent"
    BY DEF Resume
<1>2. CASE ~c.own /\ Ignored(c)
    <2>1. ~Waits(c) /\ \A l \in List, v \in Nat : ~Tells(c, l, v)
        BY <1>2 DEF Waits, Tells
    <2> QED BY <1>1, <1>2, <2>1, DoneInv DEF Ignored
<1>3. CASE c.kind \in {"play", "title"} /\ Ignored(c)
    <2>1. ~Waits(c) /\ \A l \in List, v \in Nat : ~Tells(c, l, v)
        BY <1>3 DEF Waits, Tells, Awaited, Changes
    <2> QED BY <1>1, <1>3, <2>1, DoneInv DEF Ignored
<1>4. CASE c.own /\ c.kind = "show" /\ Fetched(c)
    BY <1>1, <1>4, FetchedInv
<1>5. CASE c.own /\ c.kind \in {"remove", "move", "rename", "add", "insert"} /\ Applied(c)
    BY <1>1, <1>5, AppliedInv DEF Awaited
<1>6. CASE c.kind = "list" /\ Listed(c)
    BY <1>1, <1>6, ListedInv
<1>7. CASE c.kind \in {"create", "delete"} /\ Moved(c)
    BY <1>1, <1>7, MovedInv
<1> QED BY <1>2, <1>3, <1>4, <1>5, <1>6, <1>7 DEF Resume

-----------------------------------------------------------------------------
(* The theorems                                                            *)

\* The page is opened.
LEMMA InitInv == Init => Inv
<1> SUFFICES ASSUME Init PROVE Inv
    OBVIOUS
<1>1. lists \in [List -> [there : BOOLEAN, items : Seq(Nat), ver : Nat]] /\ ListsFit
      /\ items \in Nat
    <2>1. PICK size \in [Old -> Sizes] :
              lists = [l \in List |->
                        [there |-> l \in Old, ver |-> 0,
                         items |-> IF l \in Old THEN [i \in 1 .. size[l] |-> i] ELSE <<>>]]
        BY DEF Init
    <2> DEFINE s(l) == IF l \in Old THEN [i \in 1 .. size[l] |-> i] ELSE <<>>
    <2>2. items = MaxSongs /\ MaxSongs \in Nat
        BY PageAssumption DEF Init
    <2>3. ASSUME NEW l \in List PROVE AreItems(s(l), items) /\ s(l) \in Seq(Nat)
        <3>1. CASE l \in Old
            <4> DEFINE n == size[l]
                       t == [i \in 1 .. n |-> i]
            <4>1. n \in Nat /\ n <= MaxSongs
                <5>1. n \in Sizes
                    BY <3>1
                <5> HIDE DEF n
                <5> QED BY <5>1, PageAssumption
            <4> HIDE DEF n
            <4>2. t \in Seq(Nat) /\ Len(t) = n /\ \A i \in 1 .. n : t[i] = i
                BY <4>1
            <4>3. AreItems(t, items)
                BY <2>2, <4>1, <4>2 DEF AreItems
            <4>4. s(l) = t
                BY <3>1 DEF n
            <4> QED BY <4>2, <4>3, <4>4
        <3>2. CASE l \notin Old
            BY <3>2, NoItems, EmptySeq
        <3> QED BY <3>1, <3>2
    <2>4. \A l \in List : lists[l].items = s(l)
        BY <2>1
    <2> HIDE DEF s
    <2>5. lists = [l \in List |-> [there |-> l \in Old, ver |-> 0, items |-> s(l)]]
        BY <2>1 DEF s
    <2>6. lists \in [List -> [there : BOOLEAN, items : Seq(Nat), ver : Nat]]
        BY <2>3, <2>5
    <2> QED BY <2>2, <2>3, <2>4, <2>6 DEF ListsFit
<1>2. /\ playlists = {} /\ listed = [asked |-> 1, by |-> 0] /\ dialog = {} /\ hit.right
      /\ NewCall(ListAll(1), 1) /\ ListAll(1).kind = "list"
    BY ListAllIs DEF Init
<1>3. IsListed(listed) /\ listed.asked = 1 /\ listed.by = 0
    BY <1>2 DEF IsListed
<1>4. DataTrue(NoData, lists)
    BY FreshIs
<1>5. CASE route # None
    <2>1. /\ calls = {ListAll(1), Show(2, route, 0)} /\ ed = [Fresh EXCEPT !.loading = TRUE, !.asked = 2]
          /\ route \in List /\ issued = 2
        BY <1>5, PageAssumption DEF Init
    <2>2. NewCall(Show(2, route, 0), 2) /\ Show(2, route, 0).kind = "show" /\ Show(2, route, 0).list = route
        BY <2>1, ShowIs
    <2>3. Keeps(Fresh, ed, lists) /\ ed.asked = 2
        <3>1. ed = Asking(Fresh, 2)
            BY <2>1 DEF Asking
        <3> QED BY <3>1, FreshIs, AskKept
    <2>4. IsEditor(ed) /\ ~ed.gone /\ ed.data = NoData /\ ed.by = 0 /\ Remembers(ed, lists)
        BY <2>3, FreshIs DEF Keeps
    <2>5. \A c \in calls : IsCall(c) /\ c.n <= 2 /\ c.res = NoData /\ c.state = "sent"
        BY <1>2, <2>1, <2>2 DEF NewCall
    <2>6. Shape
        BY <1>1, <1>2, <1>3, <2>1, <2>3, <2>4, <2>5 DEF Shape
    <2>7. Numbered /\ EditorIsThere /\ Covered
        BY <1>2, <1>5, <2>1, <2>2, <2>4 DEF Numbered, EditorIsThere, Covered, NewCall, Waits, Awaited
    <2>8. RowsTrue
        BY <1>2, <1>4, <2>1, <2>2, <2>4, <2>5 DEF RowsTrue, OnRow
    <2>9. Seeing /\ Overviewed
        BY <1>2, <1>5, <2>1, <2>2, <2>3, <2>4, <2>5 DEF Seeing, Overviewed, NewCall
    <2> QED BY <1>1, <2>6, <2>7, <2>8, <2>9 DEF Inv
<1>6. CASE route = None
    <2>1. calls = {ListAll(1)} /\ ed = Gone /\ issued = 1
        BY <1>6 DEF Init
    <2>2. IsEditor(ed) /\ ed.gone /\ ~ed.loading /\ ed.data = NoData /\ ed.by = 0 /\ ed.asked = 0
          /\ Remembers(ed, lists)
        BY <2>1, FreshIs
    <2>3. \A c \in calls : IsCall(c) /\ c.n <= 1 /\ c.res = NoData /\ c.state = "sent" /\ c.kind = "list"
        BY <1>2, <2>1 DEF NewCall
    <2>4. Shape
        BY <1>1, <1>2, <1>3, <1>6, <2>1, <2>2, <2>3 DEF Shape
    <2>5. Numbered /\ EditorIsThere /\ Covered
        BY <1>6, <2>1, <2>2, <2>3 DEF Numbered, EditorIsThere, Covered, Overview
    <2>6. RowsTrue
        BY <1>2, <1>4, <2>2, <2>3 DEF RowsTrue, OnRow
    <2>7. Seeing /\ Overviewed
        BY <1>3, <2>2, <2>3 DEF Seeing, Overviewed
    <2> QED BY <1>1, <2>4, <2>5, <2>6, <2>7 DEF Inv
<1> QED BY <1>5, <1>6

LEMMA StepInv ==
    ASSUME Inv, [Next]_vars
    PROVE  Inv'
<1>1. CASE UNCHANGED vars
    <2>1. Shape' /\ Numbered' /\ ListsFit' /\ EditorIsThere' /\ Covered'
        BY <1>1 DEF Inv, Shape, Numbered, ListsFit, EditorIsThere, Covered
    <2>2. RowsTrue' /\ Seeing' /\ Overviewed'
        BY <1>1 DEF Inv, RowsTrue, Seeing, Overviewed
    <2> QED BY <2>1, <2>2 DEF Inv
<1>2. ASSUME NEW c \in calls, Serve(c) PROVE Inv'
    BY <1>2, RefuseInv, ReadInv, ChangeInv DEF Serve
<1>3. CASE \E l \in List : Foreign(l)
    BY <1>3, ForeignInv
<1> QED BY <1>1, <1>2, <1>3, UserInv, LoseInv, ResumeInv DEF Next

\* The types, for every number of lists, rows, requests and clicks: an editor
\* exists in edit mode only, a page lies inside its list and an edit box on the
\* page, no edit makes a list longer than MaxSongs or has it hold an item twice.
THEOREM PlaylistsTyped == Spec => []TypeOK
<1>1. Inv => TypeOK
    <2> SUFFICES ASSUME Inv PROVE TypeOK
        OBVIOUS
    <2>1. Shape /\ Numbered /\ ListsFit /\ EditorIsThere
        BY DEF Inv
    <2>2. ASSUME NEW l \in List
          PROVE  /\ Exists(l) \in BOOLEAN /\ Version(l) \in Nat /\ Count(l) <= MaxSongs
                 /\ \A i, j \in 1 .. Count(l) : lists[l].items[i] = lists[l].items[j] => i = j
        BY <2>1 DEF Shape, ListsFit, AreItems, Exists, Version, Count
    <2>3. \A r \in DOMAIN ed.boxes : ed.boxes[r] # NoBox => r < Len(ed.data.items)
        BY <2>1 DEF Shape, IsEditor
    <2>4. ed.data \in Data
        BY <2>1 DEF Shape, IsEditor
    <2>5. \A c \in calls : /\ c.n \in 1 .. issued
                           /\ \A d \in calls : c.n = d.n => c = d
        BY <2>1 DEF Shape, IsCall, Numbered
    <2> QED BY <2>1, <2>2, <2>3, <2>4, <2>5 DEF Shape, EditorIsThere, TypeOK
<1> QED BY <1>1, InitInv, StepInv, PTL DEF Spec

\* The table of the editor says that it is loading only while one of the
\* editor's own requests is under way that will end that, through changes of
\* the route, lost answers and any number of requests at the same time.
THEOREM LoadingEnds == Spec => []LoadingHasRequest
<1>1. Inv => LoadingHasRequest
    BY DEF Inv, Covered, Waits, Awaited, LoadingHasRequest, OnRow
<1> QED BY <1>1, InitInv, StepInv, PTL DEF Spec

\* Play, remove, rename, move and insert hit the item of the row they were
\* meant for, unless the list is another by now than the user was shown, or a
\* row of the page was sent as a place of the list: whatever answers overtake
\* each other, no other cause is left (PlaylistEditor.vue:354, :358).
THEOREM MissHasCause == Spec => []WrongRowHasCause
<1>1. Inv => WrongRowHasCause
    BY DEF Inv, RowsTrue, WrongRowHasCause
<1> QED BY <1>1, InitInv, StepInv, PTL DEF Spec

\* An editor that waits for nothing and shows its newest fetch shows the
\* selected list, and misses only changes that it could not be told of.
THEOREM EditorIsCurrent == Spec => []NothingUnseen
<1>1. Inv => NothingUnseen
    <2> SUFFICES ASSUME Inv, ~ed.gone, ed.by = ed.asked, \A c \in calls : c.kind = "list" \/ ~c.own
                 PROVE  /\ ed.data.id = route
                        /\ \A v \in ed.data.ver + 1 .. Version(route) : <<route, v>> \in excused
        BY DEF NothingUnseen
    <2>1. Knows(ed.data, route, lists, calls, excused)
        BY DEF Inv, Seeing
    <2>2. \A c \in calls : \A v : ~Tells(c, route, v)
        BY DEF Tells, Changes
    <2> QED BY <2>1, <2>2 DEF Knows, Told, Version
<1> QED BY <1>1, InitInv, StepInv, PTL DEF Spec

\* Once its newest refresh is on the screen and no create or delete is under
\* way, the overview shows exactly the lists that exist, but for changes that
\* it could not be told of.
THEOREM OverviewIsCurrent == Spec => []OverviewCurrent
<1>1. Inv => OverviewCurrent
    <2> SUFFICES ASSUME Inv, route = None, listed.by = listed.asked, \A c \in calls : c.kind \notin Overview,
                        NEW l \in List
                 PROVE  (l \in playlists) = Exists(l) \/ <<l, Version(l)>> \in excused
        BY Zenon DEF OverviewCurrent
    <2>1. Agrees(l, playlists, lists, calls, excused)
        BY DEF Inv, Overviewed
    <2>2. \A c \in calls : \A v : ~Tells(c, l, v)
        <3>1. \A c \in calls : ~c.own
            BY DEF Inv, EditorIsThere
        <3> QED BY <3>1 DEF Tells
    <2>3. (l \in playlists) = lists[l].there \/ <<l, lists[l].ver>> \in excused
        BY Zenon, <2>1, <2>2 DEF Agrees, Told
    <2> QED BY Zenon, <2>3 DEF Exists, Version
<1> QED BY <1>1, InitInv, StepInv, PTL DEF Spec

=============================================================================
