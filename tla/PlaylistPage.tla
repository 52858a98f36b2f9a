---------------------------- MODULE PlaylistPage ----------------------------
(***************************************************************************)
(* The playlists of the web interface: the overview (Playlists.vue) with   *)
(* its dialogs, the editor of one list (PlaylistEditor.vue) with its edit  *)
(* boxes (EditableText.vue), and the lists on the server.  Every request   *)
(* is a fetch of its own: the browser may get the answers in any order, an *)
(* answer may be lost after the server has acted, and the route may change *)
(* while a request is under way.  Other users change the same lists.       *)
(*                                                                         *)
(* An item is a number; titles and links are left out, and every change of *)
(* a list gives it a new version, so that "shows the same data" is "shows  *)
(* the same version".                                                      *)
(***************************************************************************)
EXTENDS Integers, Sequences, FiniteSets, SequencesExt

CONSTANTS
    List,        \* the names of playlists
    None,        \* the route's "<none>"
    PerPage,     \* rows of a page: 20 in the code
    Old,         \* the lists that exist at the beginning
    Sizes,       \* bound: how many items they may have then
    MaxSongs,    \* Playlist.MaxSongs: 1000 in the code
    MaxClicks,   \* bound: what the user does
    MaxCalls,    \* bound: the user waits while so many requests are under way
    MaxTrouble   \* bound: lost answers and changes by other users

ASSUME PageAssumption == /\ None \notin List
                         /\ Old \subseteq List
                         /\ MaxSongs \in Nat /\ Sizes \subseteq 0 .. MaxSongs
                         /\ PerPage \in Nat \ {0}

VARIABLES
    lists,       \* the server: list -> [there, items, ver]
    route,       \* Playlists.selectedPlaylist, from the address
    playlists,   \* Playlists.playlists
    listed,      \* the last refresh of playlists asked for, and the one shown
    ed,          \* the PlaylistEditor, or Gone
    dialog,      \* lists whose DeletePlaylistModal is open
    calls,       \* requests whose continuation has not run
    issued,      \* number of requests made so far
    items,       \* the last item made
    excused,     \* changes <<list, version>> nobody told this page of
    hit,         \* the last operation on a row: did it hit the row's item?
    clicks, trouble

vars == <<lists, route, playlists, listed, ed, dialog, calls, issued, items, excused,
          hit, clicks, trouble>>

NoBox == [row |-> 0, offset |-> 0, meant |-> 0, seen |-> <<None, 0>>]
NoData == [id |-> None, ver |-> 0, items |-> <<>>, offset |-> 0, count |-> 0]

\* data() of a new editor; offset is (page - 1) * perPage.
Fresh == [gone |-> FALSE, loading |-> FALSE, offset |-> 0, dragging |-> NoBox,
          data |-> NoData, boxes |-> [r \in 0 .. PerPage - 1 |-> NoBox],
          asked |-> 0, by |-> 0]
Gone == [Fresh EXCEPT !.gone = TRUE]

Exists(l) == lists[l].there
Count(l) == Len(lists[l].items)
Seen == <<ed.data.id, ed.data.ver>>

-----------------------------------------------------------------------------
(* Requests.                                                               *)

\* The n-th request of the page.  meant and seen are the item the user acted
\* on and the data he saw.
Request(n, kind, l, args, box) ==
    [n |-> n, kind |-> kind, list |-> l, args |-> args,
     row |-> box.row, offset |-> box.offset, meant |-> box.meant, seen |-> box.seen,
     state |-> "sent", res |-> NoData, names |-> {}, own |-> TRUE]

Show(n, l, offset) == Request(n, "show", l, <<offset>>, NoBox)
ListAll(n) == Request(n, "list", None, <<>>, NoBox)

Ask(c) == /\ calls' = calls \cup {c}
          /\ issued' = issued + 1

Overview == {"list", "create", "delete"}  \* requests of Playlists.vue

\* What becomes of requests whose editor is destroyed: they run on unheard.
Orphan(C) == {IF c.kind \in Overview THEN c ELSE [c EXCEPT !.own = FALSE] :
              c \in C}

\* The route changes to l while the requests rest are under way; with
\* reload, Playlists.refresh is called besides.
Navigate(l, rest, reload) ==
    LET k == IF reload THEN 1 ELSE 0
        all == rest \cup (IF reload THEN {ListAll(issued + 1)} ELSE {})
    IN  \/ /\ l = route
           /\ calls' = all
           /\ issued' = issued + k
           /\ listed' = [listed EXCEPT !.asked = IF reload THEN issued + 1 ELSE @]
           /\ UNCHANGED <<route, ed>>
        \/ /\ l = None /\ route # None      \* watch editMode
           /\ route' = None
           /\ ed' = Gone
           /\ calls' = Orphan(all) \cup {ListAll(issued + k + 1)}
           /\ issued' = issued + k + 1
           /\ listed' = [listed EXCEPT !.asked = issued + k + 1]
        \/ /\ l # None /\ route # l         \* created, or watch selectedPlaylist
           /\ route' = l
           /\ LET e == IF ed.gone THEN Fresh ELSE ed
              IN  /\ ed' = [e EXCEPT !.loading = TRUE, !.asked = issued + k + 1]
                  /\ calls' = all \cup {Show(issued + k + 1, l, e.offset)}
           /\ issued' = issued + k + 1
           /\ listed' = [listed EXCEPT !.asked = IF reload THEN issued + 1 ELSE @]

-----------------------------------------------------------------------------
(* The user.                                                               *)

Click == /\ clicks < MaxClicks
         /\ Cardinality(calls) < MaxCalls
         /\ clicks' = clicks + 1
         /\ UNCHANGED <<lists, playlists, items, excused, hit, trouble>>

Route(l) == /\ Click
            /\ l # route
            /\ Navigate(l, calls, FALSE)
            /\ UNCHANGED dialog

\* A request of the editor, made with the editor in state e.
Send(e, kind, args, box) ==
    /\ Ask(Request(issued + 1, kind, route, args, box))
    /\ ed' = [e EXCEPT !.loading = TRUE]
    /\ UNCHANGED <<route, listed, dialog>>

Row(r) == [row |-> r, offset |-> ed.data.offset,
           meant |-> ed.data.items[r + 1], seen |-> Seen]
Rows == IF ed.gone THEN {} ELSE 0 .. Len(ed.data.items) - 1

\* Mutant: the page is forgotten.
ItemRemoveUnshifted(r) == /\ Click
                          /\ Send(ed, "remove", <<r>>, Row(r))

ItemRemove(r) == /\ Click
                 /\ Send(ed, "remove", <<ed.data.offset + r>>, Row(r))

ItemPlay(r) ==
    /\ Click
    /\ Ask(Request(issued + 1, "play", route, <<ed.data.offset + r>>, Row(r)))
    /\ UNCHANGED <<ed, route, listed, dialog>>

\* EditableText of a row: the box belongs to the row's place, not its item.
Edit(r) == /\ Click
           /\ ed.boxes[r] = NoBox
           /\ ed' = [ed EXCEPT !.boxes[r] = Row(r)]
           /\ UNCHANGED <<route, listed, dialog, calls, issued>>

Submit(r) ==
    /\ Click
    /\ ed.boxes[r] # NoBox
    /\ Send([ed EXCEPT !.boxes[r] = NoBox], "rename", <<ed.data.offset + r>>,
            ed.boxes[r])

Cancel(r) == /\ Click
             /\ ed.boxes[r] # NoBox
             /\ ed' = [ed EXCEPT !.boxes[r] = NoBox]
             /\ UNCHANGED <<route, listed, dialog, calls, issued>>

SetPlaylistTitle == /\ Click
                    /\ ~ed.gone
                    /\ Ask(Request(issued + 1, "title", route, <<>>, NoBox))
                    /\ UNCHANGED <<ed, route, listed, dialog>>

AddItem == /\ Click
           /\ ~ed.gone
           /\ Send(ed, "add", <<>>, NoBox)

\* draggingRowIndex: box.meant is the row's item, index its row.
DragStart(r) == /\ Click
                /\ ed' = [ed EXCEPT !.dragging = Row(r)]
                /\ UNCHANGED <<route, listed, dialog, calls, issued>>

\* The indices of a drop are rows of the page: no DisplayOffset is added.
DropRow(r) ==
    /\ Click
    /\ ed.dragging # NoBox
    /\ LET e == [ed EXCEPT !.dragging = NoBox]
           from == ed.dragging.row
       IN  IF from = r
           THEN /\ ed' = e
                /\ UNCHANGED <<route, listed, dialog, calls, issued>>
           ELSE Send(e, "move", <<from, r>>, ed.dragging)

DropLink(r) == /\ Click
               /\ ed.dragging = NoBox
               /\ Send(ed, "insert", <<r>>, Row(r))

\* The table's pagination offers the pages of the last total.
OnPageChange(offset) ==
    /\ Click
    /\ ~ed.gone
    /\ offset < ed.data.count
    /\ ed' = [ed EXCEPT !.loading = TRUE, !.offset = offset, !.asked = issued + 1]
    /\ Ask(Show(issued + 1, route, offset))
    /\ UNCHANGED <<route, listed, dialog>>

\* CreatePlaylistModal refuses a name it knows to be taken.
CreatePlaylist(l) ==
    /\ Click
    /\ route = None
    /\ l \notin playlists
    /\ Ask(Request(issued + 1, "create", l, <<>>, NoBox))
    /\ UNCHANGED <<ed, route, listed, dialog>>

DeletePlaylistClick ==
    /\ Click
    /\ ~ed.gone
    /\ ed.data.id # None
    /\ dialog' = dialog \cup {ed.data.id}
    /\ UNCHANGED <<ed, route, listed, calls, issued>>

DeletePlaylist(l) ==
    /\ Click
    /\ l \in dialog
    /\ dialog' = dialog \ {l}
    /\ Ask(Request(issued + 1, "delete", l, <<>>, NoBox))
    /\ UNCHANGED <<ed, route, listed>>

User == \/ \E l \in List \cup {None} : Route(l)
        \/ \E l \in List : CreatePlaylist(l) \/ DeletePlaylist(l)
        \/ \E r \in Rows : \/ ItemRemove(r) \/ ItemPlay(r) \/ Edit(r) \/ Submit(r)
                           \/ Cancel(r) \/ DragStart(r) \/ DropRow(r) \/ DropLink(r)
        \/ \E p \in 0 .. 1 : OnPageChange(p * PerPage)
        \/ SetPlaylistTitle \/ AddItem \/ DeletePlaylistClick

-----------------------------------------------------------------------------
(* The server.                                                             *)

InList(l, i) == i \in 0 .. Count(l) - 1
Clamp(x, lo, hi) == IF x < lo THEN lo ELSE IF x > hi THEN hi ELSE x

\* The checks of a command; the others throw and the answer is an error.
Accepted(c) ==
    CASE c.kind = "list"     -> TRUE
      [] c.kind = "create"   -> ~Exists(c.list)
      [] c.kind \in {"show", "title", "delete"} -> Exists(c.list)
      [] OTHER ->
             /\ Exists(c.list)
             /\ \A k \in DOMAIN c.args : InList(c.list, c.args[k])
             /\ c.kind \in {"add", "insert"} => Count(c.list) < MaxSongs

\* The items of list c.list after the command.
Edited(c) ==
    LET s == lists[c.list].items
        i == c.args[1] + 1
    IN  CASE c.kind = "remove" -> RemoveAt(s, i)
          [] c.kind = "move"   -> InsertAt(RemoveAt(s, i), c.args[2] + 1, s[i])
          [] c.kind = "insert" -> InsertAt(s, i, items + 1)
          [] c.kind = "add"    -> Append(s, items + 1)
          [] c.kind \in {"create", "delete"} -> <<>>
          [] OTHER             -> s

Changes == {"create", "delete", "add", "insert", "remove", "move", "rename"}
OnRow == {"remove", "rename", "play", "move", "insert"}

Version(l) == lists[l].ver

\* Mutant: the offset is not clamped to the list.
ShownUnclamped(c) ==
    LET s == lists[c.list].items
        o == c.args[1]
    IN  [id |-> c.list, ver |-> Version(c.list), offset |-> o, count |-> Len(s),
         items |-> SubSeq(s, o + 1, Clamp(o + PerPage, 0, Len(s)))]

\* "list show": a page of the list from a clamped offset.
Shown(c) ==
    LET s == lists[c.list].items
        o == Clamp(c.args[1], 0, Len(s))
    IN  [id |-> c.list, ver |-> Version(c.list), offset |-> o, count |-> Len(s),
         items |-> SubSeq(s, o + 1, Clamp(o + PerPage, 0, Len(s)))]

Answer(c, d) == calls' = (calls \ {c}) \cup {d}

Refuse(c) == /\ ~Accepted(c)
             /\ Answer(c, [c EXCEPT !.state = "failed"])
             /\ UNCHANGED <<lists, items, excused>>

Read(c) == /\ Accepted(c)
           /\ c.kind \notin Changes
           /\ Answer(c, [c EXCEPT !.state = "ok",
                            !.res = IF c.kind = "show" THEN Shown(c) ELSE @,
                            !.names = {l \in List : c.kind = "list" /\ Exists(l)}])
           /\ UNCHANGED <<lists, items, excused>>

Change(c) ==
    /\ Accepted(c)
    /\ c.kind \in Changes
    /\ lists' = [lists EXCEPT ![c.list] = [there |-> c.kind # "delete",
                                          items |-> Edited(c), ver |-> @.ver + 1]]
    /\ items' = items + (IF c.kind \in {"add", "insert"} THEN 1 ELSE 0)
    /\ excused' = IF c.own THEN excused
                  ELSE excused \cup {<<c.list, Version(c.list) + 1>>}
    /\ Answer(c, [c EXCEPT !.state = "ok", !.res.ver = Version(c.list) + 1])

\* Was the row's item hit?  If not, the user was shown other data than the
\* list has, or the place of his item was not the one sent: a drop sends no
\* DisplayOffset, an edit box stays at its row when the page is turned.
Aim(c) == [right |-> /\ c.seen[1] = c.list
                     /\ lists[c.list].items[c.args[1] + 1] = c.meant,
           misled |-> \/ c.seen # <<c.list, Version(c.list)>>
                      \/ (/\ c.kind \in {"move", "insert", "rename"}
                          /\ c.args[1] # c.offset + c.row)]

Serve(c) ==
    /\ c.state = "sent"
    /\ Refuse(c) \/ Read(c) \/ Change(c)
    /\ hit' = IF c.kind \in OnRow /\ Accepted(c) THEN Aim(c) ELSE hit
    /\ UNCHANGED <<route, playlists, listed, ed, dialog, issued, clicks, trouble>>

\* The request or its answer is lost: get() returns an ErrorObject.
Lose(c) ==
    /\ c.state # "failed"
    /\ trouble < MaxTrouble
    /\ trouble' = trouble + 1
    /\ Answer(c, [c EXCEPT !.state = "failed"])
    /\ excused' = IF c.state = "ok" /\ c.kind \in Changes
                  THEN excused \cup {<<c.list, c.res.ver>>} ELSE excused
    /\ UNCHANGED <<lists, route, playlists, listed, ed, dialog, issued, items, hit,
                   clicks>>

\* Somebody else takes the first item off a list, or the list away.
Foreign(l) ==
    /\ trouble < MaxTrouble
    /\ trouble' = trouble + 1
    /\ Exists(l)
    /\ \/ /\ Count(l) > 0
          /\ lists' = [lists EXCEPT ![l].items = Tail(@), ![l].ver = @ + 1]
       \/ lists' = [lists EXCEPT ![l] = [there |-> FALSE, items |-> <<>>,
                                         ver |-> @.ver + 1]]
    /\ excused' = excused \cup {<<l, Version(l) + 1>>}
    /\ UNCHANGED <<route, playlists, listed, ed, dialog, calls, issued, items, hit,
                   clicks>>

-----------------------------------------------------------------------------
(* The continuations: what the page does with an answer.                   *)

Done(c) == calls' = calls \ {c}

\* fetchPlaylist after its await; the boxes of rows that went away are gone.
Fetched(c) ==
    /\ Done(c)
    /\ ed' = IF c.state = "failed" THEN [ed EXCEPT !.loading = FALSE]
             ELSE [ed EXCEPT !.loading = FALSE, !.offset = c.res.offset,
                             !.data = c.res, !.by = c.n,
                             !.boxes = [r \in DOMAIN @ |->
                                IF r < Len(c.res.items) THEN @[r] ELSE NoBox]]
    /\ UNCHANGED <<route, playlists, listed, issued, excused>>

\* Mutants: no fetch after a change; a failure leaves the table loading.
AppliedSilently(c) ==
    /\ Done(c)
    /\ ed' = [ed EXCEPT !.loading = FALSE]
    /\ UNCHANGED <<route, playlists, listed, issued, excused>>

AppliedStillLoading(c) ==
    /\ IF c.state = "failed" THEN Done(c) /\ UNCHANGED <<ed, issued>>
       ELSE /\ calls' = (calls \ {c}) \cup {Show(issued + 1, route, ed.offset)}
            /\ ed' = [ed EXCEPT !.loading = TRUE, !.asked = issued + 1]
            /\ issued' = issued + 1
    /\ UNCHANGED <<route, playlists, listed, excused>>

\* itemRemove, itemMove, itemRename, addItem after their await.
Applied(c) ==
    /\ \/ /\ c.state = "failed"
          /\ Done(c)
          /\ ed' = [ed EXCEPT !.loading = FALSE]
          /\ UNCHANGED issued
       \/ /\ c.state = "ok"
          /\ calls' = (calls \ {c}) \cup {Show(issued + 1, route, ed.offset)}
          /\ ed' = [ed EXCEPT !.loading = TRUE, !.asked = issued + 1]
          /\ issued' = issued + 1
    /\ UNCHANGED <<route, playlists, listed, excused>>

Listed(c) ==
    /\ Done(c)
    /\ \/ c.state = "failed" /\ UNCHANGED <<playlists, listed>>
       \/ /\ c.state = "ok"
          /\ playlists' = c.names
          /\ listed' = [listed EXCEPT !.by = c.n]
    /\ UNCHANGED <<route, ed, issued, excused>>

\* Mutant: the playlists are not updated "in the background".
MovedUnrefreshed(c) ==
    /\ IF c.state = "failed" THEN Done(c) /\ UNCHANGED <<route, ed, issued, listed>>
       ELSE Navigate(IF c.kind = "create" THEN c.list ELSE None, calls \ {c}, FALSE)
    /\ UNCHANGED <<playlists, excused>>

\* createPlaylist and deletePlaylist: on to the new list, or back.  A push of
\* the route that is already there fetches nothing.
Moved(c) ==
    /\ \/ /\ c.state = "failed"
          /\ Done(c)
          /\ UNCHANGED <<route, ed, issued, listed, excused>>
       \/ /\ c.state = "ok"
          /\ Navigate(IF c.kind = "create" THEN c.list ELSE None, calls \ {c}, TRUE)
          /\ excused' = IF c.list = route /\ c.kind = "create"
                        THEN excused \cup {<<c.list, c.res.ver>>} ELSE excused
    /\ UNCHANGED playlists

\* Nothing is done with the answer to a play, nor in an editor that is gone.
Ignored(c) == /\ Done(c)
              /\ UNCHANGED <<route, playlists, listed, ed, issued, excused>>

Resume(c) ==
    /\ c.state # "sent"
    /\ \/ ~c.own /\ Ignored(c)
       \/ c.own /\ c.kind \in {"play", "title"} /\ Ignored(c)
       \/ c.own /\ c.kind = "show" /\ Fetched(c)
       \/ c.own /\ c.kind \in {"remove", "move", "rename", "add", "insert"} /\ Applied(c)
       \/ c.kind = "list" /\ Listed(c)
       \/ c.kind \in {"create", "delete"} /\ Moved(c)
    /\ UNCHANGED <<lists, dialog, items, hit, clicks, trouble>>

Init ==
    /\ \E size \in [Old -> Sizes] :
          lists = [l \in List |->
                    [there |-> l \in Old, ver |-> 0,
                     items |-> IF l \in Old THEN [i \in 1 .. size[l] |-> i] ELSE <<>>]]
    /\ route \in {None} \cup Old
    /\ LET opened == route # None
       IN  /\ issued = IF opened THEN 2 ELSE 1
           /\ calls = {ListAll(1)} \cup (IF opened THEN {Show(2, route, 0)} ELSE {})
           /\ ed = IF opened THEN [Fresh EXCEPT !.loading = TRUE, !.asked = 2] ELSE Gone
    /\ playlists = {} /\ listed = [asked |-> 1, by |-> 0] /\ dialog = {}
    /\ items = MaxSongs /\ excused = {} /\ clicks = 0 /\ trouble = 0
    /\ hit = [right |-> TRUE, misled |-> FALSE]

Next == \/ User
        \/ \E c \in calls : Serve(c) \/ Lose(c) \/ Resume(c)
        \/ \E l \in List : Foreign(l)

Spec == Init /\ [][Next]_vars

-----------------------------------------------------------------------------
(* Properties.                                                             *)

Data == {d \in [id : List \cup {None}, ver : Nat, items : Seq(Nat),
                offset : Nat, count : Nat] :
            Len(d.items) <= PerPage /\ d.offset + Len(d.items) <= d.count}

\* Types.  An editor exists in edit mode only, a page of it has at most
\* PerPage rows and lies inside the list, a list never outgrows MaxSongs and
\* holds no item twice, and no two requests have the same number.
TypeOK ==
    /\ \A l \in List : /\ Exists(l) \in BOOLEAN /\ Version(l) \in Nat
                       /\ Count(l) <= MaxSongs
                       /\ \A i, j \in 1 .. Count(l) :
                             lists[l].items[i] = lists[l].items[j] => i = j
    /\ route \in List \cup {None}
    /\ ed.gone <=> route = None
    /\ ed.data \in Data
    /\ \A r \in DOMAIN ed.boxes : ed.boxes[r] # NoBox => r < Len(ed.data.items)
    /\ playlists \subseteq List /\ dialog \subseteq List
    /\ \A c \in calls : /\ c.n \in 1 .. issued
                        /\ \A d \in calls : c.n = d.n => c = d

\* An operation on a row - play, remove, rename, move, insert before - hits
\* the item the user saw in that row, unless the list has changed since it
\* was shown or is not the one that is selected (the answer to another fetch
\* is on the screen), or a row number was sent for a place of another page:
\* drop sends rows without DisplayOffset (PlaylistEditor.vue:354, :358), and
\* an edit box stays at its row while the page is turned.
WrongRowHasCause == hit.right \/ hit.misled

\* When the editor waits for nothing and the newest fetch is the one on the
\* screen, it shows the selected list, and every change it does not show was
\* made behind its back: by someone else, by an editor that is gone, by a
\* request whose answer was lost or by a create of the very list it shows.
NothingUnseen ==
    /\ ~ed.gone /\ ed.by = ed.asked
    /\ \A c \in calls : c.kind = "list" \/ ~c.own
    => /\ ed.data.id = route
       /\ \A v \in ed.data.ver + 1 .. Version(route) : <<route, v>> \in excused

\* The overview shows the lists that exist once its newest refresh is on the
\* screen, whatever was created, deleted and edited on the way there.
OverviewCurrent ==
    /\ route = None /\ listed.by = listed.asked
    /\ \A c \in calls : c.kind \notin Overview
    => \A l \in List : \/ (l \in playlists) = Exists(l)
                       \/ <<l, Version(l)>> \in excused

\* The table says that it is loading only while a request of this editor is
\* under way whose answer will end that: no failure leaves it covered for good.
LoadingHasRequest ==
    ed.loading => \E c \in calls : c.own /\ c.kind \in {"show"} \cup (OnRow \ {"play"}) \cup {"add"}

\* What the table's empty slot tells the user, "Playlist is empty."
\* (PlaylistEditor.vue:97), is so.  It is not: the last page whose items were
\* removed, and the page number that is kept for another list, are shown with
\* these words.
EmptyTextIsTrue ==
    /\ ~ed.gone /\ ~ed.loading /\ ed.data.items = <<>>
    /\ ed.data.id = route /\ ed.data.ver = Version(route)
    => lists[route].items = <<>>

=============================================================================
