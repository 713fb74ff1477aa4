------------------------------- MODULE Window -------------------------------
(***************************************************************************)
(* The list of peers of the window (gui_peer_list.h, gui_window.h): items  *)
(* that come with discovered peers or are typed by the user, the lookups   *)
(* of their addresses, the selection, and the uploads asked for.           *)
(*                                                                         *)
(* pc says what the event loop is in:                                      *)
(*   Loop     none of the below                                            *)
(*   Dialog   the file dialog opened by "Send File..."; it is modal, and   *)
(*            runs an event loop of its own                                *)
(*   Send     the loop over the selected rows, or over the URLs of a drop, *)
(*            between two uploads                                          *)
(*   Collect  request_upload, in set_payload: from_source_path runs        *)
(*            processEvents while it collects a large directory            *)
(*   Crashed  a row out of range, or a peer that was freed, has been used  *)
(* Events are handled in Loop, Dialog and Collect; in Dialog none comes    *)
(* from the user.  Starting another upload while one is collected is left  *)
(* out.                                                                    *)
(*                                                                         *)
(* An address is named by the host it belongs to; those of manual items,   *)
(* typed or looked up, are not told apart.  A username and a port are one  *)
(* thing: filled in or not.                                                *)
(***************************************************************************)
EXTENDS ItemModel, FiniteSets

CONSTANTS
  Discovered, Manual,  \* the items of each kind
  Hosts,
  Null,                \* no hostname, or no address
  MaxChanges,          \* bound: changes of hostnames and edits
  MaxUrls              \* bound: files dropped together

Items == Discovered \cup Manual
Typed == "Typed"

ASSUME WindowAssumption ==
  /\ Discovered \cap Manual = {} /\ Null \notin Hosts \cup {Typed}
  /\ MaxChanges \in Nat /\ MaxUrls \in Nat \ {0}

VARIABLES
  fresh,      \* items not created yet
  list,       \* StructItemModel::item_list
  peer,       \* Item::peer
  lookups,    \* per item, lookups not answered yet, oldest first
  dying,      \* items in deleteLater
  selected,   \* rows in the ranges of the selection model, persistent indexes
  enabled,    \* action_send_file, action_send_dir
  pc,
  rows,       \* rows of selectedRows () still to be served: plain indexes
  drop,       \* dropMimeData: the item, and how many URLs are still to be served
  target,     \* the peer parameter of request_upload: the item's, or a copy (is its address known?)
  served,     \* history: uploads of the current request: to whom, not at a null address
  chosen,     \* history: the items the user clicked on
  wanted,     \* history: the items the current request is for
  disturbed,  \* history: something happened while its files were collected
  answered,   \* history: per item, which lookup gave its address since the hostname changed
  changes

vars == <<fresh, list, peer, lookups, dying, selected, enabled, pc, rows, drop, target,
          served, chosen, wanted, disturbed, answered, changes>>

data == <<fresh, list, peer, lookups, dying, answered>>
view == <<selected, enabled, chosen>>
request == <<pc, rows, drop, target>>
record == <<served, wanted, disturbed>>

Listed == {list[k] : k \in DOMAIN list}
Handling == pc \in {"Loop", "Dialog", "Collect"}
UserMayAct == pc \in {"Loop", "Collect"}

\* An event between the start and the end of set_payload: the record of the request
\* is given up.
Notes ==
  IF pc = "Collect" THEN disturbed' = TRUE /\ served' = {} /\ wanted' = {}
  ELSE UNCHANGED record
Counts == changes < MaxChanges /\ changes' = changes + 1

NoPeer == [host |-> Null, addr |-> Null, filled |-> FALSE]
IsValid(i) == peer[i].filled /\ peer[i].addr # Null

\* QHostInfo::lookupHost is called; old marks the lookups of earlier hostnames.
Asked(l, h) ==
  Append([k \in DOMAIN l |-> [l[k] EXCEPT !.old = TRUE]], [host |-> h, old |-> FALSE])

----------------------------------------------------------------------------
(* Items. *)

AppendItem(i) ==
  /\ fresh' = fresh \ {i}
  /\ list' = InsertedAt(list, Len(list) + 1, i)
  /\ selected' = RowsAfterInsert(selected, Len(list) + 1)

\* new_discovered_peer, and the constructor of DiscoveryItem.
NewDiscoveredPeer(i) ==
  /\ Handling /\ i \in Discovered \cap fresh
  /\ \E h \in Hosts :
       /\ peer' = [peer EXCEPT ![i] = [host |-> h, addr |-> Null, filled |-> TRUE]]
       /\ lookups' = [lookups EXCEPT ![i] = Asked(<< >>, h)]
  /\ answered' = [answered EXCEPT ![i] = "None"]
  /\ AppendItem(i)
  /\ Notes
  /\ UNCHANGED <<dying, enabled, chosen, request, changes>>

NewManualPeer(i) ==
  /\ UserMayAct /\ i \in Manual \cap fresh
  /\ AppendItem(i)
  /\ Notes
  /\ UNCHANGED <<peer, lookups, dying, answered, enabled, chosen, request, changes>>

\* Mutant: the new hostname is not looked up.
HostnameChangedOnly(i) ==
  /\ Handling /\ i \in Discovered \cap Listed
  /\ \E h \in Hosts \ {peer[i].host} :
       peer' = [peer EXCEPT ![i].host = h, ![i].addr = Null]
  /\ answered' = [answered EXCEPT ![i] = "None"]
  /\ Notes /\ Counts
  /\ UNCHANGED <<fresh, list, lookups, dying, view, request>>

\* DiscoveryItem::hostname_changed.
HostnameChanged(i) ==
  /\ Handling /\ i \in Discovered \cap Listed
  /\ \E h \in Hosts \ {peer[i].host} :
       /\ peer' = [peer EXCEPT ![i].host = h, ![i].addr = Null]
       /\ lookups' = [lookups EXCEPT ![i] = Asked(@, h)]
  /\ answered' = [answered EXCEPT ![i] = "None"]
  /\ Notes /\ Counts
  /\ UNCHANGED <<fresh, list, dying, view, request>>

\* address_lookup_complete: any lookup of the item may be answered first, or
\* fail; the answer does not say which hostname it was asked for.
AddressLookupComplete(i) ==
  /\ Handling
  /\ \E k \in DOMAIN lookups[i] :
       /\ lookups' = [lookups EXCEPT ![i] = RemovedAt(@, k)]
       /\ \/ /\ peer' = [peer EXCEPT ![i].addr = lookups[i][k].host]
             /\ answered' = [j \in Discovered |->
                               IF j # i THEN answered[j]
                               ELSE IF lookups[i][k].old THEN "Older" ELSE "Newest"]
          \/ UNCHANGED <<peer, answered>>
  /\ Notes
  /\ UNCHANGED <<fresh, list, dying, view, request, changes>>

\* ManualItem::setData: a hostname is looked up and the address kept; an
\* address that cannot be read clears the old one.
Edit(i) ==
  /\ UserMayAct /\ i \in Manual \cap Listed
  /\ \/ /\ lookups' = [lookups EXCEPT ![i] = Append(@, [host |-> Typed, old |-> FALSE])]
        /\ UNCHANGED peer
     \/ /\ \E a \in {Typed, Null} : peer' = [peer EXCEPT ![i].addr = a]
        /\ UNCHANGED lookups
     \/ /\ peer' = [peer EXCEPT ![i].filled = ~@]
        /\ UNCHANGED lookups
  /\ Notes /\ Counts
  /\ UNCHANGED <<fresh, list, dying, answered, view, request>>

\* The delete button of a manual item.
ButtonClicked(i) ==
  /\ UserMayAct /\ i \in (Manual \cap Listed) \ dying
  /\ dying' = dying \cup {i}
  /\ Notes
  /\ UNCHANGED <<fresh, list, peer, lookups, answered, view, request, changes>>

\* The item is deleted, by its button or with the DnsPeer that owns it.  The
\* selection model reports a selected row that disappears, and nothing newly
\* selected: the actions are disabled.
Destroyed(i) ==
  /\ Handling /\ i \in Listed /\ (i \in Discovered \/ i \in dying)
  /\ LET r == IndexOf(list, i)
     IN  /\ list' = RemovedAt(list, r)
         /\ selected' = RowsAfterRemove(selected, r)
         /\ enabled' = (enabled /\ r \notin selected)
  /\ peer' = [peer EXCEPT ![i] = NoPeer]
  /\ lookups' = [lookups EXCEPT ![i] = << >>]
  /\ answered' = [j \in Discovered |-> IF j = i THEN "None" ELSE answered[j]]
  /\ dying' = dying \ {i}
  /\ chosen' = chosen \ {i}
  /\ Notes
  /\ UNCHANGED <<fresh, request, changes>>

----------------------------------------------------------------------------
(* View. *)

\* Mutant: any change of the selection enables the actions.
EnablesAlways(new) == TRUE

\* The lambda connected to selectionChanged looks only at what is newly
\* selected.
Enables(new) == new \ selected # {}

\* Clicks on the rows.  The row of an invalid item is a range of the selection
\* too; it is selectedRows () that leaves it out.
SelectionChanged ==
  /\ UserMayAct
  /\ \E new \in SUBSET DOMAIN list :
       /\ new # selected
       /\ selected' = new
       /\ enabled' = Enables(new)
       /\ chosen' = {list[r] : r \in new}
  /\ Notes
  /\ UNCHANGED <<data, request, changes>>

Orders == {p \in [DOMAIN list -> DOMAIN list] : {p[k] : k \in DOMAIN list} = DOMAIN list}

\* A click on a header; the order depends on the column and its contents.
Sort ==
  /\ UserMayAct
  /\ \E p \in Orders :
       /\ \E k \in DOMAIN list : p[k] # k
       /\ list' = [k \in 1 .. Len(list) |-> list[p[k]]]
       /\ selected' = RowsAfterSort(list, list', selected)
  /\ Notes
  /\ UNCHANGED <<fresh, peer, lookups, dying, answered, enabled, chosen, request, changes>>

----------------------------------------------------------------------------
(* Uploads. *)

NoTarget == [item |-> Null, known |-> FALSE, copied |-> FALSE]
NoDrop == [item |-> Null, urls |-> 0]

\* action_send_file_clicked, action_send_dir_clicked: the dialog ...
ActionSendClicked ==
  /\ pc = "Loop" /\ enabled
  /\ pc' = "Dialog"
  /\ UNCHANGED <<data, view, rows, drop, target, served, wanted, disturbed, changes>>

DialogCancelled ==
  /\ pc = "Dialog"
  /\ pc' = "Loop"
  /\ UNCHANGED <<data, view, rows, drop, target, served, wanted, disturbed, changes>>

\* ... then selectedRows (), which leaves out the rows of invalid items.
DialogAccepted ==
  /\ pc = "Dialog"
  /\ pc' = "Send"
  /\ rows' = {r \in selected : IsValid(list[r])}
  /\ wanted' = {list[r] : r \in rows'}
  /\ UNCHANGED <<data, view, drop, target, served, disturbed, changes>>

\* get_item_t (index)->get_peer (): a reference into the item.
RequestUpload ==
  /\ pc = "Send"
  /\ \E r \in rows :
       /\ rows' = rows \ {r}
       /\ \/ /\ r \in DOMAIN list
             /\ target' = [NoTarget EXCEPT !.item = list[r]]
             /\ pc' = "Collect"
          \/ /\ r \notin DOMAIN list
             /\ pc' = "Crashed"
             /\ UNCHANGED target
  /\ UNCHANGED <<data, view, drop, served, wanted, disturbed, changes>>

\* dropMimeData, checked once for all the URLs ...
DropMimeData(i) ==
  /\ pc = "Loop" /\ i \in Listed /\ IsValid(i)
  /\ \E n \in 1 .. MaxUrls : drop' = [item |-> i, urls |-> n]
  /\ pc' = "Send"
  /\ wanted' = {i}
  /\ UNCHANGED <<data, view, rows, target, served, disturbed, changes>>

\* ... and its loop over them: the member peer is read again for each, and
\* the signal carries a copy of it.
DropUrl ==
  /\ pc = "Send" /\ drop.urls > 0
  /\ drop' = IF drop.urls = 1 THEN NoDrop ELSE [drop EXCEPT !.urls = @ - 1]
  /\ \/ /\ drop.item \in Listed
        /\ target' = [item |-> drop.item, known |-> peer[drop.item].addr # Null, copied |-> TRUE]
        /\ pc' = "Collect"
     \/ /\ drop.item \notin Listed
        /\ pc' = "Crashed"
        /\ UNCHANGED target
  /\ UNCHANGED <<data, view, rows, served, wanted, disturbed, changes>>

RequestsEnd ==
  /\ pc = "Send" /\ rows = {} /\ drop.urls = 0
  /\ pc' = "Loop"
  /\ served' = {} /\ wanted' = {} /\ disturbed' = FALSE
  /\ UNCHANGED <<data, view, rows, drop, target, changes>>

Serve(known) ==
  /\ served' = IF disturbed THEN {} ELSE served \cup {[item |-> target.item, known |-> known]}
  /\ target' = NoTarget
  /\ pc' = "Send"

\* Mutant: no other upload is tried.
SetPayloadFailsForAll ==
  /\ pc = "Collect"
  /\ Serve(TRUE)
  /\ rows' = {}
  /\ UNCHANGED <<data, view, drop, wanted, disturbed, changes>>

SetPayloadFails ==
  /\ pc = "Collect"
  /\ Serve(TRUE)
  /\ UNCHANGED <<data, view, rows, drop, wanted, disturbed, changes>>

\* The files are collected: upload->connect (peer.address, peer.port).
UploadConnects ==
  /\ pc = "Collect"
  /\ \/ /\ target.copied
        /\ Serve(target.known)
     \/ /\ ~target.copied /\ target.item \in Listed
        /\ Serve(peer[target.item].addr # Null)
     \/ /\ ~target.copied /\ target.item \notin Listed
        /\ pc' = "Crashed"
        /\ UNCHANGED <<target, served>>
  /\ UNCHANGED <<data, view, rows, drop, wanted, disturbed, changes>>

----------------------------------------------------------------------------

Init ==
  /\ fresh = Items /\ list = << >>
  /\ peer = [i \in Items |-> NoPeer]
  /\ lookups = [i \in Items |-> << >>] /\ dying = {}
  /\ selected = {} /\ enabled = FALSE /\ chosen = {}
  /\ pc = "Loop" /\ rows = {} /\ drop = NoDrop /\ target = NoTarget
  /\ served = {} /\ wanted = {} /\ disturbed = FALSE
  /\ answered = [i \in Discovered |-> "None"] /\ changes = 0

ItemStep(i) ==
  \/ NewDiscoveredPeer(i) \/ NewManualPeer(i)
  \/ HostnameChanged(i) \/ AddressLookupComplete(i)
  \/ Edit(i) \/ ButtonClicked(i) \/ Destroyed(i) \/ DropMimeData(i)

Next ==
  \/ \E i \in Items : ItemStep(i)
  \/ SelectionChanged \/ Sort
  \/ ActionSendClicked \/ DialogCancelled \/ DialogAccepted
  \/ RequestUpload \/ DropUrl \/ SetPayloadFails \/ UploadConnects \/ RequestsEnd

Spec == Init /\ [][Next]_vars

----------------------------------------------------------------------------
(* Properties. *)

\* The rows of the selection are those of the items the user clicked on, however
\* rows are appended, removed with their item, and sorted (remove_at, sort).
SelectionFollows == {list[r] : r \in selected} = chosen

\* "Send File..." is only offered when the selection has a row, also after selected
\* peers have disappeared (the lambda of selectionChanged, which looks at the ranges:
\* the row may be one that selectedRows () leaves out).
EnabledMeansSelected == enabled => selected # {}

\* Unless something happened while files were collected, a request is carried
\* out for each valid peer that was selected when the dialog was closed, or for the
\* peer dropped on, and for no other, at an address that is known: whatever came
\* and went while the dialog was open (action_send_file_clicked, dropMimeData).
UploadsReachSelection ==
  ~disturbed =>
    /\ pc # "Crashed"
    /\ pc = "Send" /\ rows = {} /\ drop.urls = 0 => {u.item : u \in served} = wanted
    /\ \A u \in served : u.known

\* After any changes of hostname, with lookups that fail or overtake each other, a
\* discovered peer has no address until a lookup succeeds, and then that of its
\* hostname if the last to succeed is the newest.  Nothing is said when it is an older
\* one: its answer is taken for the new hostname (hostname_changed,
\* address_lookup_complete).
AddressSettles ==
  \A i \in Discovered \cap Listed :
    /\ answered[i] = "None" => peer[i].addr = Null
    /\ answered[i] = "Newest" => peer[i].addr = peer[i].host

\* The plain indexes of a request are rows of the list when they are used: the
\* assertion of at ().
RowsInRange == pc = "Send" => rows \subseteq DOMAIN list
=============================================================================
