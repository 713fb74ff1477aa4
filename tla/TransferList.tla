---------------------------- MODULE TransferList ----------------------------
(***************************************************************************)
(* The transfers of the window: the server that keeps a download until its *)
(* offer is complete (core_server.h), the items around transfers           *)
(* (gui_transfers.h, gui_transfer_list.h), the notifier that tells them    *)
(* the progress and the rate (core_transfer.h:153-238), and what the view  *)
(* has read of them: the fields named by data_changed, when it is emitted. *)
(* Messages and sockets are in Transfer; here they may come, and fail, at  *)
(* any time, also after the end.                                           *)
(*                                                                         *)
(* A handler is a composition of functions on the record of its transfer.  *)
(* Time is counted in progress_update_interval_msec from transfer_start.   *)
(***************************************************************************)
EXTENDS ButtonDelegate

CONSTANTS
  Downloads, Uploads,
  Sizes,      \* total sizes of payloads
  Dirs,       \* target directories; the first is the one of the settings
  Null,
  Window,     \* progress_history_window_msec
  Elems,      \* progress_history_window_elem
  MaxTime     \* bound on the duration of a transfer

Transfers == Downloads \cup Uploads

ASSUME TransferListAssumption ==
  /\ Downloads \cap Uploads = {} /\ Null \notin Transfers
  /\ Sizes \subseteq Nat /\ Window \in Nat /\ Elems \in Nat \ {0, 1, 2}

VARIABLES
  tr,       \* each transfer, its notifier and its item
  dying,    \* transfers in deleteLater, or whose item is
  clicked,  \* history: items whose delete button was clicked
  dir,      \* payload root_dir of a download
  dialog    \* the download whose directory dialog is open

vars == <<tr, dying, clicked, dir, dialog>>

Final == {"Error", "Completed", "Rejected"}
Average == << "average" >>

Unborn ==
  [status |-> "None", listed |-> FALSE, size |-> 0, done |-> 0, rate |-> << >>,
   running |-> FALSE, now |-> 0, last |-> 0, history |-> << >>, shown |-> << >>]

Exists(t) == tr[t].status \notin {"None", "Gone"}
Changes(t, i) == tr' = [tr EXCEPT ![t] = i]

----------------------------------------------------------------------------
(* Items. *)

Buttons(i) ==
  {"Delete"} \cup (IF i.status = "WaitingForUserChoice" THEN {"Accept", "Cancel", "Path"}
                                                        ELSE {})

SupportedButtons == << "Accept", "Cancel", "Path", "Delete" >>

\* The buttons of each cell: its name, and its status.
Cells(i) == << Buttons(i) \cap {"Path"}, Buttons(i) \ {"Path"} >>

Data(i) == [status |-> i.status, buttons |-> Buttons(i), progress |-> i.done, rate |-> i.rate]

\* data_changed reaches the view once the item is in the model.
Emitted(i, fields) ==
  IF i.listed
  THEN [i EXCEPT !.shown = [f \in DOMAIN @ |-> IF f \in fields THEN Data(i)[f] ELSE @[f]]]
  ELSE i

Appended(i) == [i EXCEPT !.listed = TRUE, !.shown = Data(i)]

SetRate(i, r) == Emitted([i EXCEPT !.rate = r], {"rate"})

\* Mutant: the buttons of a download are not cleaned.
StatusSetOnly(i, new) ==
  Emitted(IF new = "Completed" THEN SetRate([i EXCEPT !.status = new], Average)
                               ELSE [i EXCEPT !.status = new], {"status"})

\* set_status, and status_changed of Gui::TransferList::Upload and Download.
StatusSet(i, new) ==
  Emitted(IF new = "Completed" THEN SetRate([i EXCEPT !.status = new], Average)
                               ELSE [i EXCEPT !.status = new],
          {"status"} \cup IF i.status = "WaitingForUserChoice" THEN {"buttons"} ELSE {})

----------------------------------------------------------------------------
(* Notifier. *)

\* Mutant: the window moves whatever the number of elements.
WindowMovedAlways(h) ==
  LET k == CHOOSE k \in DOMAIN h :
             /\ h[k].epoch >= h[Len(h)].epoch - Window
             /\ \A j \in 1 .. k - 1 : h[j].epoch < h[Len(h)].epoch - Window
  IN  SubSeq(h, k, Len(h))

\* The loop of update_history: where it stops.
WindowMoved(h) ==
  LET Stays(k) == h[k].epoch >= h[Len(h)].epoch - Window \/ Len(h) - k + 1 < Elems
      first == CHOOSE k \in DOMAIN h : Stays(k) /\ \A j \in 1 .. k - 1 : ~Stays(j)
  IN  SubSeq(h, first, Len(h))

UpdateHistory(i) ==
  [i EXCEPT !.history = WindowMoved(Append(@, [epoch |-> i.now, bytes |-> i.done]))]

OutputInstantRate(i) ==
  IF Len(i.history) < 2 THEN i
  ELSE SetRate(i, << "instant", i.history[Len(i.history)].bytes - i.history[1].bytes >>)

TransferStart(i) ==
  UpdateHistory([i EXCEPT !.now = 0, !.last = 0, !.running = TRUE])

\* Mutant: the last bytes are left to the rate limiter.
TransferEndQuiet(i) == [i EXCEPT !.running = FALSE, !.history = << >>]

TransferEnd(i) == [Emitted(i, {"progress"}) EXCEPT !.running = FALSE, !.history = << >>]

MayProgress(i) ==
  LET j == UpdateHistory(i)
  IN  IF j.now > j.last
      THEN Emitted([OutputInstantRate(j) EXCEPT !.last = j.now, !.running = TRUE], {"progress"})
      ELSE j

\* failure (), and the lambdas connected to failed ().
Failed(i) == StatusSet(TransferEnd(i), "Error")

\* The time gap passes before a handler.
Later(i, gap) == [i EXCEPT !.now = @ + gap]
Gaps(t) == 0 .. (IF tr[t].now < MaxTime THEN 1 ELSE 0)

----------------------------------------------------------------------------
(* Server. *)

NewConnection(d) ==
  /\ tr[d].status = "None"
  /\ Changes(d, [Unborn EXCEPT !.status = "Starting"])
  /\ UNCHANGED <<dying, clicked, dir, dialog>>

DownloadHandshake(d) ==
  /\ tr[d].status = "Starting"
  /\ Changes(d, StatusSet(tr[d], "WaitingForOffer"))
  /\ UNCHANGED <<dying, clicked, dir, dialog>>

Accepted(i) == StatusSet(TransferStart(i), "Transfering")

\* Mutant: the download is given away with its handshake.
HandedOverEarly(d) ==
  /\ tr[d].status \in {"Starting", "WaitingForOffer"}
  /\ Changes(d, Appended(tr[d]))
  /\ dir' = [dir EXCEPT ![d] = Dirs[1]]
  /\ UNCHANGED <<dying, clicked, dialog>>

\* set_status (WaitingForUserChoice): the server lets go of the download, and
\* new_download makes an item of it, which may accept before it is appended.
HandedOver(d) ==
  /\ tr[d].status = "WaitingForOffer"
  /\ \E s \in Sizes :
       LET i == StatusSet([tr[d] EXCEPT !.size = s], "WaitingForUserChoice")
       IN  \/ Changes(d, Appended(i))
           \/ Changes(d, Appended(Accepted(i)))
           \/ Changes(d, Appended(Failed(i)))
  /\ dir' = [dir EXCEPT ![d] = Dirs[1]]
  /\ UNCHANGED <<dying, clicked, dialog>>

\* failure () at any time; download_failed, for the downloads of the server.
Fail(t) ==
  /\ Exists(t)
  /\ Changes(t, Failed(tr[t]))
  /\ dying' = dying \cup (IF tr[t].listed THEN {} ELSE {t} \cap Downloads)
  /\ UNCHANGED <<clicked, dir, dialog>>

----------------------------------------------------------------------------
(* Uploads. *)

\* request_upload.  When set_payload fails nothing is shown.
RequestUpload(u) ==
  /\ tr[u].status = "None" /\ dialog = Null
  /\ \/ \E s \in Sizes : Changes(u, Appended(StatusSet([Unborn EXCEPT !.size = s], "Starting")))
     \/ Changes(u, Failed(Unborn))
  /\ UNCHANGED <<dying, clicked, dir, dialog>>

UploadHandshake(u) ==
  /\ u \in Uploads /\ tr[u].status = "Starting"
  /\ Changes(u, StatusSet(tr[u], "WaitingForPeerAnswer"))
  /\ UNCHANGED <<dying, clicked, dir, dialog>>

ReceiveAnswer(u) ==
  /\ tr[u].status = "WaitingForPeerAnswer"
  /\ \/ Changes(u, Accepted(tr[u]))
     \/ Changes(u, StatusSet(tr[u], "Rejected"))
  /\ UNCHANGED <<dying, clicked, dir, dialog>>

----------------------------------------------------------------------------
(* Data. *)

\* send_next_chunk tells the notifier nothing when checksums are due.
MoveChunk(t) ==
  /\ tr[t].status = "Transfering" /\ tr[t].done < tr[t].size
  /\ \E gap \in Gaps(t) :
       LET i == [Later(tr[t], gap) EXCEPT !.done = @ + 1]
       IN  \/ Changes(t, MayProgress(i))
           \/ t \in Uploads /\ Changes(t, i)
  /\ UNCHANGED <<dying, clicked, dir, dialog>>

\* on_receive_checksums of a download, on_receive_completed of an upload.  (When
\* the flush of the last notice fails, Error is shown first; the end is the same.)
Complete(t) ==
  /\ tr[t].status = "Transfering" /\ tr[t].done = tr[t].size
  /\ \E gap \in Gaps(t) :
       LET i == Later(tr[t], gap)
       IN  \/ t \in Downloads /\ Changes(t, StatusSet(TransferEnd(MayProgress(i)), "Completed"))
           \/ t \in Downloads /\ Changes(t, Failed(MayProgress(i)))
           \/ t \in Uploads /\ Changes(t, StatusSet(TransferEnd(i), "Completed"))
  /\ UNCHANGED <<dying, clicked, dir, dialog>>

UpdateRate(t) ==
  /\ tr[t].running /\ tr[t].now < MaxTime
  /\ Changes(t, OutputInstantRate(UpdateHistory(Later(tr[t], 1))))
  /\ UNCHANGED <<dying, clicked, dir, dialog>>

----------------------------------------------------------------------------
(* Buttons.  A dialog is modal; a deferred deletion comes before the next  *)
(* click.                                                                  *)

Clickable(t, button) ==
  /\ dialog = Null /\ tr[t].listed /\ t \notin dying
  /\ button \in Buttons(tr[t])

\* Mutant: the dialog is not modal.
AcceptsDuringDialog(d) ==
  /\ tr[d].listed /\ d \notin dying /\ "Accept" \in Buttons(tr[d])
  /\ Changes(d, Accepted(tr[d]))
  /\ UNCHANGED <<dying, clicked, dir, dialog>>

\* give_user_choice; the answer may fail to be sent.
Accept(d) ==
  /\ Clickable(d, "Accept")
  /\ Changes(d, Accepted(tr[d])) \/ Changes(d, Failed(tr[d]))
  /\ UNCHANGED <<dying, clicked, dir, dialog>>

Cancel(d) ==
  /\ Clickable(d, "Cancel")
  /\ \/ Changes(d, StatusSet(tr[d], "Rejected"))
     \/ Changes(d, StatusSet(Failed(tr[d]), "Rejected"))
  /\ UNCHANGED <<dying, clicked, dir, dialog>>

ChangePath(d) ==
  /\ Clickable(d, "Path")
  /\ dialog' = d
  /\ UNCHANGED <<tr, dying, clicked, dir>>

\* set_target_dir, whatever has become of the download.
PathChosen(d) ==
  /\ dialog = d
  /\ \E k \in DOMAIN Dirs : dir' = [dir EXCEPT ![d] = Dirs[k]]
  /\ dialog' = Null
  /\ UNCHANGED <<tr, dying, clicked>>

Delete(t) ==
  /\ Clickable(t, "Delete")
  /\ dying' = dying \cup {t} /\ clicked' = clicked \cup {t}
  /\ UNCHANGED <<tr, dir, dialog>>

Destroyed(t) ==
  /\ t \in dying
  /\ Changes(t, [Unborn EXCEPT !.status = "Gone"])
  /\ dying' = dying \ {t}
  /\ UNCHANGED <<clicked, dir, dialog>>

----------------------------------------------------------------------------

Init ==
  /\ tr = [t \in Transfers |-> Unborn]
  /\ dying = {} /\ clicked = {} /\ dialog = Null
  /\ dir = [d \in Downloads |-> Null]

DownloadStep(d) ==
  \/ NewConnection(d) \/ DownloadHandshake(d) \/ HandedOver(d)
  \/ Accept(d) \/ Cancel(d) \/ ChangePath(d) \/ PathChosen(d)

UploadStep(u) == RequestUpload(u) \/ UploadHandshake(u) \/ ReceiveAnswer(u)

TransferStep(t) ==
  Fail(t) \/ MoveChunk(t) \/ Complete(t) \/ UpdateRate(t) \/ Delete(t) \/ Destroyed(t)

Next ==
  \/ \E d \in Downloads : DownloadStep(d)
  \/ \E u \in Uploads : UploadStep(u)
  \/ \E t \in Transfers : TransferStep(t)

Spec == Init /\ [][Next]_vars

----------------------------------------------------------------------------
(* Properties. *)

Listed == {t \in Transfers : tr[t].listed}

\* The view shows the status, the buttons and the rate each item has, however
\* the signals of transfer, notifier and item are nested (status_changed).
ViewIsCurrent ==
  \A t \in Listed :
    /\ tr[t].shown.status = tr[t].status
    /\ tr[t].shown.buttons = Buttons(tr[t])
    /\ tr[t].shown.rate = tr[t].rate

\* A transfer that has ended shows all its bytes, although progress is limited
\* in rate; completed, its average rate, which no timer overwrites.
FinalIsExact ==
  \A t \in Listed : tr[t].status \in Final =>
    /\ tr[t].shown.progress = tr[t].done
    /\ ~tr[t].running
    /\ tr[t].status = "Completed" => tr[t].shown.rate = Average

\* A download outside the list is one the server still waits for, or on its
\* way to be destroyed; one inside has its offer ("Server gives us download
\* objects in WaitingUserChoice").  A transfer stays on the list, with its
\* error if it failed, until the user deletes it: the server does not destroy
\* what it has given away.
EachHasAnOwner ==
  /\ \A d \in Downloads : Exists(d) =>
       IF tr[d].listed THEN tr[d].status \notin {"Starting", "WaitingForOffer"}
       ELSE tr[d].status \in {"Starting", "WaitingForOffer"} \/ d \in dying
  /\ dying \cap Listed \subseteq clicked

\* While a transfer runs, its history is in order and, once large, not older
\* than the window; it never shrinks so much that a slow transfer has no rate:
\* an update after the first leaves two points (update_history).
HistoryIsAWindow ==
  \A t \in Transfers : tr[t].running =>
    LET h == tr[t].history
    IN  /\ h # << >>
        /\ h[Len(h)].epoch > 0 => Len(h) > 1
        /\ \A k \in 1 .. Len(h) - 1 : h[k].epoch <= h[k + 1].epoch /\ h[k].bytes <= h[k + 1].bytes
        /\ Len(h) >= Elems => h[1].epoch >= h[Len(h)].epoch - Window

\* The files of a download all go to one directory: it does not change once
\* the transfer has started, although the dialog that changes it does not look
\* at the status when it closes.
TargetIsFixed ==
  [][\A d \in Downloads : tr[d].status = "Transfering" => dir'[d] = dir[d]]_vars

\* When the buttons of a transfer change just before a click, the click still
\* reaches the button that was there, or none (editorEvent, paint): the button
\* that remains does not move to the place of another.
ClickHitsItsButton ==
  [][\A t \in Transfers :
       tr[t].listed /\ tr'[t].listed /\ Buttons(tr'[t]) # Buttons(tr[t]) =>
         \A cell \in 1 .. 2, width, place \in DOMAIN SupportedButtons :
           LET Hit(i) == Under(SupportedButtons, Cells(i)[cell], width, place)
           IN  Hit(tr'[t]) \subseteq Hit(tr[t])]_vars

\* The percentage the view draws divides by the total size.
ProgressIsDefined == \A t \in Listed : tr[t].size > 0
=============================================================================
