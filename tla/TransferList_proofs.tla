------------------------- MODULE TransferList_proofs -------------------------
(***************************************************************************)
(* Proofs about TransferList, for any number of transfers of any sizes and *)
(* any parameters of the history: who owns a download, what the view       *)
(* shows, when the target directory may change, which points make a rate,  *)
(* which button a click reaches.                                           *)
(***************************************************************************)
EXTENDS TransferList, SequenceTheorems, WellFoundedInduction, TLAPS

ItemFields ==
  {"status", "listed", "size", "done", "rate", "running", "now", "last", "history", "shown"}
ViewFields == {"status", "buttons", "progress", "rate"}

IsItem(i) ==
  /\ DOMAIN i = ItemFields /\ i = [f \in ItemFields |-> i[f]]
  /\ i.listed \in BOOLEAN
  /\ i.listed => DOMAIN i.shown = ViewFields /\ i.status # "None"

\* What the view reads of the item.
Fresh(i) ==
  i.listed => /\ i.shown.status = i.status
              /\ i.shown.buttons = Buttons(i)
              /\ i.shown.rate = i.rate

\* Neither the view nor the timer has anything left to do.
Still(i) ==
  /\ i.running = FALSE
  /\ i.listed => i.shown.progress = i.done

Settled(i) ==
  /\ i.status # "Transfering" => Still(i)
  /\ i.status = "Completed" => i.rate = Average

Good(i) == IsItem(i) /\ Fresh(i) /\ Settled(i)

LEMMA EmittedIs ==
  ASSUME NEW i, NEW F, IsItem(i)
  PROVE  LET j == Emitted(i, F)
         IN  /\ IsItem(j)
             /\ j.status = i.status /\ j.listed = i.listed /\ j.done = i.done
             /\ j.rate = i.rate /\ j.running = i.running
             /\ i.listed =>
                  /\ j.shown.status = IF "status" \in F THEN i.status ELSE i.shown.status
                  /\ j.shown.buttons = IF "buttons" \in F THEN Buttons(i) ELSE i.shown.buttons
                  /\ j.shown.rate = IF "rate" \in F THEN i.rate ELSE i.shown.rate
                  /\ j.shown.progress = IF "progress" \in F THEN i.done ELSE i.shown.progress
BY DEF Emitted, IsItem, ItemFields, ViewFields, Data

LEMMA SameButtons ==
  ASSUME NEW i, NEW j, i.status = j.status
  PROVE  Buttons(i) = Buttons(j)
BY DEF Buttons

LEMMA EmittedFresh ==
  ASSUME NEW i, NEW F, IsItem(i), Fresh(i)
  PROVE  Fresh(Emitted(i, F))
BY EmittedIs, SameButtons DEF Fresh

LEMMA SetRateIs ==
  ASSUME NEW i, NEW r, IsItem(i)
  PROVE  LET j == SetRate(i, r)
         IN  /\ IsItem(j)
             /\ j.status = i.status /\ j.listed = i.listed /\ j.done = i.done
             /\ j.rate = r /\ j.running = i.running
             /\ i.listed => /\ j.shown.status = i.shown.status
                            /\ j.shown.buttons = i.shown.buttons
                            /\ j.shown.rate = r
                            /\ j.shown.progress = i.shown.progress
<1> DEFINE k == [i EXCEPT !.rate = r]
<1>1. /\ IsItem(k) /\ k.status = i.status /\ k.listed = i.listed /\ k.done = i.done
      /\ k.rate = r /\ k.running = i.running /\ k.shown = i.shown
  BY DEF IsItem, ItemFields
<1>2. SetRate(i, r) = Emitted(k, {"rate"})
  BY DEF SetRate
<1> HIDE DEF k
<1> QED
  BY <1>1, <1>2, EmittedIs

\* The buttons need not be told when a download outside the list starts to wait
\* for the user.
LEMMA StatusSetIs ==
  ASSUME NEW i, NEW new, IsItem(i), Fresh(i), new # "None", ~i.listed \/ new # "WaitingForUserChoice"
  PROVE  LET j == StatusSet(i, new)
         IN  /\ IsItem(j) /\ Fresh(j)
             /\ j.status = new /\ j.listed = i.listed
             /\ Still(i) => Still(j)
             /\ new = "Completed" => j.rate = Average
<1> DEFINE k == [i EXCEPT !.status = new]
           l == IF new = "Completed" THEN SetRate(k, Average) ELSE k
           F == {"status"} \cup IF i.status = "WaitingForUserChoice" THEN {"buttons"} ELSE {}
<1>1. /\ IsItem(k) /\ k.status = new /\ k.listed = i.listed /\ k.done = i.done
      /\ k.rate = i.rate /\ k.running = i.running /\ k.shown = i.shown
  BY DEF IsItem, ItemFields
<1>2. /\ IsItem(l) /\ l.status = new /\ l.listed = i.listed /\ l.done = i.done
      /\ l.running = i.running
      /\ new = "Completed" => l.rate = Average
      /\ i.listed => /\ l.shown.buttons = i.shown.buttons
                     /\ l.shown.rate = l.rate
                     /\ l.shown.progress = i.shown.progress
  <2> HIDE DEF k
  <2>1. CASE new = "Completed"
    BY <1>1, <2>1, SetRateIs
  <2>2. CASE new # "Completed"
    BY <1>1, <2>2 DEF Fresh
  <2> QED
    BY <2>1, <2>2
<1>3. StatusSet(i, new) = Emitted(l, F)
  BY DEF StatusSet
<1> HIDE DEF k, l
<1>4. i.listed /\ "buttons" \notin F => Buttons(l) = i.shown.buttons
  BY <1>1, <1>2 DEF Fresh, Buttons
<1>5. "status" \in F
  OBVIOUS
<1> HIDE DEF F
<1> QED
  BY <1>2, <1>3, <1>4, <1>5, EmittedIs, SameButtons DEF Fresh, Still

LEMMA UpdateHistoryIs ==
  ASSUME NEW i, IsItem(i)
  PROVE  LET j == UpdateHistory(i)
         IN  /\ IsItem(j) /\ j.now = i.now /\ j.last = i.last
             /\ j.status = i.status /\ j.listed = i.listed /\ j.done = i.done
             /\ j.rate = i.rate /\ j.running = i.running /\ j.shown = i.shown
<1> DEFINE h == WindowMoved(Append(i.history, [epoch |-> i.now, bytes |-> i.done]))
<1>1. UpdateHistory(i) = [i EXCEPT !.history = h]
  BY DEF UpdateHistory
<1> HIDE DEF h
<1> QED
  BY <1>1 DEF IsItem, ItemFields

LEMMA OutputInstantRateIs ==
  ASSUME NEW i, IsItem(i), Fresh(i)
  PROVE  LET j == OutputInstantRate(i)
         IN  /\ IsItem(j) /\ Fresh(j)
             /\ j.status = i.status /\ j.listed = i.listed /\ j.running = i.running
             /\ Still(i) => Still(j)
<1> DEFINE r == << "instant", i.history[Len(i.history)].bytes - i.history[1].bytes >>
<1>1. OutputInstantRate(i) = IF Len(i.history) < 2 THEN i ELSE SetRate(i, r)
  BY DEF OutputInstantRate
<1> HIDE DEF r
<1> QED
  BY <1>1, SetRateIs, SameButtons DEF Fresh, Still

LEMMA TransferStartIs ==
  ASSUME NEW i, IsItem(i), Fresh(i)
  PROVE  LET j == TransferStart(i)
         IN  IsItem(j) /\ Fresh(j) /\ j.status = i.status /\ j.listed = i.listed
<1> DEFINE k == [i EXCEPT !.now = 0, !.last = 0, !.running = TRUE]
<1>1. /\ IsItem(k) /\ k.status = i.status /\ k.listed = i.listed
      /\ k.rate = i.rate /\ k.shown = i.shown
  BY DEF IsItem, ItemFields
<1>2. TransferStart(i) = UpdateHistory(k)
  BY DEF TransferStart
<1> HIDE DEF k
<1> QED
  BY <1>1, <1>2, UpdateHistoryIs, SameButtons DEF Fresh

LEMMA TransferEndIs ==
  ASSUME NEW i, IsItem(i), Fresh(i)
  PROVE  LET j == TransferEnd(i)
         IN  IsItem(j) /\ Fresh(j) /\ Still(j) /\ j.status = i.status /\ j.listed = i.listed
<1> DEFINE k == Emitted(i, {"progress"})
<1>1. /\ IsItem(k) /\ Fresh(k) /\ k.status = i.status /\ k.listed = i.listed
      /\ k.listed => k.shown.progress = k.done
  BY EmittedIs, EmittedFresh
<1>2. TransferEnd(i) = [k EXCEPT !.running = FALSE, !.history = << >>]
  BY DEF TransferEnd
<1> HIDE DEF k
<1>3. LET j == TransferEnd(i)
      IN  /\ IsItem(j) /\ j.status = k.status /\ j.listed = k.listed /\ j.rate = k.rate
          /\ j.shown = k.shown /\ j.done = k.done /\ j.running = FALSE
  BY <1>1, <1>2 DEF IsItem, ItemFields
<1> QED
  BY <1>1, <1>3, SameButtons DEF Fresh, Still

LEMMA MayProgressIs ==
  ASSUME NEW i, IsItem(i), Fresh(i)
  PROVE  LET j == MayProgress(i)
         IN  IsItem(j) /\ Fresh(j) /\ j.status = i.status /\ j.listed = i.listed
<1> DEFINE h == UpdateHistory(i)
           o == OutputInstantRate(h)
           n == [o EXCEPT !.last = h.now, !.running = TRUE]
<1>1. IsItem(h) /\ Fresh(h) /\ h.status = i.status /\ h.listed = i.listed
  BY UpdateHistoryIs, SameButtons DEF Fresh
<1>2. MayProgress(i) = IF h.now > h.last THEN Emitted(n, {"progress"}) ELSE h
  BY DEF MayProgress
<1> HIDE DEF h
<1>3. IsItem(o) /\ Fresh(o) /\ o.status = i.status /\ o.listed = i.listed
  BY <1>1, OutputInstantRateIs
<1> HIDE DEF o
<1>4. /\ IsItem(n) /\ n.status = i.status /\ n.listed = i.listed
      /\ n.rate = o.rate /\ n.shown = o.shown
  BY <1>3 DEF IsItem, ItemFields
<1> HIDE DEF n
<1>5. Fresh(n)
  BY <1>3, <1>4, SameButtons DEF Fresh
<1> QED
  BY <1>1, <1>2, <1>4, <1>5, EmittedIs, EmittedFresh

LEMMA FailedIs ==
  ASSUME NEW i, IsItem(i), Fresh(i)
  PROVE  LET j == Failed(i)
         IN  Good(j) /\ Still(j) /\ j.status = "Error" /\ j.listed = i.listed
BY TransferEndIs, StatusSetIs DEF Failed, Good, Settled

LEMMA AcceptedIs ==
  ASSUME NEW i, IsItem(i), Fresh(i)
  PROVE  LET j == Accepted(i)
         IN  Good(j) /\ j.status = "Transfering" /\ j.listed = i.listed
BY TransferStartIs, StatusSetIs DEF Accepted, Good, Settled

\* The handlers change these fields by themselves.
LEMMA TouchIs ==
  ASSUME NEW i, IsItem(i), NEW n
  PROVE  \A j \in {[i EXCEPT !.size = n], [i EXCEPT !.now = n], [i EXCEPT !.done = n]} :
           /\ IsItem(j) /\ j.status = i.status /\ j.listed = i.listed
           /\ j.rate = i.rate /\ j.running = i.running /\ j.shown = i.shown
           /\ Fresh(i) => Fresh(j)
<1>1. \A j \in {[i EXCEPT !.size = n], [i EXCEPT !.now = n], [i EXCEPT !.done = n]} :
        /\ IsItem(j) /\ j.status = i.status /\ j.listed = i.listed
        /\ j.rate = i.rate /\ j.running = i.running /\ j.shown = i.shown
  BY DEF IsItem, ItemFields
<1> QED
  BY <1>1, SameButtons DEF Fresh

LEMMA LaterIs ==
  ASSUME NEW i, IsItem(i), Fresh(i), NEW gap
  PROVE  LET j == Later(i, gap)
         IN  IsItem(j) /\ Fresh(j) /\ j.status = i.status /\ j.listed = i.listed
BY TouchIs DEF Later

\* A chunk has been moved.
LEMMA MovedIs ==
  ASSUME NEW i, IsItem(i), Fresh(i)
  PROVE  LET j == [i EXCEPT !.done = i.done + 1]
         IN  IsItem(j) /\ Fresh(j) /\ j.status = i.status /\ j.listed = i.listed
<1> DEFINE n == i.done + 1
<1> HIDE DEF n
<1>1. LET j == [i EXCEPT !.done = n]
      IN  IsItem(j) /\ Fresh(j) /\ j.status = i.status /\ j.listed = i.listed
  BY TouchIs
<1> QED
  BY <1>1 DEF n

LEMMA UnbornIs ==
  ASSUME NEW new, new \notin {"Transfering", "Completed"}
  PROVE  LET j == [Unborn EXCEPT !.status = new]
         IN  Good(j) /\ Still(j) /\ j.status = new /\ j.listed = FALSE
BY DEF Unborn, Good, IsItem, ItemFields, Fresh, Settled, Still

LEMMA AppendedIs ==
  ASSUME NEW i, IsItem(i), Settled(i), i.status # "None"
  PROVE  LET j == Appended(i)
         IN  Good(j) /\ j.status = i.status /\ j.listed = TRUE
<1>1. LET j == Appended(i)
      IN  /\ IsItem(j) /\ j.status = i.status /\ j.listed = TRUE /\ j.rate = i.rate
          /\ j.running = i.running /\ j.done = i.done
          /\ j.shown.status = i.status /\ j.shown.buttons = Buttons(i)
          /\ j.shown.rate = i.rate /\ j.shown.progress = i.done
  BY DEF Appended, Data, IsItem, ItemFields, ViewFields
<1> QED
  BY <1>1, SameButtons DEF Good, Fresh, Settled, Still

----------------------------------------------------------------------------

\* From these a transfer may still come to transfer data.
Before == {"None", "Starting", "WaitingForOffer", "WaitingForPeerAnswer", "Transfering"}

Owned(d, i, isDying) ==
  i.status \in {"None", "Gone"} \/
    IF i.listed THEN i.status \notin {"Starting", "WaitingForOffer"}
    ELSE i.status \in {"Starting", "WaitingForOffer"} \/ isDying

IInv ==
  /\ tr = [t \in Transfers |-> tr[t]] /\ \A t \in Transfers : Good(tr[t])
  /\ DOMAIN dir = Downloads
  /\ \A d \in Downloads : Owned(d, tr[d], d \in dying)
  /\ dying \subseteq Transfers
  /\ \A t \in dying : tr[t].listed \/ tr[t].status = "Error"
  /\ \A t \in dying : tr[t].listed => t \in clicked
  /\ dialog # Null => dialog \in Downloads /\ tr[dialog].status \notin Before

LEMMA InitIInv == Init => IInv
<1>1. Good(Unborn) /\ Unborn.status = "None"
  BY DEF Unborn, Good, IsItem, ItemFields, Fresh, Settled, Still
<1> HIDE DEF Unborn
<1> QED
  BY <1>1 DEF Init, IInv, Owned, Transfers

LEMMA DownloadsDiffer ==
  /\ \A d \in Downloads : d \in Transfers /\ d # Null
  /\ \A u \in Uploads : u \in Transfers /\ u # Null /\ u \notin Downloads
BY TransferListAssumption DEF Transfers

\* A handler of one transfer that deletes nothing.
LEMMA OneChanges ==
  ASSUME IInv, NEW t \in Transfers, NEW i, Changes(t, i), Good(i),
         UNCHANGED <<dying, clicked, dialog>>, DOMAIN dir' = Downloads,
         t \in Downloads => Owned(t, i, t \in dying),
         t \in dying => i.listed = tr[t].listed /\ (tr[t].listed \/ i.status = "Error"),
         dialog = t => i.status \notin Before
  PROVE  IInv'
<1>1. /\ tr' = [u \in Transfers |-> tr'[u]] /\ tr'[t] = i
      /\ \A u \in Transfers : u # t => tr'[u] = tr[u]
  BY DEF IInv, Changes
<1> QED
  BY <1>1, DownloadsDiffer DEF IInv

LEMMA RunsOn ==
  ASSUME IInv, NEW t \in Transfers, tr[t].status = "Transfering",
         NEW j, IsItem(j), Fresh(j), j.status = "Transfering", j.listed = tr[t].listed,
         Changes(t, j), UNCHANGED <<dying, clicked, dir, dialog>>
  PROVE  IInv'
<1>1. Good(j)
  BY DEF Good, Settled
<1>2. t \in dying => tr[t].listed
  BY DEF IInv
<1>3. dialog # t
  BY DownloadsDiffer, TransferListAssumption DEF IInv, Before
<1>4. t \in Downloads => Owned(t, j, t \in dying)
  BY <1>2 DEF IInv, Owned
<1>5. DOMAIN dir' = Downloads
  BY DEF IInv
<1> QED
  BY <1>1, <1>2, <1>3, <1>4, <1>5, OneChanges

LEMMA NextIInv == IInv /\ [Next]_vars => IInv'
<1> SUFFICES ASSUME IInv, [Next]_vars PROVE IInv'
  OBVIOUS
<1> USE DownloadsDiffer
<1> USE DEF Before
<1>0. \A t \in Transfers : Good(tr[t]) /\ IsItem(tr[t]) /\ Fresh(tr[t])
  BY DEF IInv, Good
<1>1. ASSUME NEW d \in Downloads, NewConnection(d) PROVE IInv'
  <2> DEFINE i == [Unborn EXCEPT !.status = "Starting"]
  <2>1. Good(i) /\ i.status = "Starting" /\ i.listed = FALSE
    BY UnbornIs
  <2>2. d \notin dying /\ dialog # d
    BY <1>0, <1>1 DEF IInv, NewConnection, IsItem
  <2> HIDE DEF i
  <2>3. Changes(d, i) /\ UNCHANGED <<dying, clicked, dir, dialog>>
    BY <1>1 DEF NewConnection, i
  <2> QED
    BY <2>1, <2>2, <2>3, OneChanges DEF IInv, Owned
<1>2. ASSUME NEW d \in Downloads, DownloadHandshake(d) PROVE IInv'
  <2> DEFINE i == StatusSet(tr[d], "WaitingForOffer")
  <2>1. Good(i) /\ i.status = "WaitingForOffer" /\ i.listed = tr[d].listed
    BY <1>0, <1>2, StatusSetIs DEF DownloadHandshake, Good, Settled
  <2> HIDE DEF i
  <2>2. Changes(d, i) /\ UNCHANGED <<dying, clicked, dir, dialog>> /\ tr[d].status = "Starting"
    BY <1>2 DEF DownloadHandshake, i
  <2> QED
    BY <2>1, <2>2, OneChanges DEF IInv, Owned
<1>3. ASSUME NEW d \in Downloads, HandedOver(d) PROVE IInv'
  <2>1. tr[d].status = "WaitingForOffer" /\ ~tr[d].listed /\ d \notin dying /\ dialog # d
    BY <1>0, <1>3 DEF HandedOver, IInv, Owned
  <2>2. PICK s \in Sizes :
          LET i == StatusSet([tr[d] EXCEPT !.size = s], "WaitingForUserChoice")
          IN  Changes(d, Appended(i)) \/ Changes(d, Appended(Accepted(i)))
                \/ Changes(d, Appended(Failed(i)))
    BY <1>3 DEF HandedOver
  <2> DEFINE k == [tr[d] EXCEPT !.size = s]
             i == StatusSet(k, "WaitingForUserChoice")
             Outcomes == {Appended(i), Appended(Accepted(i)), Appended(Failed(i))}
  <2>3. PICK j \in Outcomes : Changes(d, j)
    BY <2>2
  <2>4. IsItem(k) /\ Fresh(k) /\ k.listed = FALSE /\ k.running = FALSE
    <3>1. tr[d].listed = FALSE /\ tr[d].running = FALSE
      BY <1>0, <2>1 DEF Good, Settled, Still, IsItem
    <3>2. /\ IsItem(k) /\ k.listed = tr[d].listed /\ k.running = tr[d].running
          /\ Fresh(tr[d]) => Fresh(k)
      BY <1>0, TouchIs
    <3> QED
      BY <1>0, <3>1, <3>2
  <2> HIDE DEF k
  <2>5. /\ IsItem(i) /\ Fresh(i) /\ Still(i)
        /\ i.status = "WaitingForUserChoice" /\ i.listed = FALSE
    <3>1. Still(k)
      BY <2>4 DEF Still
    <3> QED
      BY <2>4, <3>1, StatusSetIs
  <2> HIDE DEF i
  <2>6. /\ Good(j) /\ j.listed = TRUE
        /\ j.status \in {"WaitingForUserChoice", "Transfering", "Error"}
    <3>1. Settled(i)
      BY <2>5 DEF Settled
    <3>2. Good(Accepted(i)) /\ Accepted(i).status = "Transfering"
      BY <2>5, AcceptedIs
    <3>3. Good(Failed(i)) /\ Failed(i).status = "Error"
      BY <2>5, FailedIs
    <3>4. \A k2 \in {i, Accepted(i), Failed(i)} :
            LET a == Appended(k2)
            IN  Good(a) /\ a.status = k2.status /\ a.listed = TRUE
      BY <2>5, <3>1, <3>2, <3>3, AppendedIs DEF Good
    <3> QED
      BY <2>3, <2>5, <3>2, <3>3, <3>4
  <2> HIDE DEF Outcomes
  <2>7. DOMAIN dir' = Downloads /\ UNCHANGED <<dying, clicked, dialog>>
    BY <1>3 DEF HandedOver, IInv
  <2> QED
    BY <2>1, <2>3, <2>6, <2>7, OneChanges DEF Owned
<1>4. ASSUME NEW d \in Downloads, Accept(d) PROVE IInv'
  <2>1. PICK i \in {Accepted(tr[d]), Failed(tr[d])} : Changes(d, i)
    BY <1>4 DEF Accept
  <2>2. Good(i) /\ i.status \in {"Transfering", "Error"} /\ i.listed = tr[d].listed
    BY <1>0, AcceptedIs, FailedIs
  <2>3. /\ dialog = Null /\ tr[d].listed /\ d \notin dying
        /\ UNCHANGED <<dying, clicked, dir, dialog>>
    BY <1>4 DEF Accept, Clickable
  <2> QED
    BY <2>1, <2>2, <2>3, OneChanges DEF Owned, IInv
<1>5. ASSUME NEW d \in Downloads, Cancel(d) PROVE IInv'
  <2>1. /\ dialog = Null /\ tr[d].listed /\ d \notin dying
        /\ UNCHANGED <<dying, clicked, dir, dialog>>
        /\ tr[d].status = "WaitingForUserChoice"
    BY <1>5 DEF Cancel, Clickable, Buttons
  <2>2. PICK i \in {StatusSet(tr[d], "Rejected"), StatusSet(Failed(tr[d]), "Rejected")} :
          Changes(d, i)
    BY <1>5 DEF Cancel
  <2>3. Still(tr[d])
    BY <1>0, <2>1 DEF Good, Settled
  <2>4. Good(i) /\ i.status = "Rejected" /\ i.listed = tr[d].listed
    BY <1>0, <2>3, StatusSetIs, FailedIs DEF Good, Settled
  <2> QED
    BY <2>1, <2>2, <2>4, OneChanges DEF Owned, IInv
<1>6. ASSUME NEW d \in Downloads, ChangePath(d) PROVE IInv'
  BY <1>6 DEF ChangePath, Clickable, Buttons, IInv
<1>7. ASSUME NEW d \in Downloads, PathChosen(d) PROVE IInv'
  BY <1>7 DEF PathChosen, IInv
<1>8. ASSUME NEW u \in Uploads, RequestUpload(u) PROVE IInv'
  <2>1. tr[u].status = "None" /\ dialog = Null /\ UNCHANGED <<dying, clicked, dir, dialog>>
    BY <1>8 DEF RequestUpload
  <2>2. u \notin dying
    BY <1>0, <2>1 DEF IInv, IsItem
  <2>3. CASE \E s \in Sizes : Changes(u, Appended(StatusSet([Unborn EXCEPT !.size = s], "Starting")))
    <3>1. PICK s \in Sizes : Changes(u, Appended(StatusSet([Unborn EXCEPT !.size = s], "Starting")))
      BY <2>3
    <3> DEFINE k == [Unborn EXCEPT !.size = s]
               i == StatusSet(k, "Starting")
    <3>2. IsItem(k) /\ Fresh(k) /\ Still(k)
      BY DEF Unborn, IsItem, ItemFields, Fresh, Still
    <3> HIDE DEF k
    <3>3. IsItem(i) /\ Settled(i) /\ i.status = "Starting"
      BY <3>2, StatusSetIs DEF Settled
    <3>4. Changes(u, Appended(i))
      BY <3>1 DEF k
    <3> HIDE DEF i
    <3>5. Good(Appended(i))
      BY <3>3, AppendedIs
    <3> QED
      BY <2>1, <2>2, <3>4, <3>5, OneChanges DEF IInv
  <2>4. CASE Changes(u, Failed(Unborn))
    <3>1. IsItem(Unborn) /\ Fresh(Unborn)
      BY DEF Unborn, IsItem, ItemFields, Fresh
    <3>2. Good(Failed(Unborn))
      BY <3>1, FailedIs
    <3> QED
      BY <2>1, <2>2, <2>4, <3>2, OneChanges DEF IInv
  <2> QED
    BY <1>8, <2>3, <2>4 DEF RequestUpload
<1>9. ASSUME NEW u \in Uploads, UploadHandshake(u) PROVE IInv'
  <2> DEFINE i == StatusSet(tr[u], "WaitingForPeerAnswer")
  <2>1. Good(i) /\ i.listed = tr[u].listed
    BY <1>0, <1>9, StatusSetIs DEF UploadHandshake, Good, Settled
  <2> HIDE DEF i
  <2>2. /\ Changes(u, i) /\ UNCHANGED <<dying, clicked, dir, dialog>>
        /\ tr[u].status = "Starting"
    BY <1>9 DEF UploadHandshake, i
  <2> QED
    BY <2>1, <2>2, OneChanges DEF IInv
<1>10. ASSUME NEW u \in Uploads, ReceiveAnswer(u) PROVE IInv'
  <2>1. /\ tr[u].status = "WaitingForPeerAnswer" /\ UNCHANGED <<dying, clicked, dir, dialog>>
    BY <1>10 DEF ReceiveAnswer
  <2>2. PICK i \in {Accepted(tr[u]), StatusSet(tr[u], "Rejected")} : Changes(u, i)
    BY <1>10 DEF ReceiveAnswer
  <2>3. Good(i) /\ i.listed = tr[u].listed
    BY <1>0, <2>1, AcceptedIs, StatusSetIs DEF Good, Settled
  <2> QED
    BY <2>1, <2>2, <2>3, OneChanges DEF IInv
<1>11. ASSUME NEW t \in Transfers, Fail(t) PROVE IInv'
  <2> DEFINE i == Failed(tr[t])
  <2>1. Good(i) /\ i.status = "Error" /\ i.listed = tr[t].listed
    BY <1>0, FailedIs
  <2> HIDE DEF i
  <2>2. /\ tr' = [tr EXCEPT ![t] = i] /\ UNCHANGED <<clicked, dir, dialog>>
        /\ dying' = dying \cup (IF tr[t].listed THEN {} ELSE {t} \cap Downloads)
    BY <1>11 DEF Fail, Changes, i
  <2>3. /\ tr' = [u \in Transfers |-> tr'[u]] /\ tr'[t] = i
        /\ \A u \in Transfers : u # t => tr'[u] = tr[u]
    BY <2>2 DEF IInv
  <2>4. \A d \in Downloads : Owned(d, tr[d], d \in dying)'
    BY <2>1, <2>2, <2>3 DEF IInv, Owned
  <2> QED
    BY <2>1, <2>2, <2>3, <2>4 DEF IInv
<1>12. ASSUME NEW t \in Transfers, MoveChunk(t) PROVE IInv'
  <2>1. tr[t].status = "Transfering" /\ UNCHANGED <<dying, clicked, dir, dialog>>
    BY <1>12 DEF MoveChunk
  <2>2. PICK gap \in Gaps(t) :
          LET i == [Later(tr[t], gap) EXCEPT !.done = @ + 1]
          IN  Changes(t, MayProgress(i)) \/ Changes(t, i)
    BY <1>12 DEF MoveChunk
  <2> DEFINE l == Later(tr[t], gap)
             i == [l EXCEPT !.done = l.done + 1]
  <2>3. IsItem(l) /\ Fresh(l) /\ l.status = "Transfering" /\ l.listed = tr[t].listed
    BY <1>0, <2>1, LaterIs
  <2>4. PICK j \in {i, MayProgress(i)} : Changes(t, j)
    BY <2>2
  <2> HIDE DEF l
  <2>5. IsItem(i) /\ Fresh(i) /\ i.status = "Transfering" /\ i.listed = tr[t].listed
    BY <2>3, MovedIs
  <2> HIDE DEF i
  <2>6. IsItem(j) /\ Fresh(j) /\ j.status = "Transfering" /\ j.listed = tr[t].listed
    BY <2>5, MayProgressIs
  <2> QED
    BY <2>1, <2>4, <2>6, RunsOn
<1>13. ASSUME NEW t \in Transfers, Complete(t) PROVE IInv'
  <2>1. tr[t].status = "Transfering" /\ UNCHANGED <<dying, clicked, dir, dialog>>
    BY <1>13 DEF Complete
  <2>2. PICK gap \in Gaps(t) :
          LET i == Later(tr[t], gap)
          IN  \/ Changes(t, StatusSet(TransferEnd(MayProgress(i)), "Completed"))
              \/ Changes(t, Failed(MayProgress(i)))
              \/ Changes(t, StatusSet(TransferEnd(i), "Completed"))
    BY <1>13 DEF Complete
  <2> DEFINE l == Later(tr[t], gap)
             m == MayProgress(l)
  <2>3. IsItem(l) /\ Fresh(l) /\ l.listed = tr[t].listed
    BY <1>0, LaterIs
  <2>4. PICK j \in {StatusSet(TransferEnd(m), "Completed"), Failed(m),
                    StatusSet(TransferEnd(l), "Completed")} : Changes(t, j)
    BY <2>2
  <2> HIDE DEF l
  <2>5. IsItem(m) /\ Fresh(m) /\ m.listed = tr[t].listed
    BY <2>3, MayProgressIs
  <2> HIDE DEF m
  <2>6. Good(j) /\ j.status \in {"Completed", "Error"} /\ j.listed = tr[t].listed
    <3>1. \A k \in {l, m} :
            LET c == StatusSet(TransferEnd(k), "Completed")
            IN  Good(c) /\ c.status = "Completed" /\ c.listed = tr[t].listed
      BY <2>3, <2>5, TransferEndIs, StatusSetIs DEF Good, Settled
    <3>2. Good(Failed(m)) /\ Failed(m).status = "Error" /\ Failed(m).listed = tr[t].listed
      BY <2>5, FailedIs
    <3> QED
      BY <3>1, <3>2
  <2>7. t \notin dying \/ tr[t].listed
    BY <2>1 DEF IInv
  <2>8. tr[t].listed \/ t \notin Downloads
    BY <2>1, <2>7 DEF IInv, Owned
  <2> QED
    BY <2>1, <2>4, <2>6, <2>7, <2>8, OneChanges DEF IInv, Owned
<1>14. ASSUME NEW t \in Transfers, UpdateRate(t) PROVE IInv'
  <2> DEFINE l == Later(tr[t], 1)
             h == UpdateHistory(l)
             j == OutputInstantRate(h)
  <2>1. /\ Changes(t, j) /\ tr[t].status = "Transfering"
        /\ UNCHANGED <<dying, clicked, dir, dialog>>
    BY <1>0, <1>14 DEF UpdateRate, Good, Settled, Still
  <2>2. IsItem(l) /\ Fresh(l) /\ l.status = "Transfering" /\ l.listed = tr[t].listed
    BY <1>0, <2>1, LaterIs
  <2> HIDE DEF l
  <2>3. IsItem(h) /\ Fresh(h) /\ h.status = "Transfering" /\ h.listed = tr[t].listed
    BY <2>2, UpdateHistoryIs, SameButtons DEF Fresh
  <2> HIDE DEF h
  <2>4. IsItem(j) /\ Fresh(j) /\ j.status = "Transfering" /\ j.listed = tr[t].listed
    BY <2>3, OutputInstantRateIs
  <2> HIDE DEF j
  <2> QED
    BY <2>1, <2>4, RunsOn
<1>15. ASSUME NEW t \in Transfers, Delete(t) PROVE IInv'
  BY <1>15 DEF Delete, Clickable, IInv, Owned
<1>16. ASSUME NEW t \in Transfers, Destroyed(t) PROVE IInv'
  <2> DEFINE i == [Unborn EXCEPT !.status = "Gone"]
  <2>1. Good(i) /\ i.status = "Gone"
    BY UnbornIs
  <2> HIDE DEF i
  <2>2. /\ tr' = [tr EXCEPT ![t] = i] /\ UNCHANGED <<clicked, dir, dialog>>
        /\ dying' = dying \ {t}
    BY <1>16 DEF Destroyed, Changes, i
  <2>3. /\ tr' = [u \in Transfers |-> tr'[u]] /\ tr'[t] = i
        /\ \A u \in Transfers : u # t => tr'[u] = tr[u]
    BY <2>2 DEF IInv
  <2>4. \A d \in Downloads : Owned(d, tr[d], d \in dying)'
    BY <2>1, <2>2, <2>3 DEF IInv, Owned
  <2> QED
    BY <2>1, <2>2, <2>3, <2>4 DEF IInv
<1>17. CASE UNCHANGED vars
  BY <1>17 DEF vars, IInv
<1> QED
  BY <1>1, <1>2, <1>3, <1>4, <1>5, <1>6, <1>7, <1>8, <1>9, <1>10, <1>11, <1>12, <1>13, <1>14,
     <1>15, <1>16, <1>17 DEF Next, DownloadStep, UploadStep, TransferStep

\* The view shows what the items are, whatever the nesting of the signals of
\* transfer, notifier and item (status_changed, set_rate).
THEOREM ShowsTheTruth == Spec => []ViewIsCurrent
<1>1. IInv => ViewIsCurrent
  BY DEF IInv, Good, Fresh, ViewIsCurrent, Listed
<1> QED
  BY <1>1, InitIInv, NextIInv, PTL DEF Spec

\* The last progress and the average rate are shown, and the timer is stopped,
\* at every end of a transfer (transfer_end).
THEOREM ShowsTheEnd == Spec => []FinalIsExact
<1>1. IInv => FinalIsExact
  BY DEF IInv, Good, Fresh, Settled, Still, FinalIsExact, Listed, Final
<1> QED
  BY <1>1, InitIInv, NextIInv, PTL DEF Spec

\* No download is lost between the server and the list, or kept by both, and
\* only the user takes a transfer from the list (Server::status_changed, download_failed, new_download).
THEOREM Ownership == Spec => []EachHasAnOwner
<1>1. IInv => EachHasAnOwner
  BY DEF IInv, Owned, EachHasAnOwner, Exists, Listed
<1> QED
  BY <1>1, InitIInv, NextIInv, PTL DEF Spec

\* The target directory of a running download is fixed, whatever the modal
\* dialog does (button_clicked, set_target_dir).
THEOREM DirectoryIsFixed == Spec => TargetIsFixed
<1> DEFINE Fixed == \A d \in Downloads : tr[d].status = "Transfering" => dir'[d] = dir[d]
<1>1. ASSUME IInv, [Next]_vars, NEW d \in Downloads, tr[d].status = "Transfering"
      PROVE  dir'[d] = dir[d]
  <2> USE <1>1
  <2>1. ASSUME NEW e \in Downloads, HandedOver(e) PROVE dir'[d] = dir[d]
    BY <2>1 DEF HandedOver
  <2>2. ASSUME NEW e \in Downloads, PathChosen(e) PROVE dir'[d] = dir[d]
    BY <2>2, DownloadsDiffer DEF PathChosen, IInv, Before
  <2>3. ASSUME dir' # dir PROVE \E e \in Downloads : HandedOver(e) \/ PathChosen(e)
    BY <2>3 DEF Next, vars, DownloadStep, UploadStep, TransferStep, NewConnection,
       DownloadHandshake, Accept, Cancel, ChangePath, RequestUpload, UploadHandshake,
       ReceiveAnswer, Fail, MoveChunk, Complete, UpdateRate, Delete, Destroyed
  <2> QED
    BY <2>1, <2>2, <2>3
<1>2. IInv /\ [Next]_vars => [Fixed]_vars
  BY <1>1
<1> QED
  BY <1>2, InitIInv, NextIInv, PTL DEF Spec, TargetIsFixed

----------------------------------------------------------------------------
(* The history of a transfer: points, in the order they were taken. *)

Points == [epoch : Nat, bytes : Nat]

\* Points of a history, in the order they were taken.
Ordered(h) ==
  \A k \in 1 .. Len(h) - 1 : h[k].epoch <= h[k + 1].epoch /\ h[k].bytes <= h[k + 1].bytes

IsWindow(h) ==
  /\ h # << >>
  /\ h[Len(h)].epoch > 0 => Len(h) > 1
  /\ Ordered(h)
  /\ Len(h) >= Elems => h[1].epoch >= h[Len(h)].epoch - Window

LEMMA OrderedSubSeq ==
  ASSUME NEW h \in Seq(Points), Ordered(h), NEW m \in 1 .. Len(h)
  PROVE  LET s == SubSeq(h, m, Len(h))
         IN  /\ s \in Seq(Points) /\ Len(s) = Len(h) - m + 1 /\ Ordered(s)
             /\ s[1] = h[m] /\ s[Len(s)] = h[Len(h)]
<1> DEFINE s == SubSeq(h, m, Len(h))
<1>1. Len(h) \in Nat /\ DOMAIN h = 1 .. Len(h) /\ \A k \in 1 .. Len(h) : h[k] \in Points
  BY LenProperties
<1>2. /\ s \in Seq(Points)
      /\ Len(s) = IF m <= Len(h) THEN Len(h) - m + 1 ELSE 0
      /\ \A k \in 1 .. Len(h) - m + 1 : s[k] = h[m + k - 1]
  <2>1. m \in Int /\ Len(h) \in Int /\ \A k \in m .. Len(h) : h[k] \in Points
    BY <1>1
  <2> QED
    BY <2>1, SubSeqProperties
<1> HIDE DEF s
<1>3. Len(s) = Len(h) - m + 1
  BY <1>1, <1>2
<1>4. s[1] = h[m] /\ s[Len(s)] = h[Len(h)]
  BY <1>1, <1>2, <1>3
<1>5. ASSUME NEW k \in 1 .. Len(s) - 1
      PROVE  s[k].epoch <= s[k + 1].epoch /\ s[k].bytes <= s[k + 1].bytes
  <2>1. k \in 1 .. Len(h) - m + 1 /\ k + 1 \in 1 .. Len(h) - m + 1
    BY <1>1, <1>3
  <2>2. s[k] = h[m + k - 1] /\ s[k + 1] = h[m + (k + 1) - 1]
    BY <1>2, <2>1
  <2>3. m + (k + 1) - 1 = (m + k - 1) + 1 /\ m + k - 1 \in 1 .. Len(h) - 1
    BY <1>1, <1>3
  <2> QED
    BY <2>2, <2>3 DEF Ordered
<1> QED
  BY <1>2, <1>3, <1>4, <1>5 DEF s, Ordered

\* A nonempty set of natural numbers has a smallest element.
LEMMA Smallest ==
  ASSUME NEW T \in SUBSET Nat, T # {}
  PROVE  \E x \in T : \A y \in T : x <= y
<1>1. PICK x \in T : \A y \in T : ~ (<<y, x>> \in OpToRel(<,Nat))
  BY NatLessThanWellFounded, WFMin
<1>2. \A y \in T : ~(y < x)
  BY <1>1 DEF OpToRel
<1> QED
  BY <1>2

\* update_history stops: it leaves the last elements whatever their age.
LEMMA WindowMovedIs ==
  ASSUME NEW h \in Seq(Points), h # << >>, Ordered(h)
  PROVE  LET w == WindowMoved(h)
         IN  /\ w \in Seq(Points) /\ w # << >> /\ w[Len(w)] = h[Len(h)] /\ Ordered(w)
             /\ Len(h) > 1 => Len(w) > 1
             /\ Len(w) >= Elems => w[1].epoch >= w[Len(w)].epoch - Window
<1> DEFINE Stays(k) == h[k].epoch >= h[Len(h)].epoch - Window \/ Len(h) - k + 1 < Elems
           K == {k \in DOMAIN h : Stays(k)}
           IsFirst(k) == Stays(k) /\ \A j \in 1 .. k - 1 : ~Stays(j)
           first == CHOOSE k \in DOMAIN h : IsFirst(k)
<1>1. Len(h) \in Nat \ {0} /\ DOMAIN h = 1 .. Len(h)
  BY LenProperties, EmptySeq
<1>2. Elems \in Nat /\ Elems > 2 /\ Window \in Nat
  BY TransferListAssumption
<1>3. \E k \in DOMAIN h : IsFirst(k)
  <2>1. Len(h) \in K
    BY <1>1, <1>2
  <2>2. K \subseteq Nat /\ K # {}
    BY <1>1, <2>1
  <2>3. PICK k \in K : \A j \in K : k <= j
    BY <2>2, Smallest
  <2>4. ASSUME NEW j \in 1 .. k - 1 PROVE ~Stays(j)
    BY <1>1, <2>3
  <2> QED
    BY <2>3, <2>4
<1>4. first \in DOMAIN h /\ IsFirst(first)
  BY <1>3
<1>5. WindowMoved(h) = SubSeq(h, first, Len(h))
  BY DEF WindowMoved
<1> HIDE DEF first
<1>6. Len(h) > 1 => Len(h) - first + 1 > 1
  <2> SUFFICES ASSUME Len(h) > 1, first = Len(h) PROVE FALSE
    BY <1>1, <1>4
  <2>1. Len(h) - 1 \in 1 .. first - 1
    BY <1>1
  <2>2. Stays(Len(h) - 1)
    BY <1>1, <1>2
  <2> QED
    BY <1>4, <2>1, <2>2
<1>7. LET w == WindowMoved(h)
      IN  /\ w \in Seq(Points) /\ Len(w) = Len(h) - first + 1 /\ Ordered(w)
          /\ w[1] = h[first] /\ w[Len(w)] = h[Len(h)]
  <2>1. first \in 1 .. Len(h)
    BY <1>1, <1>4
  <2> QED
    BY <1>5, <2>1, OrderedSubSeq
<1> DEFINE w == WindowMoved(h)
<1> HIDE DEF w
<1>8. /\ w \in Seq(Points) /\ Len(w) = Len(h) - first + 1 /\ Ordered(w)
      /\ w[1] = h[first] /\ w[Len(w)] = h[Len(h)]
  BY <1>7 DEF w
<1>9. w # << >>
  BY <1>1, <1>4, <1>8, EmptySeq
<1>10. Len(w) >= Elems => w[1].epoch >= w[Len(w)].epoch - Window
  BY <1>1, <1>2, <1>4, <1>8
<1> QED
  BY <1>6, <1>8, <1>9, <1>10 DEF w

\* What the history of a transfer is about: its bytes and its time.
SameTimes(i, j) == j.now = i.now /\ j.done = i.done /\ j.history = i.history

Timed(i) ==
  /\ i.now \in Nat /\ i.done \in Nat /\ i.history \in Seq(Points)
  /\ i.status # "Transfering" => i.history = << >>

\* The points of a history are of the past.
Past(i) ==
  i.history # << >> =>
    LET p == i.history[Len(i.history)] IN p.epoch <= i.now /\ p.bytes <= i.done

Counted(i) ==
  /\ i.now \in Nat /\ i.done \in Nat /\ i.history \in Seq(Points)
  /\ Ordered(i.history) /\ Past(i)

TimesInv(i) ==
  /\ Counted(i)
  /\ IF i.status = "Transfering" THEN IsWindow(i.history) ELSE i.history = << >>

LEMMA EmptyCounted ==
  ASSUME NEW i, i.now \in Nat, i.done \in Nat, i.history = << >>
  PROVE  Counted(i)
BY EmptySeq DEF Counted, Ordered, Past

LEMMA SameCounted ==
  ASSUME NEW i, NEW j, SameTimes(i, j), Counted(i)
  PROVE  Counted(j)
BY DEF Counted, SameTimes, Past

LEMMA EmittedTimes ==
  ASSUME NEW i, NEW F, IsItem(i)
  PROVE  SameTimes(i, Emitted(i, F))
BY DEF Emitted, IsItem, ItemFields, SameTimes

LEMMA SetRateTimes ==
  ASSUME NEW i, NEW r, IsItem(i)
  PROVE  SameTimes(i, SetRate(i, r))
<1> DEFINE k == [i EXCEPT !.rate = r]
<1>1. IsItem(k) /\ SameTimes(i, k)
  BY DEF IsItem, ItemFields, SameTimes
<1>2. SetRate(i, r) = Emitted(k, {"rate"})
  BY DEF SetRate
<1> HIDE DEF k
<1> QED
  BY <1>1, <1>2, EmittedTimes DEF SameTimes

LEMMA StatusSetTimes ==
  ASSUME NEW i, NEW new, IsItem(i), new # "None"
  PROVE  SameTimes(i, StatusSet(i, new))
<1> DEFINE k == [i EXCEPT !.status = new]
           l == IF new = "Completed" THEN SetRate(k, Average) ELSE k
           F == {"status"} \cup IF i.status = "WaitingForUserChoice" THEN {"buttons"} ELSE {}
<1>1. IsItem(k) /\ SameTimes(i, k)
  BY DEF IsItem, ItemFields, SameTimes
<1>2. IsItem(l) /\ SameTimes(i, l)
  <2> HIDE DEF k
  <2> QED
    BY <1>1, SetRateIs, SetRateTimes DEF SameTimes
<1>3. StatusSet(i, new) = Emitted(l, F)
  BY DEF StatusSet
<1> HIDE DEF k, l, F
<1> QED
  BY <1>2, <1>3, EmittedTimes DEF SameTimes

LEMMA OutputTimes ==
  ASSUME NEW i, IsItem(i)
  PROVE  SameTimes(i, OutputInstantRate(i))
<1> DEFINE r == << "instant", i.history[Len(i.history)].bytes - i.history[1].bytes >>
<1>1. OutputInstantRate(i) = IF Len(i.history) < 2 THEN i ELSE SetRate(i, r)
  BY DEF OutputInstantRate
<1> HIDE DEF r
<1> QED
  BY <1>1, SetRateTimes DEF SameTimes

\* A point taken now makes a window of the points of the past.
LEMMA UpdateTimes ==
  ASSUME NEW i, IsItem(i), Counted(i), i.history # << >> \/ i.now = 0
  PROVE  LET j == UpdateHistory(i) IN Counted(j) /\ IsWindow(j.history)
<1> DEFINE p == [epoch |-> i.now, bytes |-> i.done]
           h == i.history
           a == Append(h, p)
           w == WindowMoved(a)
           j == UpdateHistory(i)
<1>1. j.history = w /\ j.now = i.now /\ j.done = i.done
  BY DEF UpdateHistory, IsItem, ItemFields
<1>2. p \in Points /\ p.epoch = i.now /\ p.bytes = i.done
  BY DEF Counted, Points
<1>3. /\ h \in Seq(Points) /\ Len(h) \in Nat /\ DOMAIN h = 1 .. Len(h)
      /\ \A k \in 1 .. Len(h) : h[k] \in Points
  BY LenProperties DEF Counted
<1> HIDE DEF p
<1>4. /\ a \in Seq(Points) /\ Len(a) = Len(h) + 1 /\ a # << >>
      /\ a[Len(h) + 1] = p /\ \A k \in 1 .. Len(h) : a[k] = h[k]
  BY <1>2, <1>3, AppendProperties
<1>5. h # << >> => h[Len(h)].epoch <= p.epoch /\ h[Len(h)].bytes <= p.bytes
  BY <1>2 DEF Counted, Past
<1>6. h # << >> => Len(h) > 0
  BY <1>3, EmptySeq
<1> HIDE DEF a
<1>7. ASSUME NEW k \in 1 .. Len(a) - 1
      PROVE  a[k].epoch <= a[k + 1].epoch /\ a[k].bytes <= a[k + 1].bytes
  <2>1. CASE k = Len(h)
    <3>1. h # << >> /\ a[k] = h[Len(h)] /\ a[k + 1] = p
      BY <1>3, <1>4, <2>1, EmptySeq
    <3> QED
      BY <1>5, <3>1
  <2>2. CASE k # Len(h)
    <3> HIDE DEF h
    <3>0. k \in 1 .. Len(h) /\ k + 1 \in 1 .. Len(h) /\ k \in 1 .. Len(h) - 1
      <4>1. Len(h) \in Nat /\ Len(a) = Len(h) + 1
        BY <1>3, <1>4
      <4> QED
        BY <4>1, <2>2
    <3>1. k \in 1 .. Len(h) - 1 /\ a[k] = h[k] /\ a[k + 1] = h[k + 1]
      BY <1>4, <3>0
    <3> QED
      BY <3>1 DEF Counted, Ordered, h
  <2> QED
    BY <2>1, <2>2
<1>8. Ordered(a)
  BY <1>7 DEF Ordered
<1>9. /\ w \in Seq(Points) /\ w # << >> /\ w[Len(w)] = p /\ Ordered(w)
      /\ Len(a) > 1 => Len(w) > 1
      /\ Len(w) >= Elems => w[1].epoch >= w[Len(w)].epoch - Window
  BY <1>4, <1>8, WindowMovedIs
<1> HIDE DEF w
<1>10. p.epoch > 0 => Len(a) > 1
  BY <1>2, <1>3, <1>4, <1>6
<1> HIDE DEF h, j
<1>11. IsWindow(w)
  BY <1>9, <1>10 DEF IsWindow
<1>12. i.now \in Nat /\ i.done \in Nat
  BY DEF Counted
<1>13. Past(j)
  BY <1>1, <1>2, <1>9, <1>12 DEF Past
<1> QED
  BY <1>1, <1>9, <1>11, <1>12, <1>13 DEF Counted, j

LEMMA EndTimes ==
  ASSUME NEW i, IsItem(i), Counted(i)
  PROVE  LET j == TransferEnd(i) IN Counted(j) /\ j.history = << >>
<1> DEFINE k == Emitted(i, {"progress"})
<1>1. IsItem(k) /\ SameTimes(i, k)
  BY EmittedIs, EmittedTimes
<1>2. TransferEnd(i) = [k EXCEPT !.running = FALSE, !.history = << >>]
  BY DEF TransferEnd
<1> HIDE DEF k
<1>3. LET j == TransferEnd(i) IN j.now = i.now /\ j.done = i.done /\ j.history = << >>
  BY <1>1, <1>2 DEF IsItem, ItemFields, SameTimes
<1> QED
  BY <1>3, EmptyCounted DEF Counted

LEMMA FailedTimes ==
  ASSUME NEW i, IsItem(i), Fresh(i), Counted(i)
  PROVE  TimesInv(Failed(i))
<1> DEFINE e == TransferEnd(i)
<1>1. IsItem(e) /\ Fresh(e) /\ Counted(e) /\ e.history = << >>
  BY TransferEndIs, EndTimes
<1>2. Failed(i) = StatusSet(e, "Error") /\ Failed(i).status = "Error"
  BY FailedIs DEF Failed
<1> HIDE DEF e
<1>3. SameTimes(e, Failed(i))
  BY <1>1, <1>2, StatusSetTimes
<1> QED
  BY <1>1, <1>2, <1>3, SameCounted DEF TimesInv, SameTimes

LEMMA AcceptedTimes ==
  ASSUME NEW i, IsItem(i), Fresh(i), Counted(i), i.history = << >>
  PROVE  TimesInv(Accepted(i))
<1> DEFINE k == [i EXCEPT !.now = 0, !.last = 0, !.running = TRUE]
           s == TransferStart(i)
<1>1. IsItem(k) /\ k.now = 0 /\ k.done = i.done /\ k.history = << >>
  BY DEF IsItem, ItemFields
<1>2. s = UpdateHistory(k)
  BY DEF TransferStart
<1> HIDE DEF k
<1>3. Counted(k)
  BY <1>1, EmptyCounted DEF Counted
<1>4. Counted(s) /\ IsWindow(s.history)
  BY <1>1, <1>2, <1>3, UpdateTimes
<1>5. IsItem(s) /\ Fresh(s)
  BY TransferStartIs
<1>6. Accepted(i) = StatusSet(s, "Transfering") /\ Accepted(i).status = "Transfering"
  BY AcceptedIs DEF Accepted
<1> HIDE DEF s
<1>7. SameTimes(s, Accepted(i))
  BY <1>5, <1>6, StatusSetTimes
<1> QED
  BY <1>4, <1>6, <1>7, SameCounted DEF TimesInv, SameTimes

LEMMA ProgressTimes ==
  ASSUME NEW i, IsItem(i), Fresh(i), Counted(i), i.history # << >>
  PROVE  LET j == MayProgress(i) IN Counted(j) /\ IsWindow(j.history)
<1> DEFINE h == UpdateHistory(i)
           o == OutputInstantRate(h)
           n == [o EXCEPT !.last = h.now, !.running = TRUE]
<1>1. IsItem(h) /\ Counted(h) /\ IsWindow(h.history)
  BY UpdateHistoryIs, UpdateTimes
<1>2. IsItem(h) /\ Fresh(h)
  BY UpdateHistoryIs, SameButtons DEF Fresh
<1>3. MayProgress(i) = IF h.now > h.last THEN Emitted(n, {"progress"}) ELSE h
  BY DEF MayProgress
<1> HIDE DEF h
<1>4. IsItem(o) /\ SameTimes(h, o)
  BY <1>2, OutputInstantRateIs, OutputTimes
<1> HIDE DEF o
<1>5. IsItem(n) /\ SameTimes(o, n)
  BY <1>4 DEF IsItem, ItemFields, SameTimes
<1> HIDE DEF n
<1>6. SameTimes(h, Emitted(n, {"progress"}))
  BY <1>4, <1>5, EmittedTimes DEF SameTimes
<1> QED
  BY <1>1, <1>3, <1>6, SameCounted DEF SameTimes

\* Time passes; a chunk may be moved.
LEMMA LaterTimes ==
  ASSUME NEW i, IsItem(i), Counted(i), NEW gap \in Nat
  PROVE  LET l == Later(i, gap)
             m == [l EXCEPT !.done = l.done + 1]
         IN  /\ Counted(l) /\ l.history = i.history
             /\ Counted(m) /\ m.history = i.history
<1> DEFINE l == Later(i, gap)
           m == [l EXCEPT !.done = l.done + 1]
<1>1. IsItem(l) /\ l.now = i.now + gap /\ l.done = i.done /\ l.history = i.history
  BY DEF Later, IsItem, ItemFields
<1> HIDE DEF l
<1>2. m.now = i.now + gap /\ m.done = i.done + 1 /\ m.history = i.history
  BY <1>1 DEF IsItem, ItemFields
<1> HIDE DEF m
<1>3. ASSUME NEW j \in {l, m} PROVE Counted(j)
  <2>1. /\ i.now \in Nat /\ i.done \in Nat
        /\ j.now \in Nat /\ j.done \in Nat
        /\ j.now >= i.now /\ j.done >= i.done /\ j.history = i.history
    BY <1>1, <1>2 DEF Counted
  <2>2. ASSUME i.history # << >> PROVE Past(j)
    <3> DEFINE p == i.history[Len(i.history)]
    <3>1. Len(i.history) \in DOMAIN i.history
      BY <2>2, LenProperties, EmptySeq DEF Counted
    <3>2. p.epoch \in Nat /\ p.bytes \in Nat
      <4>1. i.history \in Seq(Points) /\ Len(i.history) \in 1 .. Len(i.history)
        BY <3>1, LenProperties DEF Counted
      <4>2. p \in Points
        BY <4>1, ElementOfSeq
      <4> QED
        BY <4>2 DEF Points
    <3>3. p.epoch <= i.now /\ p.bytes <= i.done
      BY <2>2 DEF Counted, Past
    <3> HIDE DEF p
    <3>4. p.epoch <= j.now /\ p.bytes <= j.done
      BY <2>1, <3>2, <3>3
    <3> QED
      BY <2>1, <3>4 DEF Past, p
  <2> QED
    BY <2>1, <2>2 DEF Counted, Past
<1> QED
  BY <1>1, <1>2, <1>3 DEF l, m

LEMMA AppendedTimes ==
  ASSUME NEW i, IsItem(i)
  PROVE  SameTimes(i, Appended(i))
BY DEF Appended, IsItem, ItemFields, SameTimes

LEMMA UnbornTimes ==
  ASSUME NEW s, NEW new,
         NEW j \in {Unborn, [Unborn EXCEPT !.size = s], [Unborn EXCEPT !.status = new]}
  PROVE  Counted(j) /\ j.history = << >>
<1>1. j.now = 0 /\ j.done = 0 /\ j.history = << >>
  BY DEF Unborn
<1> QED
  BY <1>1, EmptyCounted

----------------------------------------------------------------------------

HistoryInv == \A t \in Transfers : TimesInv(tr[t])

\* A handler of one transfer.
LEMMA OneTimed ==
  ASSUME IInv, HistoryInv, NEW t \in Transfers, NEW j, Changes(t, j), TimesInv(j)
  PROVE  HistoryInv'
<1>1. tr'[t] = j /\ \A u \in Transfers : u # t => tr'[u] = tr[u]
  BY DEF IInv, Changes
<1> QED
  BY <1>1 DEF HistoryInv

LEMMA StatusTimed ==
  ASSUME NEW i, IsItem(i), Fresh(i), Counted(i), i.history = << >>,
         NEW new, new \notin {"None", "Transfering"}, ~i.listed \/ new # "WaitingForUserChoice"
  PROVE  LET j == StatusSet(i, new)
         IN  IsItem(j) /\ Fresh(j) /\ j.status = new /\ TimesInv(j)
<1>1. LET j == StatusSet(i, new) IN IsItem(j) /\ Fresh(j) /\ j.status = new /\ SameTimes(i, j)
  BY StatusSetIs, StatusSetTimes
<1> QED
  BY <1>1, SameCounted DEF TimesInv, SameTimes

LEMMA AppendedTimed ==
  ASSUME NEW i, IsItem(i), TimesInv(i)
  PROVE  TimesInv(Appended(i))
<1>1. SameTimes(i, Appended(i)) /\ Appended(i).status = i.status
  BY AppendedTimes DEF Appended, IsItem, ItemFields
<1> QED
  BY <1>1, SameCounted DEF TimesInv, SameTimes

LEMMA InitHistory == Init => HistoryInv
<1>1. TimesInv(Unborn)
  <2>1. Counted(Unborn) /\ Unborn.history = << >>
    BY UnbornTimes
  <2> QED
    BY <2>1 DEF TimesInv, Unborn
<1> HIDE DEF Unborn
<1> QED
  BY <1>1 DEF Init, HistoryInv

LEMMA NextHistory == IInv /\ HistoryInv /\ [Next]_vars => HistoryInv'
<1> SUFFICES ASSUME IInv, HistoryInv, [Next]_vars PROVE HistoryInv'
  OBVIOUS
<1> USE DownloadsDiffer
<1>0. ASSUME NEW t \in Transfers
      PROVE  /\ IsItem(tr[t]) /\ Fresh(tr[t]) /\ Counted(tr[t])
             /\ tr[t].status = "Transfering" => tr[t].history # << >>
             /\ tr[t].status # "Transfering" => tr[t].history = << >>
  BY DEF IInv, Good, HistoryInv, TimesInv, IsWindow
<1>1. ASSUME NEW d \in Downloads, NewConnection(d) PROVE HistoryInv'
  <2> DEFINE i == [Unborn EXCEPT !.status = "Starting"]
  <2>1. Counted(i) /\ i.history = << >>
    BY UnbornTimes
  <2>2. i.status = "Starting"
    BY DEF Unborn
  <2>3. Changes(d, i)
    BY <1>1 DEF NewConnection
  <2> HIDE DEF i
  <2>4. TimesInv(i)
    BY <2>1, <2>2 DEF TimesInv
  <2> QED
    BY <2>3, <2>4, OneTimed
\* A new status of a transfer that does not run.
<1>2. ASSUME NEW t \in Transfers, NEW new, new \notin {"None", "Transfering", "WaitingForUserChoice"},
             tr[t].status # "Transfering", Changes(t, StatusSet(tr[t], new))
      PROVE  HistoryInv'
  <2>1. TimesInv(StatusSet(tr[t], new))
    <3>1. new \notin {"None", "Transfering"} /\ (~tr[t].listed \/ new # "WaitingForUserChoice")
      BY <1>2
    <3> QED
      BY <1>0, <1>2, <3>1, StatusTimed
  <2> QED
    BY <1>2, <2>1, OneTimed
<1>3. ASSUME NEW t \in Transfers, tr[t].status # "Transfering",
             Changes(t, Accepted(tr[t]))
      PROVE  HistoryInv'
  BY <1>0, <1>3, AcceptedTimes, OneTimed
<1>4. ASSUME NEW t \in Transfers, Changes(t, Failed(tr[t])) PROVE HistoryInv'
  BY <1>0, <1>4, FailedTimes, OneTimed
<1>5. ASSUME NEW d \in Downloads, HandedOver(d) PROVE HistoryInv'
  <2>1. tr[d].status = "WaitingForOffer" /\ ~tr[d].listed
    BY <1>5 DEF HandedOver, IInv, Owned
  <2>2. PICK s \in Sizes :
          LET i == StatusSet([tr[d] EXCEPT !.size = s], "WaitingForUserChoice")
          IN  Changes(d, Appended(i)) \/ Changes(d, Appended(Accepted(i)))
                \/ Changes(d, Appended(Failed(i)))
    BY <1>5 DEF HandedOver
  <2> DEFINE k == [tr[d] EXCEPT !.size = s]
             i == StatusSet(k, "WaitingForUserChoice")
             Outcomes == {i, Accepted(i), Failed(i)}
  <2>3. PICK j \in Outcomes : Changes(d, Appended(j))
    BY <2>2
  <2>4. /\ IsItem(k) /\ k.listed = tr[d].listed
        /\ Fresh(tr[d]) => Fresh(k)
    BY <1>0, TouchIs
  <2>5. SameTimes(tr[d], k)
    BY <1>0 DEF IsItem, ItemFields, SameTimes
  <2>6. IsItem(k) /\ Fresh(k) /\ ~k.listed /\ Counted(k) /\ k.history = << >>
    BY <1>0, <2>1, <2>4, <2>5, SameCounted DEF SameTimes
  <2> HIDE DEF k
  <2>7. IsItem(i) /\ Fresh(i) /\ i.status = "WaitingForUserChoice" /\ TimesInv(i)
    BY <2>6, StatusTimed
  <2> HIDE DEF i
  <2>8. Counted(i) /\ i.history = << >>
    BY <2>7 DEF TimesInv
  <2>9. TimesInv(Accepted(i)) /\ TimesInv(Failed(i)) /\ IsItem(Accepted(i)) /\ IsItem(Failed(i))
    BY <2>7, <2>8, AcceptedTimes, FailedTimes, AcceptedIs, FailedIs DEF Good
  <2>10. IsItem(j) /\ TimesInv(j)
    BY <2>3, <2>7, <2>9
  <2> HIDE DEF Outcomes
  <2> QED
    BY <2>3, <2>10, AppendedTimed, OneTimed
<1>6. ASSUME NEW d \in Downloads, Accept(d) PROVE HistoryInv'
  BY <1>3, <1>4, <1>6 DEF Accept, Clickable, Buttons
<1>7. ASSUME NEW d \in Downloads, Cancel(d) PROVE HistoryInv'
  <2>1. tr[d].status = "WaitingForUserChoice"
    BY <1>7 DEF Cancel, Clickable, Buttons
  <2>2. CASE Changes(d, StatusSet(tr[d], "Rejected"))
    BY <1>2, <2>1, <2>2
  <2>3. CASE Changes(d, StatusSet(Failed(tr[d]), "Rejected"))
    <3> DEFINE f == Failed(tr[d])
    <3>1. IsItem(f) /\ Fresh(f) /\ TimesInv(f) /\ f.status = "Error"
      BY <1>0, FailedIs, FailedTimes DEF Good
    <3>2. Changes(d, StatusSet(f, "Rejected"))
      BY <2>3
    <3> HIDE DEF f
    <3>3. Counted(f) /\ f.history = << >>
      BY <3>1 DEF TimesInv
    <3>4. TimesInv(StatusSet(f, "Rejected"))
      BY <3>1, <3>3, StatusTimed
    <3> QED
      BY <3>2, <3>4, OneTimed
  <2> QED
    BY <1>7, <2>2, <2>3 DEF Cancel
<1>8. ASSUME NEW u \in Uploads, RequestUpload(u) PROVE HistoryInv'
  <2>1. CASE \E s \in Sizes : Changes(u, Appended(StatusSet([Unborn EXCEPT !.size = s], "Starting")))
    <3>1. PICK s \in Sizes : Changes(u, Appended(StatusSet([Unborn EXCEPT !.size = s], "Starting")))
      BY <2>1
    <3> DEFINE k == [Unborn EXCEPT !.size = s]
               i == StatusSet(k, "Starting")
    <3>2. IsItem(k) /\ Fresh(k)
      BY DEF Unborn, IsItem, ItemFields, Fresh
    <3>3. Counted(k) /\ k.history = << >>
      BY UnbornTimes
    <3> HIDE DEF k
    <3>4. IsItem(i) /\ TimesInv(i)
      BY <3>2, <3>3, StatusTimed
    <3>5. Changes(u, Appended(i))
      BY <3>1 DEF k
    <3> HIDE DEF i
    <3> QED
      BY <3>4, <3>5, AppendedTimed, OneTimed
  <2>2. CASE Changes(u, Failed(Unborn))
    <3>1. IsItem(Unborn) /\ Fresh(Unborn)
      BY DEF Unborn, IsItem, ItemFields, Fresh
    <3>2. Counted(Unborn)
      BY UnbornTimes
    <3> HIDE DEF Unborn
    <3> QED
      BY <2>2, <3>1, <3>2, FailedTimes, OneTimed
  <2> QED
    BY <1>8, <2>1, <2>2 DEF RequestUpload
<1>9. ASSUME NEW t \in Transfers, MoveChunk(t) PROVE HistoryInv'
  <2>1. tr[t].status = "Transfering"
    BY <1>9 DEF MoveChunk
  <2>2. PICK gap \in Gaps(t) :
          LET i == [Later(tr[t], gap) EXCEPT !.done = @ + 1]
          IN  Changes(t, MayProgress(i)) \/ Changes(t, i)
    BY <1>9 DEF MoveChunk
  <2> DEFINE l == Later(tr[t], gap)
             i == [l EXCEPT !.done = l.done + 1]
  <2>3. PICK j \in {i, MayProgress(i)} : Changes(t, j)
    BY <2>2
  <2>4. gap \in Nat
    BY DEF Gaps
  <2>5. IsItem(l) /\ Fresh(l) /\ l.status = "Transfering"
    BY <1>0, <2>1, LaterIs
  <2>6. Counted(i) /\ i.history = tr[t].history
    BY <1>0, <2>4, LaterTimes
  <2> HIDE DEF l
  <2>7. IsItem(i) /\ Fresh(i) /\ i.status = "Transfering"
    BY <2>5, MovedIs
  <2> HIDE DEF i
  <2>8. IsWindow(i.history) /\ i.history # << >>
    BY <1>0, <2>1, <2>6 DEF HistoryInv, TimesInv
  <2>9. /\ Counted(MayProgress(i)) /\ IsWindow(MayProgress(i).history)
        /\ MayProgress(i).status = "Transfering"
    BY <2>6, <2>7, <2>8, ProgressTimes, MayProgressIs
  <2>10. TimesInv(j)
    BY <2>3, <2>6, <2>7, <2>8, <2>9 DEF TimesInv
  <2> QED
    BY <2>3, <2>10, OneTimed
<1>10. ASSUME NEW t \in Transfers, Complete(t) PROVE HistoryInv'
  <2>1. tr[t].status = "Transfering"
    BY <1>10 DEF Complete
  <2>2. PICK gap \in Gaps(t) :
          LET i == Later(tr[t], gap)
          IN  \/ Changes(t, StatusSet(TransferEnd(MayProgress(i)), "Completed"))
              \/ Changes(t, Failed(MayProgress(i)))
              \/ Changes(t, StatusSet(TransferEnd(i), "Completed"))
    BY <1>10 DEF Complete
  <2> DEFINE l == Later(tr[t], gap)
             m == MayProgress(l)
  <2>3. \/ \E k \in {l, m} : Changes(t, StatusSet(TransferEnd(k), "Completed"))
        \/ Changes(t, Failed(m))
    BY <2>2
  <2>4. gap \in Nat
    BY DEF Gaps
  <2>5. IsItem(l) /\ Fresh(l)
    BY <1>0, LaterIs
  <2>6. Counted(l) /\ l.history # << >>
    BY <1>0, <2>1, <2>4, LaterTimes
  <2> HIDE DEF l
  <2>7. IsItem(m) /\ Fresh(m) /\ Counted(m)
    BY <2>5, <2>6, MayProgressIs, ProgressTimes
  <2> HIDE DEF m
  <2>8. ASSUME NEW k \in {l, m} PROVE TimesInv(StatusSet(TransferEnd(k), "Completed"))
    <3> DEFINE e == TransferEnd(k)
    <3>1. IsItem(e) /\ Fresh(e) /\ Counted(e) /\ e.history = << >>
      BY <2>5, <2>6, <2>7, TransferEndIs, EndTimes
    <3> HIDE DEF e
    <3>2. TimesInv(StatusSet(e, "Completed"))
      BY <3>1, StatusTimed
    <3> QED
      BY <3>2 DEF e
  <2>9. TimesInv(Failed(m))
    BY <2>7, FailedTimes
  <2> QED
    BY <2>3, <2>8, <2>9, OneTimed
<1>11. ASSUME NEW t \in Transfers, UpdateRate(t) PROVE HistoryInv'
  <2> DEFINE l == Later(tr[t], 1)
             h == UpdateHistory(l)
             j == OutputInstantRate(h)
  <2>1. Changes(t, j) /\ tr[t].status = "Transfering"
    BY <1>11 DEF UpdateRate, IInv, Good, Settled, Still
  <2>2. IsItem(l) /\ Fresh(l) /\ l.status = "Transfering"
    BY <1>0, <2>1, LaterIs
  <2>3. Counted(l) /\ l.history # << >>
    <3> PICK gap \in Nat : gap = 1
      OBVIOUS
    <3>1. Counted(Later(tr[t], gap)) /\ Later(tr[t], gap).history = tr[t].history
      BY <1>0, LaterTimes
    <3> QED
      BY <1>0, <2>1, <3>1
  <2> HIDE DEF l
  <2>4. IsItem(h) /\ Fresh(h) /\ h.status = "Transfering"
    BY <2>2, UpdateHistoryIs, SameButtons DEF Fresh
  <2>5. Counted(h) /\ IsWindow(h.history)
    BY <2>2, <2>3, UpdateTimes
  <2> HIDE DEF h
  <2>6. SameTimes(h, j) /\ j.status = "Transfering"
    BY <2>4, OutputTimes, OutputInstantRateIs
  <2> HIDE DEF j
  <2>7. TimesInv(j)
    BY <2>5, <2>6, SameCounted DEF TimesInv, SameTimes
  <2> QED
    BY <2>1, <2>7, OneTimed
<1>12. ASSUME NEW t \in Transfers, Destroyed(t) PROVE HistoryInv'
  <2> DEFINE i == [Unborn EXCEPT !.status = "Gone"]
  <2>1. Counted(i) /\ i.history = << >>
    BY UnbornTimes
  <2>2. i.status = "Gone"
    BY DEF Unborn
  <2>3. Changes(t, i)
    BY <1>12 DEF Destroyed
  <2> HIDE DEF i
  <2>4. TimesInv(i)
    BY <2>1, <2>2 DEF TimesInv
  <2> QED
    BY <2>3, <2>4, OneTimed
<1>13. ASSUME NEW d \in Downloads, DownloadHandshake(d) PROVE HistoryInv'
  BY <1>2, <1>13 DEF DownloadHandshake
<1>14. ASSUME NEW u \in Uploads, UploadHandshake(u) PROVE HistoryInv'
  BY <1>2, <1>14 DEF UploadHandshake
<1>15. ASSUME NEW u \in Uploads, ReceiveAnswer(u) PROVE HistoryInv'
  BY <1>2, <1>3, <1>15 DEF ReceiveAnswer
<1>16. ASSUME NEW t \in Transfers, Fail(t) PROVE HistoryInv'
  BY <1>4, <1>16 DEF Fail
<1>17. ASSUME tr' = tr PROVE HistoryInv'
  BY <1>17 DEF HistoryInv
<1>18. ASSUME NEW d \in Downloads, ChangePath(d) \/ PathChosen(d) PROVE HistoryInv'
  BY <1>17, <1>18 DEF ChangePath, PathChosen
<1>19. ASSUME NEW t \in Transfers, Delete(t) PROVE HistoryInv'
  BY <1>17, <1>19 DEF Delete
<1>20. CASE UNCHANGED vars
  BY <1>17, <1>20 DEF vars
<1> QED
  BY <1>1, <1>5, <1>6, <1>7, <1>8, <1>9, <1>10, <1>11, <1>12, <1>13, <1>14, <1>15, <1>16, <1>18,
     <1>19, <1>20 DEF Next, DownloadStep, UploadStep, TransferStep

\* While a transfer runs, its history stays in order, has a rate to show after
\* its first update, and once large is not older than the window, however the
\* updates of the timer and those of the data follow each other (update_history).
THEOREM HistoryStaysAWindow == Spec => []HistoryIsAWindow
<1>1. IInv /\ HistoryInv => HistoryIsAWindow
  BY DEF IInv, Good, Settled, Still, HistoryInv, TimesInv, HistoryIsAWindow, IsWindow, Ordered
<1> QED
  BY <1>1, InitIInv, NextIInv, InitHistory, NextHistory, PTL DEF Spec

----------------------------------------------------------------------------
(* Buttons. *)

\* What is under a place of one of the two cells of a transfer.
Hit(i, cell, width, place) == Under(SupportedButtons, Cells(i)[cell], width, place)

\* Only "Delete" is left, and it was the first from the right.
LEMMA FewerButtons ==
  ASSUME NEW i, NEW j, i.status = "WaitingForUserChoice", j.status # "WaitingForUserChoice",
         NEW cell \in 1 .. 2, NEW width, NEW place
  PROVE  Hit(j, cell, width, place) \subseteq Hit(i, cell, width, place)
<1> DEFINE S == SupportedButtons
           few == Cells(j)[cell]
           all == Cells(i)[cell]
<1>1. /\ Len(S) = 4 /\ DOMAIN S = 1 .. 4
      /\ S[1] = "Accept" /\ S[2] = "Cancel" /\ S[3] = "Path" /\ S[4] = "Delete"
  BY DEF SupportedButtons
<1>2. /\ few = IF cell = 1 THEN {} ELSE {"Delete"}
      /\ cell = 2 => "Delete" \in all
  BY DEF Cells, Buttons
<1> HIDE DEF S, few, all
<1>3. ASSUME NEW b \in Under(S, few, width, place)
      PROVE  b \in Under(S, all, width, place)
  <2>1. PICK k \in DOMAIN S : S[k] = b /\ S[k] \in few /\ place <= width /\ Place(S, few, k) = place
    BY DEF Under
  <2>2. k = 4 /\ S[k] \in all
    BY <1>1, <1>2, <2>1
  <2>3. {n \in k .. Len(S) : S[n] \in few} = {n \in k .. Len(S) : S[n] \in all}
    BY <1>1, <2>1, <2>2
  <2>4. Place(S, all, k) = place
    BY <2>1, <2>3 DEF Place
  <2> QED
    BY <2>1, <2>2, <2>4 DEF Under
<1> QED
  BY <1>3 DEF S, few, all, Hit

\* No transfer of the list comes to wait for its user.
LEMMA NoneStartsToWait ==
  ASSUME IInv, [Next]_vars, NEW t \in Transfers, tr[t].listed, tr'[t].listed,
         tr'[t].status = "WaitingForUserChoice"
  PROVE  tr[t].status = "WaitingForUserChoice"
<1> USE DownloadsDiffer
<1> SUFFICES ASSUME tr[t].status # "WaitingForUserChoice" PROVE FALSE
  OBVIOUS
<1>0. /\ tr = [u \in Transfers |-> tr[u]]
      /\ \A u \in Transfers : IsItem(tr[u]) /\ Fresh(tr[u])
  BY DEF IInv, Good
<1>1. ASSUME NEW u \in Transfers, NEW i, Changes(u, i)
      PROVE  i.status = "WaitingForUserChoice" /\ u = t
  BY <1>0, <1>1 DEF Changes
<1>2. tr' # tr
  OBVIOUS
<1>3. ASSUME NEW u \in Transfers, NEW new \in {"WaitingForOffer", "WaitingForPeerAnswer", "Rejected"},
             Changes(u, StatusSet(tr[u], new))
      PROVE  FALSE
  <2>1. IsItem(tr[u]) /\ Fresh(tr[u]) /\ new # "None" /\ new # "WaitingForUserChoice"
    BY <1>0, <1>3
  <2>2. StatusSet(tr[u], new).status = new
    BY <2>1, StatusSetIs
  <2> QED
    BY <1>1, <1>3, <2>1, <2>2
<1>4. ASSUME NEW u \in Transfers, NEW i, IsItem(i), Fresh(i),
             Changes(u, Accepted(i)) \/ Changes(u, Failed(i)) \/ Changes(u, StatusSet(Failed(i), "Rejected"))
      PROVE  FALSE
  <2>1. Accepted(i).status = "Transfering" /\ Failed(i).status = "Error"
    BY <1>4, AcceptedIs, FailedIs
  <2>2. StatusSet(Failed(i), "Rejected").status = "Rejected"
    <3>1. IsItem(Failed(i)) /\ Fresh(Failed(i))
      BY <1>4, FailedIs DEF Good
    <3> QED
      BY <3>1, StatusSetIs
  <2> QED
    BY <1>1, <1>4, <2>1, <2>2
<1>5. ASSUME NEW d \in Downloads, NewConnection(d) PROVE FALSE
  BY <1>0, <1>1, <1>5 DEF NewConnection, IsItem
<1>6. ASSUME NEW d \in Downloads, HandedOver(d) PROVE FALSE
  <2>1. ~tr[d].listed
    BY <1>6 DEF HandedOver, IInv, Owned
  <2>2. \E i : Changes(d, i)
    BY <1>6 DEF HandedOver
  <2> QED
    BY <1>1, <2>1, <2>2
<1>7. ASSUME NEW u \in Uploads, RequestUpload(u) PROVE FALSE
  <2>1. tr[u].status = "None" /\ \E i : Changes(u, i)
    BY <1>7 DEF RequestUpload
  <2> QED
    BY <1>0, <1>1, <2>1 DEF IsItem
<1>8. ASSUME NEW u \in Transfers, tr[u].status = "Transfering",
             NEW i, i.status = "Transfering", Changes(u, i)
      PROVE  FALSE
  BY <1>1, <1>8
<1>9. ASSUME NEW u \in Transfers, MoveChunk(u) PROVE FALSE
  <2>1. tr[u].status = "Transfering"
    BY <1>9 DEF MoveChunk
  <2>2. PICK gap \in Gaps(u) :
          LET i == [Later(tr[u], gap) EXCEPT !.done = @ + 1]
          IN  Changes(u, MayProgress(i)) \/ Changes(u, i)
    BY <1>9 DEF MoveChunk
  <2> DEFINE l == Later(tr[u], gap)
             i == [l EXCEPT !.done = l.done + 1]
  <2>3. Changes(u, i) \/ Changes(u, MayProgress(i))
    BY <2>2
  <2>4. IsItem(l) /\ Fresh(l) /\ l.status = "Transfering"
    BY <1>0, <2>1, LaterIs
  <2> HIDE DEF l
  <2>5. IsItem(i) /\ Fresh(i) /\ i.status = "Transfering"
    BY <2>4, MovedIs
  <2> HIDE DEF i
  <2>6. MayProgress(i).status = "Transfering"
    BY <2>5, MayProgressIs
  <2> QED
    BY <1>8, <2>1, <2>3, <2>5, <2>6
<1>10. ASSUME NEW u \in Transfers, Complete(u) PROVE FALSE
  <2>1. PICK gap \in Gaps(u) :
          LET i == Later(tr[u], gap)
          IN  \/ Changes(u, StatusSet(TransferEnd(MayProgress(i)), "Completed"))
              \/ Changes(u, Failed(MayProgress(i)))
              \/ Changes(u, StatusSet(TransferEnd(i), "Completed"))
    BY <1>10 DEF Complete
  <2> DEFINE l == Later(tr[u], gap)
             m == MayProgress(l)
  <2>2. \/ \E k \in {l, m} : Changes(u, StatusSet(TransferEnd(k), "Completed"))
        \/ Changes(u, Failed(m))
    BY <2>1
  <2>3. IsItem(l) /\ Fresh(l)
    BY <1>0, LaterIs
  <2> HIDE DEF l
  <2>4. IsItem(m) /\ Fresh(m)
    BY <2>3, MayProgressIs
  <2> HIDE DEF m
  <2>5. ASSUME NEW k \in {l, m} PROVE StatusSet(TransferEnd(k), "Completed").status = "Completed"
    <3>1. IsItem(TransferEnd(k)) /\ Fresh(TransferEnd(k))
      BY <2>3, <2>4, TransferEndIs
    <3> QED
      BY <3>1, StatusSetIs
  <2> QED
    BY <1>1, <1>4, <2>2, <2>4, <2>5
<1>11. ASSUME NEW u \in Transfers, UpdateRate(u) PROVE FALSE
  <2> DEFINE l == Later(tr[u], 1)
             h == UpdateHistory(l)
             j == OutputInstantRate(h)
  <2>1. Changes(u, j) /\ tr[u].status = "Transfering"
    BY <1>11 DEF UpdateRate, IInv, Good, Settled, Still
  <2>2. IsItem(l) /\ Fresh(l) /\ l.status = "Transfering"
    BY <1>0, <2>1, LaterIs
  <2> HIDE DEF l
  <2>3. IsItem(h) /\ Fresh(h) /\ h.status = "Transfering"
    BY <2>2, UpdateHistoryIs, SameButtons DEF Fresh
  <2> HIDE DEF h
  <2>4. j.status = "Transfering"
    BY <2>3, OutputInstantRateIs
  <2> HIDE DEF j
  <2> QED
    BY <1>8, <2>1, <2>4
<1>12. ASSUME NEW u \in Transfers, Destroyed(u) PROVE FALSE
  <2>1. [Unborn EXCEPT !.status = "Gone"].status = "Gone"
    BY DEF Unborn
  <2> QED
    BY <1>1, <1>12, <2>1 DEF Destroyed
<1>13. ASSUME NEW d \in Downloads, DownloadHandshake(d) PROVE FALSE
  BY <1>3, <1>13 DEF DownloadHandshake
<1>14. ASSUME NEW u \in Uploads, UploadHandshake(u) PROVE FALSE
  BY <1>3, <1>14 DEF UploadHandshake
<1>15. ASSUME NEW u \in Uploads, ReceiveAnswer(u) PROVE FALSE
  BY <1>0, <1>3, <1>4, <1>15 DEF ReceiveAnswer
<1>16. ASSUME NEW u \in Transfers, Fail(u) PROVE FALSE
  BY <1>0, <1>4, <1>16 DEF Fail
<1>17. ASSUME NEW d \in Downloads, Accept(d) \/ Cancel(d) PROVE FALSE
  BY <1>0, <1>3, <1>4, <1>17 DEF Accept, Cancel
<1>18. ASSUME NEW u \in Transfers, ChangePath(u) \/ PathChosen(u) \/ Delete(u) PROVE FALSE
  BY <1>2, <1>18 DEF ChangePath, PathChosen, Delete
<1>19. ASSUME UNCHANGED vars PROVE FALSE
  BY <1>2, <1>19 DEF vars
<1> QED
  BY <1>5, <1>6, <1>7, <1>9, <1>10, <1>11, <1>12, <1>13, <1>14, <1>15, <1>16, <1>17, <1>18,
     <1>19 DEF Next, DownloadStep, UploadStep, TransferStep

\* The button that is left when the others go does not come under a click made
\* for another one (status_changed, editorEvent).
THEOREM ClicksHit == Spec => ClickHitsItsButton
<1> DEFINE Same(t) ==
      tr[t].listed /\ tr'[t].listed /\ Buttons(tr'[t]) # Buttons(tr[t]) =>
        \A cell \in 1 .. 2, width, place \in DOMAIN SupportedButtons :
          LET H(i) == Under(SupportedButtons, Cells(i)[cell], width, place)
          IN  H(tr'[t]) \subseteq H(tr[t])
<1>1. ASSUME IInv, [Next]_vars, NEW t \in Transfers PROVE Same(t)
  <2> SUFFICES ASSUME tr[t].listed, tr'[t].listed, Buttons(tr'[t]) # Buttons(tr[t]),
                      NEW cell \in 1 .. 2, NEW width, NEW place
               PROVE  Hit(tr'[t], cell, width, place) \subseteq Hit(tr[t], cell, width, place)
    BY DEF Hit
  <2>1. tr'[t].status = "WaitingForUserChoice" => tr[t].status = "WaitingForUserChoice"
    BY <1>1, NoneStartsToWait
  <2>2. tr[t].status = "WaitingForUserChoice" /\ tr'[t].status # "WaitingForUserChoice"
    BY <2>1 DEF Buttons
  <2> QED
    BY <2>2, FewerButtons
<1>2. IInv /\ [Next]_vars => [\A t \in Transfers : Same(t)]_vars
  BY <1>1
<1> QED
  BY <1>2, InitIInv, NextIInv, PTL DEF Spec, ClickHitsItsButton
=============================================================================
