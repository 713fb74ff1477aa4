---------------------------- MODULE Window_proofs ----------------------------
(***************************************************************************)
(* Proofs about ItemModel and Window, for any items and hosts: rows follow *)
(* their items, and a request for uploads reaches the peers it was made    *)
(* for.                                                                    *)
(***************************************************************************)
EXTENDS Window, SequenceTheorems, FiniteSetTheorems, TLAPS

----------------------------------------------------------------------------
(* The item model. *)

Unique(l) == \A j, k \in DOMAIN l : l[j] = l[k] => j = k

\* Rows Q of m hold what rows R of l hold.
SameItems(m, Q, l, R) == {m[r] : r \in Q} = {l[r] : r \in R}

LEMMA IsSeq ==
  ASSUME NEW S, NEW n \in Nat, NEW f \in [1 .. n -> S]
  PROVE  f \in Seq(S) /\ Len(f) = n /\ DOMAIN f = 1 .. n
<1>1. f \in Seq(S)
  BY SeqDef
<1>2. Len(f) \in Nat /\ DOMAIN f = 1 .. Len(f) /\ DOMAIN f = 1 .. n
  BY <1>1, LenProperties
<1> QED
  BY <1>1, <1>2

LEMMA InsertedIs ==
  ASSUME NEW S, NEW l \in Seq(S), NEW x \in S
  PROVE  LET m == InsertedAt(l, Len(l) + 1, x)
         IN  /\ m \in Seq(S) /\ Len(m) = Len(l) + 1
             /\ \A k \in 1 .. Len(l) : m[k] = l[k]
             /\ m[Len(l) + 1] = x
<1>1. Len(l) \in Nat /\ \A k \in 1 .. Len(l) : l[k] \in S
  BY LenProperties
<1>2. InsertedAt(l, Len(l) + 1, x) = [k \in 1 .. Len(l) + 1 |-> IF k <= Len(l) THEN l[k] ELSE x]
  BY <1>1 DEF InsertedAt
<1> QED
  BY <1>1, <1>2, IsSeq

LEMMA RemovedIs ==
  ASSUME NEW S, NEW l \in Seq(S), NEW i \in DOMAIN l
  PROVE  LET m == RemovedAt(l, i)
         IN  /\ m \in Seq(S) /\ Len(m) = Len(l) - 1 /\ DOMAIN m = 1 .. Len(l) - 1
             /\ \A k \in 1 .. Len(l) - 1 : m[k] = IF k < i THEN l[k] ELSE l[k + 1]
<1>1. Len(l) \in Nat /\ i \in 1 .. Len(l) /\ \A k \in 1 .. Len(l) : l[k] \in S
  BY LenProperties
<1>2. Len(l) - 1 \in Nat /\ RemovedAt(l, i) \in [1 .. Len(l) - 1 -> S]
  BY <1>1 DEF RemovedAt
<1> QED
  BY <1>1, <1>2, IsSeq DEF RemovedAt

LEMMA IndexOfIs ==
  ASSUME NEW S, NEW l \in Seq(S), Unique(l), NEW i \in DOMAIN l
  PROVE  IndexOf(l, l[i]) = i
<1>1. Len(l) \in Nat /\ DOMAIN l = 1 .. Len(l)
  BY LenProperties
<1>2. \A j \in 1 .. i - 1 : l[j] # l[i]
  BY <1>1 DEF Unique
<1>3. \E k \in DOMAIN l : l[k] = l[i] /\ \A j \in 1 .. k - 1 : l[j] # l[i]
  BY <1>2
<1>4. LET k == IndexOf(l, l[i]) IN k \in DOMAIN l /\ l[k] = l[i]
  BY <1>3 DEF IndexOf
<1> QED
  BY <1>4 DEF Unique

\* The rows left after a removal hold the items they held.
LEMMA RowsFollowRemoval ==
  ASSUME NEW S, NEW l \in Seq(S), NEW i \in DOMAIN l, NEW R \in SUBSET DOMAIN l
  PROVE  LET m == RemovedAt(l, i)
             Q == RowsAfterRemove(R, i)
         IN  /\ Q \subseteq DOMAIN m
             /\ SameItems(m, Q, l, R \ {i})
<1> DEFINE m == RemovedAt(l, i)
           Moved(r) == IF r < i THEN r ELSE r - 1
<1>1. Len(l) \in Nat /\ DOMAIN l = 1 .. Len(l)
  BY LenProperties
<1>2. \A r \in R \ {i} : Moved(r) \in 1 .. Len(l) - 1 /\ m[Moved(r)] = l[r]
  <2> TAKE r \in R \ {i}
  <2>1. r \in 1 .. Len(l) /\ i \in 1 .. Len(l) /\ r # i
    BY <1>1
  <2>2. \A k \in 1 .. Len(l) - 1 : m[k] = IF k < i THEN l[k] ELSE l[k + 1]
    BY RemovedIs
  <2> HIDE DEF m
  <2>3. CASE r < i
    BY <1>1, <2>1, <2>2, <2>3
  <2>4. CASE r > i
    <3>1. r - 1 \in 1 .. Len(l) - 1 /\ ~(r - 1 < i) /\ (r - 1) + 1 = r
      BY <1>1, <2>1, <2>4
    <3> QED
      BY <2>2, <2>4, <3>1
  <2> QED
    BY <1>1, <2>1, <2>3, <2>4
<1>3. RowsAfterRemove(R, i) = {Moved(r) : r \in R \ {i}}
  BY DEF RowsAfterRemove
<1>4. DOMAIN m = 1 .. Len(l) - 1
  BY RemovedIs
<1> HIDE DEF m, Moved
<1>5. {m[r] : r \in {Moved(r) : r \in R \ {i}}} = {l[r] : r \in R \ {i}}
  BY <1>2
<1> QED
  BY <1>2, <1>3, <1>4, <1>5 DEF m, SameItems

\* The rows left alone by an append hold the items they held.
LEMMA RowsFollowAppend ==
  ASSUME NEW S, NEW l \in Seq(S), NEW x \in S, NEW R \in SUBSET DOMAIN l
  PROVE  LET m == InsertedAt(l, Len(l) + 1, x)
         IN  /\ RowsAfterInsert(R, Len(l) + 1) = R
             /\ R \subseteq DOMAIN m
             /\ SameItems(m, R, l, R)
<1> DEFINE m == InsertedAt(l, Len(l) + 1, x)
<1>1. Len(l) \in Nat /\ DOMAIN l = 1 .. Len(l)
  BY LenProperties
<1>2. RowsAfterInsert(R, Len(l) + 1) = R
  <2>1. \A r \in R : r < Len(l) + 1
    BY <1>1
  <2> QED
    BY <2>1 DEF RowsAfterInsert
<1>3. DOMAIN m = 1 .. Len(l) + 1 /\ \A k \in 1 .. Len(l) : m[k] = l[k]
  BY <1>1, InsertedIs DEF InsertedAt
<1> HIDE DEF m
<1>4. \A r \in R : m[r] = l[r]
  BY <1>1, <1>3
<1> QED
  BY <1>1, <1>2, <1>3, <1>4 DEF m, SameItems

\* sort: the rows found for the items are the rows of the items.
LEMMA RowsFollowSort ==
  ASSUME NEW S, NEW l \in Seq(S), Unique(l), NEW R \in SUBSET DOMAIN l,
         NEW p \in [DOMAIN l -> DOMAIN l], {p[k] : k \in DOMAIN l} = DOMAIN l
  PROVE  LET m == [k \in 1 .. Len(l) |-> l[p[k]]]
             Q == RowsAfterSort(l, m, R)
         IN  /\ m \in Seq(S) /\ Unique(m) /\ DOMAIN m = DOMAIN l
             /\ \A k \in DOMAIN l : \E j \in DOMAIN l : m[k] = l[j]
             /\ Q \subseteq DOMAIN m
             /\ SameItems(m, Q, l, R)
<1> DEFINE m == [k \in 1 .. Len(l) |-> l[p[k]]]
           D == 1 .. Len(l)
<1>1. Len(l) \in Nat /\ DOMAIN l = D /\ \A k \in D : l[k] \in S
  BY LenProperties
<1>2. m \in Seq(S) /\ DOMAIN m = D /\ \A k \in D : m[k] = l[p[k]]
  BY <1>1, IsSeq
<1>3. \A j, k \in D : p[j] = p[k] => j = k
  <2>1. p \in Surjection(D, D)
    <3>1. \A t \in D : \E k \in D : p[k] = t
      BY <1>1
    <3> QED
      BY <1>1, <3>1 DEF Surjection
  <2>2. IsFiniteSet(D)
    BY <1>1, FS_Interval
  <2>3. p \in Injection(D, D)
    BY <2>1, <2>2, FS_SurjSameCardinalityImpliesInj
  <2> QED
    BY <2>3 DEF Injection, IsInjective
<1> HIDE DEF m
<1>4. Unique(m)
  BY <1>1, <1>2, <1>3, SMTT(30) DEF Unique
<1>5. \A r \in R : \E k \in DOMAIN m : m[k] = l[r]
  BY <1>1, <1>2
<1>6. \A r \in R : IndexOf(m, l[r]) \in DOMAIN m /\ m[IndexOf(m, l[r])] = l[r]
  BY <1>2, <1>4, <1>5, IndexOfIs
<1>7. RowsAfterSort(l, m, R) \subseteq DOMAIN m
  BY <1>6 DEF RowsAfterSort
<1>8. {m[r] : r \in RowsAfterSort(l, m, R)} = {l[r] : r \in R}
  BY <1>6 DEF RowsAfterSort
<1> QED
  BY <1>1, <1>2, <1>4, <1>7, <1>8 DEF m, SameItems

----------------------------------------------------------------------------
(* The window. *)

ListInv ==
  /\ fresh \subseteq Items /\ list \in Seq(Items) /\ Unique(list)
  /\ \A k \in DOMAIN list : list[k] \notin fresh

SelectionInv == selected \subseteq DOMAIN list /\ SelectionFollows /\ EnabledMeansSelected

\* A request between its start and its end, as long as nothing interferes.
RequestInv ==
  /\ drop.urls \in Nat
  /\ pc \in {"Loop", "Dialog"} => rows = {} /\ served = {} /\ drop.urls = 0
  /\ ~disturbed =>
       /\ pc # "Crashed"
       /\ pc \in {"Send", "Collect"} =>
            /\ \A r \in rows : r \in DOMAIN list /\ IsValid(list[r])
            /\ drop.urls > 0 => drop.item \in Listed /\ IsValid(drop.item)
            /\ wanted = {list[r] : r \in rows} \cup {u.item : u \in served}
                         \cup (IF pc = "Collect" THEN {target.item} ELSE {})
                         \cup (IF drop.urls > 0 THEN {drop.item} ELSE {})
       /\ pc = "Collect" =>
            IF target.copied THEN target.known
            ELSE target.item \in Listed /\ IsValid(target.item)
       /\ \A u \in served : u.known

IInv == ListInv /\ SelectionInv /\ RequestInv

LEMMA InitIInv == Init => IInv
<1> SUFFICES ASSUME Init PROVE IInv
  OBVIOUS
<1>1. list = << >> /\ DOMAIN list = {} /\ list \in Seq(Items)
  BY EmptySeq DEF Init
<1>2. ListInv
  BY <1>1 DEF Init, ListInv, Unique
<1>3. SelectionInv
  BY <1>1 DEF Init, SelectionInv, SelectionFollows, EnabledMeansSelected
<1>4. RequestInv
  BY DEF Init, RequestInv, NoDrop
<1> QED
  BY <1>2, <1>3, <1>4 DEF IInv

\* Events leave the request alone, and end its record while its files are collected.
LEMMA EventKeepsRequest ==
  ASSUME RequestInv, Handling, Notes, UNCHANGED request
  PROVE  RequestInv'
<1>1. CASE pc = "Collect"
  BY <1>1 DEF RequestInv, Notes, request
<1>2. CASE pc \in {"Loop", "Dialog"}
  BY <1>2 DEF RequestInv, Notes, request, record
<1> QED
  BY <1>1, <1>2 DEF Handling

LEMMA SelectionInvUnchanged ==
  ASSUME ListInv, SelectionInv, UNCHANGED <<fresh, list, view>>
  PROVE  ListInv' /\ SelectionInv'
BY DEF ListInv, SelectionInv, SelectionFollows, EnabledMeansSelected, view, Unique

LEMMA AppendKeeps ==
  ASSUME ListInv, SelectionInv, NEW i \in Items \cap fresh, AppendItem(i),
         UNCHANGED <<enabled, chosen>>
  PROVE  ListInv' /\ SelectionInv'
<1> USE DEF ListInv
<1>1. Len(list) \in Nat /\ DOMAIN list = 1 .. Len(list)
  BY LenProperties
<1>2. /\ list' \in Seq(Items) /\ Len(list') = Len(list) + 1
      /\ \A k \in 1 .. Len(list) : list'[k] = list[k]
      /\ list'[Len(list) + 1] = i
  <2>1. list \in Seq(Items) /\ i \in Items
    OBVIOUS
  <2>2. list' = InsertedAt(list, Len(list) + 1, i)
    BY DEF AppendItem
  <2> QED
    <3> HIDE DEF ListInv
    <3>1. LET m == InsertedAt(list, Len(list) + 1, i)
          IN  /\ m \in Seq(Items) /\ Len(m) = Len(list) + 1
              /\ \A k \in 1 .. Len(list) : m[k] = list[k]
              /\ m[Len(list) + 1] = i
      BY <2>1, InsertedIs
    <3> QED
      BY <2>2, <3>1
<1>3. DOMAIN list' = 1 .. Len(list) + 1
  BY <1>2, LenProperties
<1>4. Unique(list')
  BY <1>1, <1>2, <1>3 DEF Unique
<1>5. \A k \in DOMAIN list' : list'[k] \notin fresh'
  BY <1>1, <1>2, <1>3, <1>4 DEF AppendItem, Unique
<1>6. /\ selected' = selected /\ selected \subseteq DOMAIN list'
      /\ {list'[r] : r \in selected} = {list[r] : r \in selected}
  <2>1. list \in Seq(Items) /\ i \in Items /\ selected \in SUBSET DOMAIN list
    BY DEF SelectionInv
  <2>2. /\ list' = InsertedAt(list, Len(list) + 1, i)
        /\ selected' = RowsAfterInsert(selected, Len(list) + 1)
    BY DEF AppendItem
  <2> QED
    <3> HIDE DEF ListInv
    <3>1. LET m == InsertedAt(list, Len(list) + 1, i)
          IN  /\ RowsAfterInsert(selected, Len(list) + 1) = selected
              /\ selected \subseteq DOMAIN m
              /\ SameItems(m, selected, list, selected)
      BY <2>1, RowsFollowAppend
    <3> QED
      BY <2>2, <3>1 DEF SameItems
<1> QED
  BY <1>2, <1>4, <1>5, <1>6 DEF AppendItem, SelectionInv, SelectionFollows, EnabledMeansSelected

LEMMA DestroyKeeps ==
  ASSUME ListInv, SelectionInv, NEW i, Destroyed(i)
  PROVE  ListInv' /\ SelectionInv'
<1> USE DEF ListInv
<1>1. PICK r \in DOMAIN list : list[r] = i
  BY DEF Destroyed, Listed
<1>2. IndexOf(list, i) = r
  BY <1>1, IndexOfIs
<1>3. /\ list' = RemovedAt(list, r) /\ selected' = RowsAfterRemove(selected, r)
      /\ enabled' = (enabled /\ r \notin selected) /\ chosen' = chosen \ {i}
      /\ fresh' = fresh
  BY <1>2 DEF Destroyed
<1>4. Len(list) \in Nat /\ DOMAIN list = 1 .. Len(list)
  BY LenProperties
<1>5. /\ list' \in Seq(Items) /\ DOMAIN list' = 1 .. Len(list) - 1
      /\ \A k \in 1 .. Len(list) - 1 : list'[k] = IF k < r THEN list[k] ELSE list[k + 1]
  BY <1>3, RemovedIs
<1>6. Unique(list')
  <2>1. \A k \in DOMAIN list' :
          \E j \in DOMAIN list : /\ list'[k] = list[j]
                                /\ j = IF k < r THEN k ELSE k + 1
    BY <1>4, <1>5
  <2>2. r \in Int /\ DOMAIN list' \subseteq Int
    BY <1>4, <1>5
  <2> QED
    BY <2>1, <2>2 DEF Unique
<1>7. \A k \in DOMAIN list' : list'[k] \notin fresh'
  BY <1>3, <1>4, <1>5
<1>8. /\ selected' \subseteq DOMAIN list'
      /\ {list'[q] : q \in selected'} = {list[q] : q \in selected \ {r}}
  <2>1. list \in Seq(Items) /\ selected \in SUBSET DOMAIN list
    BY DEF SelectionInv
  <2> QED
    <3> HIDE DEF ListInv
    <3>1. LET m == RemovedAt(list, r)
              Q == RowsAfterRemove(selected, r)
          IN  /\ Q \subseteq DOMAIN m
              /\ SameItems(m, Q, list, selected \ {r})
      BY <2>1, RowsFollowRemoval
    <3> QED
      BY <1>3, <3>1 DEF SameItems
<1>9. {list[q] : q \in selected \ {r}} = chosen \ {i}
  BY <1>1 DEF SelectionInv, SelectionFollows, Unique
<1>10. SelectionFollows'
  BY <1>3, <1>8, <1>9 DEF SelectionFollows
<1>11. EnabledMeansSelected'
  <2>1. enabled' => selected # {} /\ r \notin selected
    BY <1>3 DEF SelectionInv, EnabledMeansSelected
  <2>2. selected # {} /\ r \notin selected => selected' # {}
    BY <1>3 DEF RowsAfterRemove
  <2> QED
    BY <2>1, <2>2 DEF EnabledMeansSelected
<1>12. fresh' \subseteq Items
  BY <1>3
<1> QED
  BY <1>5, <1>6, <1>7, <1>8, <1>10, <1>11, <1>12 DEF SelectionInv

LEMMA SortKeeps ==
  ASSUME ListInv, SelectionInv, Sort
  PROVE  ListInv' /\ SelectionInv'
<1> USE DEF ListInv
<1>1. PICK p \in Orders : /\ list' = [k \in 1 .. Len(list) |-> list[p[k]]]
                         /\ selected' = RowsAfterSort(list, list', selected)
  BY DEF Sort
<1>2. p \in [DOMAIN list -> DOMAIN list] /\ {p[k] : k \in DOMAIN list} = DOMAIN list
  BY DEF Orders
<1>3. /\ list' \in Seq(Items) /\ Unique(list') /\ DOMAIN list' = DOMAIN list
      /\ \A k \in DOMAIN list : \E j \in DOMAIN list : list'[k] = list[j]
      /\ selected' \subseteq DOMAIN list'
      /\ {list'[r] : r \in selected'} = {list[r] : r \in selected}
  <2>1. list \in Seq(Items) /\ Unique(list) /\ selected \in SUBSET DOMAIN list
    BY DEF SelectionInv
  <2> QED
    <3> HIDE DEF ListInv
    <3> DEFINE m == [k \in 1 .. Len(list) |-> list[p[k]]]
               Q == RowsAfterSort(list, m, selected)
    <3>1. /\ m \in Seq(Items) /\ Unique(m) /\ DOMAIN m = DOMAIN list
          /\ \A k \in DOMAIN list : \E j \in DOMAIN list : m[k] = list[j]
          /\ Q \subseteq DOMAIN m
          /\ SameItems(m, Q, list, selected)
      BY <1>2, <2>1, RowsFollowSort, ZenonT(60)
    <3>2. list' = m /\ selected' = Q
      BY <1>1
    <3> HIDE DEF m, Q
    <3> QED
      BY <3>1, <3>2 DEF SameItems
<1>4. UNCHANGED <<fresh, enabled, chosen>>
  BY DEF Sort
<1>5. \A k \in DOMAIN list' : list'[k] \notin fresh'
  BY <1>3, <1>4
<1>6. selected # {} => selected' # {}
  BY <1>1 DEF RowsAfterSort
<1> QED
  BY <1>3, <1>4, <1>5, <1>6 DEF SelectionInv, SelectionFollows, EnabledMeansSelected

LEMMA NextIInv == IInv /\ [Next]_vars => IInv'
<1> SUFFICES ASSUME IInv, [Next]_vars PROVE IInv'
  OBVIOUS
<1> USE DEF IInv
<1>1. ASSUME NEW i \in Items, NewDiscoveredPeer(i) PROVE IInv'
  BY <1>1, AppendKeeps, EventKeepsRequest DEF NewDiscoveredPeer
<1>2. ASSUME NEW i \in Items, NewManualPeer(i) PROVE IInv'
  BY <1>2, AppendKeeps, EventKeepsRequest DEF NewManualPeer, UserMayAct, Handling
<1>3. ASSUME NEW i \in Items, HostnameChanged(i) PROVE IInv'
  BY <1>3, SelectionInvUnchanged, EventKeepsRequest DEF HostnameChanged
<1>4. ASSUME NEW i \in Items, AddressLookupComplete(i) PROVE IInv'
  BY <1>4, SelectionInvUnchanged, EventKeepsRequest DEF AddressLookupComplete
<1>5. ASSUME NEW i \in Items, Edit(i) PROVE IInv'
  BY <1>5, SelectionInvUnchanged, EventKeepsRequest DEF Edit, UserMayAct, Handling
<1>6. ASSUME NEW i \in Items, ButtonClicked(i) PROVE IInv'
  BY <1>6, SelectionInvUnchanged, EventKeepsRequest DEF ButtonClicked, UserMayAct, Handling
<1>7. ASSUME NEW i \in Items, Destroyed(i) PROVE IInv'
  BY <1>7, DestroyKeeps, EventKeepsRequest DEF Destroyed
<1>8. CASE SelectionChanged
  <2>1. RequestInv'
    BY <1>8, EventKeepsRequest DEF SelectionChanged, UserMayAct, Handling
  <2>2. ListInv'
    BY <1>8 DEF SelectionChanged, data, ListInv, Unique
  <2>3. SelectionInv'
    BY <1>8 DEF SelectionChanged, data, Enables, SelectionInv, SelectionFollows,
       EnabledMeansSelected
  <2> QED
    BY <2>1, <2>2, <2>3
<1>9. CASE Sort
  BY <1>9, SortKeeps, EventKeepsRequest DEF Sort, UserMayAct, Handling
\* The steps of a request change neither the list nor the selection.
<1>10. ASSUME UNCHANGED <<data, view>> PROVE ListInv' /\ SelectionInv'
  BY <1>10, SelectionInvUnchanged DEF data
<1>11. CASE ActionSendClicked \/ DialogCancelled
  BY <1>10, <1>11 DEF ActionSendClicked, DialogCancelled, RequestInv
<1>12. CASE DialogAccepted
  BY <1>10, <1>12 DEF DialogAccepted, RequestInv, SelectionInv, IsValid, data
<1>13. CASE RequestUpload
  BY <1>10, <1>13 DEF RequestUpload, RequestInv, NoTarget, IsValid, Listed, data
<1>14. CASE RequestsEnd
  BY <1>10, <1>14 DEF RequestsEnd, RequestInv
<1>15. ASSUME NEW i \in Items, DropMimeData(i) PROVE IInv'
  <2>1. PICK n \in 1 .. MaxUrls : drop' = [item |-> i, urls |-> n]
    BY <1>15 DEF DropMimeData
  <2>2. drop'.item = i /\ drop'.urls > 0 /\ drop'.urls \in Nat
    BY <2>1, WindowAssumption
  <2>3. /\ pc' = "Send" /\ wanted' = {i} /\ rows' = {} /\ served' = {}
        /\ i \in Listed' /\ IsValid(i)'
    BY <1>15 DEF DropMimeData, RequestInv, IsValid, Listed, data
  <2>4. RequestInv'
    BY <2>2, <2>3 DEF RequestInv
  <2> QED
    BY <1>10, <1>15, <2>4 DEF DropMimeData
<1>16. ASSUME NEW known, Serve(known), pc = "Collect", ~disturbed => known,
               UNCHANGED <<data, view, rows, drop, wanted, disturbed>>
       PROVE  IInv'
  <2>1. CASE disturbed
    BY <1>10, <1>16, <2>1 DEF Serve, RequestInv
  <2>2. CASE ~disturbed
    <3> DEFINE new == [item |-> target.item, known |-> known]
    <3>1. new.item = target.item /\ new.known = known
      OBVIOUS
    <3>2. served' = served \cup {new} /\ pc' = "Send"
      BY <1>16, <2>2 DEF Serve
    <3> HIDE DEF new
    <3>3. {u.item : u \in served'} = {u.item : u \in served} \cup {target.item}
      BY <3>1, <3>2
    <3>4. \A u \in served' : u.known
      BY <1>16, <2>2, <3>1, <3>2 DEF RequestInv
    <3>5. /\ \A r \in rows : IsValid(list[r])' = IsValid(list[r])
          /\ IsValid(drop.item)' = IsValid(drop.item) /\ Listed' = Listed
      BY <1>16 DEF IsValid, data, Listed
    <3>6. RequestInv'
      BY <1>16, <2>2, <3>2, <3>3, <3>4, <3>5 DEF RequestInv, data
    <3> QED
      BY <1>10, <1>16, <3>6
  <2> QED
    BY <2>1, <2>2
<1>17. CASE SetPayloadFails
  BY <1>16, <1>17 DEF SetPayloadFails
<1>18. CASE UploadConnects
  <2>1. ASSUME target.copied, Serve(target.known) PROVE IInv'
    BY <1>16, <1>18, <2>1 DEF UploadConnects, RequestInv
  <2>2. ASSUME ~target.copied, target.item \in Listed, Serve(peer[target.item].addr # Null)
        PROVE  IInv'
    BY <1>16, <1>18, <2>2 DEF UploadConnects, RequestInv, IsValid
  <2>3. ASSUME ~target.copied, target.item \notin Listed, pc' = "Crashed",
               UNCHANGED <<target, served>>
        PROVE  IInv'
    BY <1>10, <1>18, <2>3 DEF UploadConnects, RequestInv
  <2> QED
    BY <1>18, <2>1, <2>2, <2>3 DEF UploadConnects
<1>19. CASE DropUrl
  <2>1. drop.urls > 0 /\ drop.urls \in Nat /\ pc = "Send"
    BY <1>19 DEF DropUrl, RequestInv
  <2>2. drop'.urls \in Nat /\ (drop'.urls > 0 => drop'.item = drop.item)
    BY <1>19, <2>1 DEF DropUrl, NoDrop
  <2>3. CASE disturbed
    BY <1>10, <1>19, <2>2, <2>3 DEF DropUrl, RequestInv
  <2>4. CASE ~disturbed
    <3>1. drop.item \in Listed /\ IsValid(drop.item)
      BY <2>1, <2>4 DEF RequestInv
    <3>2. /\ pc' = "Collect" /\ target'.item = drop.item /\ target'.copied /\ target'.known
          /\ UNCHANGED <<data, view, rows, served, wanted, disturbed>>
      <4>1. /\ pc' = "Collect"
            /\ target' = [item |-> drop.item, known |-> peer[drop.item].addr # Null,
                          copied |-> TRUE]
            /\ UNCHANGED <<data, view, rows, served, wanted, disturbed>>
        BY <1>19, <3>1 DEF DropUrl
      <4>2. peer[drop.item].addr # Null
        BY <3>1 DEF IsValid
      <4> QED
        BY <4>1, <4>2
    <3>3. /\ \A r \in rows : IsValid(list[r])' = IsValid(list[r])
          /\ Listed' = Listed /\ (drop'.urls > 0 => IsValid(drop.item)')
      BY <2>2, <3>1, <3>2 DEF IsValid, data, Listed
    <3>4. /\ \A r \in rows : r \in DOMAIN list /\ IsValid(list[r])
          /\ wanted = {list[r] : r \in rows} \cup {u.item : u \in served} \cup {drop.item}
          /\ \A u \in served : u.known
      BY <2>1, <2>4 DEF RequestInv
    <3>5. RequestInv'
      BY <2>2, <2>4, <3>1, <3>2, <3>3, <3>4 DEF RequestInv, data
    <3> QED
      BY <1>10, <3>2, <3>5
  <2> QED
    BY <2>3, <2>4
<1>20. CASE UNCHANGED vars
  BY <1>10, <1>20 DEF vars, data, view, RequestInv, IsValid, Listed
<1> QED
  BY <1>1, <1>2, <1>3, <1>4, <1>5, <1>6, <1>7, <1>8, <1>9, <1>11, <1>12, <1>13, <1>14, <1>15,
     <1>17, <1>18, <1>19, <1>20 DEF Next, ItemStep

\* The selected rows hold the items the user selected, after any sequence of
\* appends, removals and sorts (StructItemModel::remove_at, sort).
THEOREM SelectionIsKept == Spec => []SelectionFollows
<1>1. IInv => SelectionFollows
  BY DEF IInv, SelectionInv
<1> QED
  BY <1>1, InitIInv, NextIInv, PTL DEF Spec

\* The send actions are enabled only with a selection (selectionChanged).
THEOREM ActionsNeedSelection == Spec => []EnabledMeansSelected
<1>1. IInv => EnabledMeansSelected
  BY DEF IInv, SelectionInv
<1> QED
  BY <1>1, InitIInv, NextIInv, PTL DEF Spec

\* Undisturbed, a request serves those it was made for, at addresses that are
\* known, without using a row or a peer that is gone (action_send_file_clicked, request_upload).
THEOREM RequestsAreServed == Spec => []UploadsReachSelection
<1>1. IInv => UploadsReachSelection
  BY DEF IInv, RequestInv, UploadsReachSelection
<1> QED
  BY <1>1, InitIInv, NextIInv, PTL DEF Spec

----------------------------------------------------------------------------
(* Addresses. *)

Named == Hosts \cup {Typed}
Fields == [host : Named \cup {Null}, addr : Named \cup {Null}, filled : BOOLEAN]
Lookup == [host : Named, old : BOOLEAN]

\* A peer with its lookups, and what is known of the one that gave its address.
Settled(p, l, a) ==
  /\ \A k \in DOMAIN l : ~l[k].old => l[k].host = p.host
  /\ a = "None" => p.addr = Null
  /\ a = "Newest" => p.addr = p.host

AddressInv ==
  /\ peer \in [Items -> Fields] /\ lookups \in [Items -> Seq(Lookup)]
  /\ answered \in [Discovered -> {"None", "Newest", "Older"}]
  /\ \A i \in Discovered \cap Listed : Settled(peer[i], lookups[i], answered[i])

\* Of the lookups, only the one just asked for is not old.
LEMMA AskedIs ==
  ASSUME NEW l \in Seq(Lookup), NEW h \in Named
  PROVE  /\ Asked(l, h) \in Seq(Lookup)
         /\ \A k \in DOMAIN Asked(l, h) : ~Asked(l, h)[k].old => Asked(l, h)[k].host = h
<1> DEFINE m == [k \in DOMAIN l |-> [l[k] EXCEPT !.old = TRUE]]
           new == [host |-> h, old |-> FALSE]
<1>1. Len(l) \in Nat /\ DOMAIN l = 1 .. Len(l) /\ \A k \in DOMAIN l : l[k] \in Lookup
  BY LenProperties
<1>2. \A k \in DOMAIN l : m[k] \in Lookup /\ m[k].old
  BY <1>1 DEF Lookup
<1>3. m \in [1 .. Len(l) -> Lookup]
  BY <1>1, <1>2
<1> HIDE DEF m
<1>4. m \in Seq(Lookup) /\ Len(m) = Len(l) /\ DOMAIN m = 1 .. Len(l)
  BY <1>1, <1>3, IsSeq
<1>5. new \in Lookup /\ new.host = h
  BY DEF Lookup
<1> HIDE DEF new
<1>6. /\ Append(m, new) \in Seq(Lookup) /\ DOMAIN Append(m, new) = 1 .. Len(l) + 1
      /\ \A k \in 1 .. Len(l) : Append(m, new)[k] = m[k]
      /\ Append(m, new)[Len(l) + 1] = new
  BY <1>1, <1>4, <1>5, AppendProperties
<1>7. PICK q : q = Append(m, new)
  OBVIOUS
<1>8. ASSUME NEW k \in DOMAIN q, ~q[k].old PROVE q[k].host = h
  <2>1. k \in 1 .. Len(l) \/ k = Len(l) + 1
    BY <1>1, <1>6, <1>7
  <2>2. k \notin 1 .. Len(l)
    BY <1>1, <1>2, <1>6, <1>7, <1>8
  <2> QED
    BY <1>5, <1>6, <1>7, <2>1, <2>2
<1>9. Asked(l, h) = q
  BY <1>7 DEF Asked, m, new
<1> QED
  BY <1>6, <1>7, <1>8, <1>9

\* The lookups left by an answer are those that were there.
LEMMA AnsweredIs ==
  ASSUME NEW l \in Seq(Lookup), NEW k \in DOMAIN l
  PROVE  /\ l[k] \in Lookup /\ RemovedAt(l, k) \in Seq(Lookup)
         /\ \A j \in DOMAIN RemovedAt(l, k) : \E n \in DOMAIN l : RemovedAt(l, k)[j] = l[n]
<1>1. Len(l) \in Nat /\ DOMAIN l = 1 .. Len(l) /\ l[k] \in Lookup
  BY LenProperties
<1>2. PICK m : m = RemovedAt(l, k)
  OBVIOUS
<1>3. /\ m \in Seq(Lookup) /\ DOMAIN m = 1 .. Len(l) - 1
      /\ \A j \in 1 .. Len(l) - 1 : m[j] = IF j < k THEN l[j] ELSE l[j + 1]
  BY <1>1, <1>2, RemovedIs
<1>4. \A j \in DOMAIN m : \E n \in DOMAIN l : m[j] = l[n]
  <2> TAKE j \in DOMAIN m
  <2>1. j \in DOMAIN l /\ j + 1 \in DOMAIN l
    BY <1>1, <1>3
  <2> QED
    BY <1>3, <2>1
<1> QED
  BY <1>1, <1>2, <1>3, <1>4

LEMMA InitAddress == Init => AddressInv
<1> SUFFICES ASSUME Init PROVE AddressInv
  OBVIOUS
<1>1. Listed = {}
  BY EmptySeq DEF Init, Listed
<1>2. << >> \in Seq(Lookup)
  BY EmptySeq
<1> QED
  BY <1>1, <1>2 DEF Init, AddressInv, Fields, NoPeer

\* What an append and a removal do to the items of the list.
LEMMA AppendLists ==
  ASSUME ListInv, SelectionInv, NEW i \in Items \cap fresh, AppendItem(i),
         UNCHANGED <<enabled, chosen>>
  PROVE  Listed' = Listed \cup {i}
<1>1. Len(list) \in Nat /\ DOMAIN list = 1 .. Len(list) /\ list \in Seq(Items) /\ i \in Items
  BY LenProperties DEF ListInv
<1>2. list' = InsertedAt(list, Len(list) + 1, i)
  BY DEF AppendItem
<1>3. /\ list' \in Seq(Items) /\ Len(list') = Len(list) + 1
      /\ \A k \in 1 .. Len(list) : list'[k] = list[k]
      /\ list'[Len(list) + 1] = i
  <2>1. LET m == InsertedAt(list, Len(list) + 1, i)
        IN  /\ m \in Seq(Items) /\ Len(m) = Len(list) + 1
            /\ \A k \in 1 .. Len(list) : m[k] = list[k]
            /\ m[Len(list) + 1] = i
    <3>1. list \in Seq(Items) /\ i \in Items
      BY <1>1
    <3> QED
      BY <3>1, InsertedIs
  <2> QED
    BY <1>2, <2>1
<1>4. DOMAIN list' = 1 .. Len(list) + 1
  BY <1>3, LenProperties
<1> QED
  BY <1>1, <1>3, <1>4 DEF Listed

LEMMA DestroyLists ==
  ASSUME ListInv, NEW i, Destroyed(i)
  PROVE  Listed' \subseteq Listed \ {i}
<1>1. PICK r \in DOMAIN list : list[r] = i
  BY DEF Destroyed, Listed
<1>2. list' = RemovedAt(list, r)
  BY <1>1, IndexOfIs DEF Destroyed, ListInv
<1>3. Len(list) \in Nat /\ DOMAIN list = 1 .. Len(list)
  BY LenProperties DEF ListInv
<1>4. /\ DOMAIN list' = 1 .. Len(list) - 1
      /\ \A k \in 1 .. Len(list) - 1 : list'[k] = IF k < r THEN list[k] ELSE list[k + 1]
  BY <1>2, RemovedIs DEF ListInv
<1>5. ASSUME NEW k \in DOMAIN list'
      PROVE  list'[k] \in Listed \ {i}
  <2>1. PICK j : j = IF k < r THEN k ELSE k + 1
    OBVIOUS
  <2>2. j \in DOMAIN list /\ j # r /\ list'[k] = list[j]
    BY <1>3, <1>4, <2>1
  <2> QED
    BY <1>1, <2>2 DEF Listed, ListInv, Unique
<1> QED
  BY <1>5 DEF Listed

LEMMA SortLists ==
  ASSUME ListInv, SelectionInv, Sort
  PROVE  Listed' \subseteq Listed
<1>1. PICK p \in Orders : list' = [k \in 1 .. Len(list) |-> list[p[k]]]
  BY DEF Sort
<1>2. DOMAIN list = 1 .. Len(list)
  BY LenProperties DEF ListInv
<1> QED
  BY <1>1, <1>2 DEF Orders, Listed

LEMMA NextAddress == IInv /\ AddressInv /\ [Next]_vars => AddressInv'
<1> SUFFICES ASSUME IInv, AddressInv, [Next]_vars PROVE AddressInv'
  OBVIOUS
<1> USE DEF AddressInv
<1>0. Discovered \cap Manual = {} /\ Discovered \subseteq Items
  BY WindowAssumption DEF Items
<1>1. ASSUME NEW i \in Items, NewDiscoveredPeer(i) PROVE AddressInv'
  <2>1. Listed' = Listed \cup {i}
    BY <1>1, AppendLists DEF NewDiscoveredPeer, IInv
  <2>2. PICK h \in Hosts :
          /\ peer' = [peer EXCEPT ![i] = [host |-> h, addr |-> Null, filled |-> TRUE]]
          /\ lookups' = [lookups EXCEPT ![i] = Asked(<< >>, h)]
    BY <1>1 DEF NewDiscoveredPeer
  <2>3. i \in Discovered /\ answered' = [answered EXCEPT ![i] = "None"]
    BY <1>1 DEF NewDiscoveredPeer
  <2>4. /\ Asked(<< >>, h) \in Seq(Lookup)
        /\ \A k \in DOMAIN Asked(<< >>, h) :
             ~Asked(<< >>, h)[k].old => Asked(<< >>, h)[k].host = h
    BY AskedIs, EmptySeq DEF Named
  <2>5. /\ peer' \in [Items -> Fields] /\ lookups' \in [Items -> Seq(Lookup)]
        /\ answered' \in [Discovered -> {"None", "Newest", "Older"}]
    BY <2>2, <2>3, <2>4 DEF Fields, Named
  <2>6. /\ peer'[i].host = h /\ peer'[i].addr = Null /\ lookups'[i] = Asked(<< >>, h)
        /\ answered'[i] = "None"
    BY <2>2, <2>3
  <2>7. Settled(peer'[i], lookups'[i], answered'[i])
    BY <2>4, <2>6 DEF Settled
  <2>8. /\ \A j \in Items \ {i} : lookups'[j] = lookups[j] /\ peer'[j] = peer[j]
        /\ \A j \in Discovered \ {i} : answered'[j] = answered[j]
    BY <2>2, <2>3
  <2> QED
    BY <1>0, <2>1, <2>5, <2>7, <2>8
\* Steps that add nothing to the list, and change neither lookups nor peers.
<1>2. ASSUME Listed' \cap Discovered \subseteq Listed, UNCHANGED <<peer, lookups, answered>>
      PROVE  AddressInv'
  BY <1>2
<1>3. ASSUME NEW i \in Items, NewManualPeer(i) PROVE AddressInv'
  <2>1. Listed' = Listed \cup {i} /\ i \in Manual
    BY <1>3, AppendLists DEF NewManualPeer, IInv
  <2> QED
    BY <1>0, <1>2, <1>3, <2>1 DEF NewManualPeer
<1>4. ASSUME NEW i \in Items, HostnameChanged(i) PROVE AddressInv'
  <2>1. PICK h \in Hosts :
          /\ peer' = [peer EXCEPT ![i].host = h, ![i].addr = Null]
          /\ lookups' = [lookups EXCEPT ![i] = Asked(lookups[i], h)]
    BY <1>4 DEF HostnameChanged
  <2>2. Listed' = Listed /\ i \in Discovered /\ answered' = [answered EXCEPT ![i] = "None"]
    BY <1>4 DEF HostnameChanged, Listed
  <2>3. PICK l : l = Asked(lookups[i], h)
    OBVIOUS
  <2>4. l \in Seq(Lookup) /\ \A k \in DOMAIN l : ~l[k].old => l[k].host = h
    BY <2>3, AskedIs DEF Named
  <2>5. /\ peer' \in [Items -> Fields] /\ lookups' \in [Items -> Seq(Lookup)]
        /\ answered' \in [Discovered -> {"None", "Newest", "Older"}]
    BY <2>1, <2>2, <2>3, <2>4 DEF Fields, Named
  <2>6. /\ peer'[i].host = h /\ peer'[i].addr = Null /\ lookups'[i] = l
        /\ answered'[i] = "None"
    BY <2>1, <2>2, <2>3 DEF Fields
  <2>7. Settled(peer'[i], lookups'[i], answered'[i])
    BY <2>4, <2>6 DEF Settled
  <2>8. /\ \A j \in Items \ {i} : lookups'[j] = lookups[j] /\ peer'[j] = peer[j]
        /\ \A j \in Discovered \ {i} : answered'[j] = answered[j]
    BY <2>1, <2>2
  <2> QED
    BY <1>0, <2>2, <2>5, <2>7, <2>8
<1>5. ASSUME NEW i \in Items, AddressLookupComplete(i) PROVE AddressInv'
  <2>1. PICK k \in DOMAIN lookups[i] :
          /\ lookups' = [lookups EXCEPT ![i] = RemovedAt(lookups[i], k)]
          /\ \/ /\ peer' = [peer EXCEPT ![i].addr = lookups[i][k].host]
                /\ answered' = [j \in Discovered |->
                                  IF j # i THEN answered[j]
                                  ELSE IF lookups[i][k].old THEN "Older" ELSE "Newest"]
             \/ UNCHANGED <<peer, answered>>
    BY <1>5 DEF AddressLookupComplete
  <2>2. Listed' = Listed
    BY <1>5 DEF AddressLookupComplete, Listed
  <2>3. PICK e : e = lookups[i][k]
    OBVIOUS
  <2>4. PICK l : l = RemovedAt(lookups[i], k)
    OBVIOUS
  <2>5. /\ e \in Lookup /\ l \in Seq(Lookup)
        /\ \A j \in DOMAIN l : \E n \in DOMAIN lookups[i] : l[j] = lookups[i][n]
    BY <2>3, <2>4, AnsweredIs
  <2>6. lookups' \in [Items -> Seq(Lookup)] /\ lookups'[i] = l
    BY <2>1, <2>4, <2>5
  <2>7. /\ peer' \in [Items -> Fields]
        /\ answered' \in [Discovered -> {"None", "Newest", "Older"}]
    <3>1. PICK a \in {"Older", "Newest"} : a = IF e.old THEN "Older" ELSE "Newest"
      OBVIOUS
    <3>2. peer' \in [Items -> Fields]
      <4>1. e.host \in Named
        BY <2>5 DEF Lookup
      <4>2. [peer[i] EXCEPT !.addr = e.host] \in Fields
        BY <4>1 DEF Fields
      <4>3. peer' = peer \/ peer' = [peer EXCEPT ![i] = [peer[i] EXCEPT !.addr = e.host]]
        BY <2>1, <2>3
      <4> QED
        BY <4>2, <4>3
    <3>3. \/ answered' = answered
          \/ answered' = [j \in Discovered |-> IF j # i THEN answered[j] ELSE a]
      BY <2>1, <2>3, <3>1
    <3>4. answered' \in [Discovered -> {"None", "Newest", "Older"}]
      BY <3>3
    <3> QED
      BY <3>2, <3>4
  <2>8. /\ \A j \in Items \ {i} : lookups'[j] = lookups[j] /\ peer'[j] = peer[j]
        /\ \A j \in Discovered \ {i} : answered'[j] = answered[j]
    BY <2>1
  <2>9. ASSUME i \in Discovered, Settled(peer[i], lookups[i], answered[i])
        PROVE  Settled(peer'[i], lookups'[i], answered'[i])
    <3>1. ~e.old => e.host = peer[i].host
      BY <2>3, <2>9 DEF Settled
    <3>2. \A j \in DOMAIN l : ~l[j].old => l[j].host = peer[i].host
      BY <2>5, <2>9 DEF Settled
    <3>3. CASE UNCHANGED <<peer, answered>>
      BY <2>6, <2>9, <3>2, <3>3 DEF Settled
    <3>4. CASE /\ peer' = [peer EXCEPT ![i].addr = e.host]
               /\ answered' = [j \in Discovered |->
                                 IF j # i THEN answered[j]
                                 ELSE IF e.old THEN "Older" ELSE "Newest"]
      <4>1. /\ peer'[i].addr = e.host /\ peer'[i].host = peer[i].host
            /\ answered'[i] = IF e.old THEN "Older" ELSE "Newest"
        BY <2>9, <3>4 DEF Fields
      <4> QED
        BY <2>6, <3>1, <3>2, <4>1 DEF Settled
    <3> QED
      BY <2>1, <2>3, <3>3, <3>4
  <2> QED
    BY <1>0, <2>2, <2>6, <2>7, <2>8, <2>9
<1>6. ASSUME NEW i \in Items, Edit(i) PROVE AddressInv'
  <2>1. Listed' = Listed /\ answered' = answered /\ i \in Manual
    BY <1>6 DEF Edit, Listed
  <2>2. peer' \in [Items -> Fields] /\ lookups' \in [Items -> Seq(Lookup)]
    <3>1. CASE UNCHANGED lookups /\ \E p \in Fields : peer' = [peer EXCEPT ![i] = p]
      BY <3>1
    <3>2. CASE /\ lookups' = [lookups EXCEPT ![i] = Append(@, [host |-> Typed, old |-> FALSE])]
               /\ UNCHANGED peer
      <4>1. [host |-> Typed, old |-> FALSE] \in Lookup
        BY DEF Lookup, Named
      <4>2. Append(lookups[i], [host |-> Typed, old |-> FALSE]) \in Seq(Lookup)
        BY <4>1, AppendProperties
      <4> QED
        BY <3>2, <4>2
    <3>3. \A a \in {Typed, Null} : [peer[i] EXCEPT !.addr = a] \in Fields
      BY DEF Fields, Named
    <3>4. [peer[i] EXCEPT !.filled = ~@] \in Fields
      BY DEF Fields
    <3> QED
      BY <1>6, <3>1, <3>2, <3>3, <3>4 DEF Edit
  <2>3. \A j \in Items \ {i} : lookups'[j] = lookups[j] /\ peer'[j] = peer[j]
    BY <1>6 DEF Edit
  <2> QED
    BY <1>0, <2>1, <2>2, <2>3
<1>7. ASSUME NEW i \in Items, Destroyed(i) PROVE AddressInv'
  <2>1. Listed' \subseteq Listed \ {i}
    BY <1>7, DestroyLists DEF IInv
  <2>2. /\ peer' = [peer EXCEPT ![i] = NoPeer] /\ lookups' = [lookups EXCEPT ![i] = << >>]
        /\ answered' = [j \in Discovered |-> IF j = i THEN "None" ELSE answered[j]]
    BY <1>7 DEF Destroyed
  <2>3. << >> \in Seq(Lookup) /\ NoPeer \in Fields
    BY EmptySeq DEF NoPeer, Fields
  <2>4. /\ peer' \in [Items -> Fields] /\ lookups' \in [Items -> Seq(Lookup)]
        /\ answered' \in [Discovered -> {"None", "Newest", "Older"}]
    BY <2>2, <2>3
  <2>5. /\ \A j \in Items \ {i} : lookups'[j] = lookups[j] /\ peer'[j] = peer[j]
        /\ \A j \in Discovered \ {i} : answered'[j] = answered[j]
    BY <2>2
  <2> QED
    BY <1>0, <2>1, <2>4, <2>5
<1>8. CASE Sort
  BY <1>2, <1>8, SortLists DEF Sort, IInv
<1>9. ASSUME UNCHANGED data PROVE AddressInv'
  BY <1>2, <1>9 DEF data, Listed
<1>10. ASSUME NEW i \in Items, ButtonClicked(i) \/ DropMimeData(i) PROVE AddressInv'
  BY <1>2, <1>9, <1>10 DEF ButtonClicked, DropMimeData, Listed
<1> QED
  BY <1>1, <1>3, <1>4, <1>5, <1>6, <1>7, <1>8, <1>9, <1>10
     DEF Next, ItemStep, SelectionChanged, ActionSendClicked, DialogCancelled, DialogAccepted,
         RequestUpload, DropUrl, SetPayloadFails, UploadConnects, RequestsEnd, vars, data

\* However lookups fail and overtake each other, a discovered peer has no address
\* until one succeeds, and then that of its hostname if the last to succeed is the
\* newest (hostname_changed, address_lookup_complete).
THEOREM AddressesSettle == Spec => []AddressSettles
<1>1. IInv /\ AddressInv => AddressSettles
  BY DEF AddressInv, Settled, AddressSettles
<1>2. IInv /\ AddressInv /\ [Next]_vars => (IInv /\ AddressInv)'
  BY NextIInv, NextAddress
<1> QED
  BY <1>1, <1>2, InitIInv, InitAddress, PTL DEF Spec
=============================================================================
