-------------------------- MODULE Discovery_proofs --------------------------
(***************************************************************************)
(* What holds of the discovery in every behaviour, with any races, faults, *)
(* interfaces and names: the list has no duplicate, we are not on it, and  *)
(* a dead service can be restarted.  And, where the environment is         *)
(* restrained, that the list is right once all is said.                    *)
(*                                                                         *)
(* OwnIsHidden is not inductive alone: service_name_changed deletes the    *)
(* first peer of the new name, which is enough because there is at most    *)
(* one; and clearing the name (~ServiceRecord) hides no peer, because no   *)
(* peer has an empty name, by TypeOK.                                      *)
(*                                                                         *)
(* NoGhost and NoneMissing speak of quiet states only; GhostInv and        *)
(* NoneLost say what holds of the list, the queries and what was told on   *)
(* the way there.                                                          *)
(***************************************************************************)
EXTENDS Discovery, SequenceTheorems, TLAPS

\* All we need of peers: the list is well formed, has no two peers of a name,
\* and none that is ours.
PeersOK == peers \in Seq(PeerRecords) /\ AtMostOnePerName /\ OwnIsHidden

\* The peer deleted leaves the others in their order (QObject::~QObject takes
\* it off the children of the browser).
LEMMA RemoveAtIsShift ==
  ASSUME NEW S, NEW s \in Seq(S), NEW i \in 1 .. Len(s)
  PROVE  /\ RemoveAt(s, i) \in Seq(S)
         /\ Len(RemoveAt(s, i)) = Len(s) - 1
         /\ \A k \in 1 .. Len(s) - 1 :
              RemoveAt(s, i)[k] = IF k < i THEN s[k] ELSE s[k + 1]
<1> DEFINE before == SubSeq(s, 1, i - 1)
           after == SubSeq(s, i + 1, Len(s))
<1>1. /\ before \in Seq(S) /\ Len(before) = i - 1
      /\ \A k \in 1 .. i - 1 : before[k] = s[k]
  OBVIOUS
<1>2. /\ after \in Seq(S) /\ Len(after) = Len(s) - i
      /\ \A k \in 1 .. Len(s) - i : after[k] = s[k + i]
  OBVIOUS
<1>3. RemoveAt(s, i) = before \o after
  BY DEF RemoveAt
<1>4. /\ before \o after \in Seq(S) /\ Len(before \o after) = Len(s) - 1
      /\ \A k \in 1 .. Len(s) - 1 :
           (before \o after)[k] = IF k < i THEN before[k] ELSE after[k - i + 1]
  <2> HIDE DEF before, after
  <2>1. /\ before \o after \in Seq(S)
        /\ Len(before \o after) = Len(before) + Len(after)
        /\ \A k \in 1 .. Len(before) + Len(after) :
             (before \o after)[k] = IF k <= Len(before) THEN before[k]
                                    ELSE after[k - Len(before)]
    BY <1>1, <1>2, ConcatProperties
  <2>2. Len(before) + Len(after) = Len(s) - 1
    BY <1>1, <1>2
  <2>3. ASSUME NEW k \in 1 .. Len(s) - 1
        PROVE  (before \o after)[k] = IF k < i THEN before[k] ELSE after[k - i + 1]
    <3>1. (k <= i - 1 <=> k < i) /\ k - (i - 1) = k - i + 1
      OBVIOUS
    <3>2. QED
      BY <1>1, <2>1, <2>2, <3>1
  <2>4. QED
    BY <2>1, <2>2, <2>3
<1>5. ASSUME NEW k \in 1 .. Len(s) - 1
      PROVE  (IF k < i THEN before[k] ELSE after[k - i + 1])
               = IF k < i THEN s[k] ELSE s[k + 1]
  <2>1. CASE k < i
    BY <1>1, <2>1
  <2>2. CASE ~(k < i)
    <3>1. k - i + 1 \in 1 .. Len(s) - i
      BY <2>2
    <3>2. after[k - i + 1] = s[(k - i + 1) + i]
      BY <1>2, <3>1
    <3>3. QED
      BY <2>2, <3>2
  <2>3. QED
    BY <2>1, <2>2
<1>6. QED
  BY <1>3, <1>4, <1>5

\* In a list without duplicates, find_peer_by_service_name finds the peer of
\* the name, if there is one.
LEMMA FoundIsNamed ==
  ASSUME peers \in Seq(PeerRecords), AtMostOnePerName, NEW n
  PROVE  Found(n) = {i \in DOMAIN peers : peers[i].name = n}
<1>1. ASSUME NEW i \in DOMAIN peers, peers[i].name = n, NEW j \in 1 .. i - 1
      PROVE  peers[j].name # n
  BY <1>1 DEF AtMostOnePerName
<1>2. QED
  BY <1>1 DEF Found

\* deleteLater of the peer of a name: the list keeps its names, and the peer of
\* that name, if any, is dying.
LEMMA WithoutPeerHides ==
  ASSUME peers \in Seq(PeerRecords), AtMostOnePerName, NEW n
  PROVE  /\ WithoutPeer(n) \in Seq(PeerRecords)
         /\ DOMAIN WithoutPeer(n) = DOMAIN peers
         /\ \A i \in DOMAIN peers :
              /\ WithoutPeer(n)[i].name = peers[i].name
              /\ peers[i].dying => WithoutPeer(n)[i].dying
              /\ peers[i].name = n => WithoutPeer(n)[i].dying
<1> DEFINE q == WithoutPeer(n)
<1>1. \A i \in DOMAIN peers : peers[i] \in PeerRecords
  OBVIOUS
<1>2. /\ DOMAIN q = DOMAIN peers
      /\ \A i \in DOMAIN peers :
           q[i] = IF peers[i].name = n THEN [peers[i] EXCEPT !.dying = TRUE]
                  ELSE peers[i]
  BY FoundIsNamed DEF WithoutPeer
<1>3. \A i \in DOMAIN peers : q[i] \in PeerRecords
  BY <1>1, <1>2 DEF PeerRecords
<1>4. q \in Seq(PeerRecords)
  BY <1>2, <1>3 DEF WithoutPeer
<1>5. \A i \in DOMAIN peers :
        /\ q[i].name = peers[i].name
        /\ peers[i].dying => q[i].dying
        /\ peers[i].name = n => q[i].dying
  BY <1>1, <1>2 DEF PeerRecords
<1>6. QED
  BY <1>2, <1>4, <1>5

\* deleteLater of the peer of a name leaves the other peers alone.
LEMMA WithoutPeerKeeps ==
  ASSUME peers \in Seq(PeerRecords), NEW n, NEW i \in DOMAIN peers, peers[i].name # n
  PROVE  i \in DOMAIN WithoutPeer(n) /\ WithoutPeer(n)[i] = peers[i]
BY DEF WithoutPeer, Found

-----------------------------------------------------------------------------
(* The actions that change each part of the state *)

\* Few actions change the list of peers,
LEMMA PeersChange ==
  ASSUME [Next]_vars
  PROVE  \/ UNCHANGED peers
         \/ BrowserRemoves \/ RecordRegistered \/ DeleteRecord \/ DeleteBrowser
         \/ \E r \in resolvers : ResolverAnswers(r)
         \/ \E i \in DOMAIN peers : DeletePeer(i)
<1>1. ASSUME Poll \/ BrowserAdds \/ LibraryRegisters \/ LibraryWithdraws \/ Rename
               \/ Restart \/ RecordFails \/ BrowserFails
      PROVE  UNCHANGED peers
  BY <1>1 DEF Poll, BrowserAdds, LibraryRegisters, LibraryWithdraws, Rename, Restart,
     RecordFails, BrowserFails
<1>2. ASSUME \/ \E r \in resolvers :
                  DeleteResolver(r) \/ LibraryResolves(r) \/ ResolverFails(r)
             \/ \E n \in PeerNames : HostChanges(n)
             \/ UNCHANGED vars
      PROVE  UNCHANGED peers
  BY <1>2 DEF DeleteResolver, LibraryResolves, ResolverFails, HostChanges, vars
<1>3. QED
  BY <1>1, <1>2 DEF Next, EventLoop, Library, Environment

\* or the queries.
LEMMA ResolversChange ==
  ASSUME [Next]_vars
  PROVE  \/ UNCHANGED resolvers
         \/ Poll \/ BrowserAdds \/ DeleteBrowser
         \/ \E r \in resolvers : \/ ResolverAnswers(r) \/ ResolverFails(r)
                                 \/ LibraryResolves(r) \/ DeleteResolver(r)
<1>1. ASSUME BrowserRemoves \/ RecordRegistered \/ DeleteRecord \/ LibraryRegisters
               \/ LibraryWithdraws \/ Rename \/ Restart \/ RecordFails \/ BrowserFails
      PROVE  UNCHANGED resolvers
  BY <1>1 DEF BrowserRemoves, RecordRegistered, DeleteRecord, LibraryRegisters,
     LibraryWithdraws, Rename, Restart, RecordFails, BrowserFails
<1>2. ASSUME \/ \E i \in DOMAIN peers : DeletePeer(i)
             \/ \E n \in PeerNames : HostChanges(n)
             \/ UNCHANGED vars
      PROVE  UNCHANGED resolvers
  BY <1>2 DEF DeletePeer, HostChanges, vars
<1>3. QED
  BY <1>1, <1>2 DEF Next, EventLoop, Library, Environment

\* The browser is only told of services by its callback,
LEMMA ToldChange ==
  ASSUME [Next]_vars, ~DeleteBrowser
  PROVE  BrowserAdds \/ BrowserRemoves \/ UNCHANGED told
<1>1. ASSUME Poll \/ RecordRegistered \/ DeleteRecord \/ LibraryRegisters
               \/ LibraryWithdraws \/ Rename \/ Restart \/ RecordFails \/ BrowserFails
      PROVE  UNCHANGED told
  BY <1>1 DEF Poll, RecordRegistered, DeleteRecord, LibraryRegisters, LibraryWithdraws,
     Rename, Restart, RecordFails, BrowserFails
<1>2. ASSUME \/ \E r \in resolvers : \/ ResolverAnswers(r) \/ DeleteResolver(r)
                                     \/ LibraryResolves(r) \/ ResolverFails(r)
             \/ \E i \in DOMAIN peers : DeletePeer(i)
             \/ \E n \in PeerNames : HostChanges(n)
             \/ UNCHANGED vars
      PROVE  UNCHANGED told
  BY <1>2 DEF ResolverAnswers, DeleteResolver, LibraryResolves, ResolverFails,
     DeletePeer, HostChanges, vars
<1>3. QED
  BY <1>1, <1>2 DEF Next, EventLoop, Library, Environment

\* our names change with our record,
LEMMA NamesChange ==
  ASSUME [Next]_vars
  PROVE  /\ UNCHANGED own \/ RecordRegistered \/ DeleteRecord
         /\ \/ UNCHANGED <<granted, record>>
            \/ RecordRegistered \/ DeleteRecord \/ LibraryRegisters
            \/ Rename \/ Restart \/ RecordFails
<1> USE DEF external, local
<1>1. ASSUME \/ Poll \/ BrowserAdds \/ BrowserRemoves \/ DeleteBrowser
             \/ LibraryWithdraws \/ BrowserFails
      PROVE  UNCHANGED <<granted, record, own>>
  BY <1>1 DEF Poll, BrowserAdds, BrowserRemoves, Tells, DeleteBrowser, LibraryWithdraws,
     BrowserFails
<1>2. ASSUME \/ \E r \in resolvers : \/ ResolverAnswers(r) \/ DeleteResolver(r)
                                     \/ LibraryResolves(r) \/ ResolverFails(r)
             \/ \E i \in DOMAIN peers : DeletePeer(i)
             \/ \E n \in PeerNames : HostChanges(n)
             \/ UNCHANGED vars
      PROVE  UNCHANGED <<granted, record, own>>
  BY <1>2 DEF ResolverAnswers, DeleteResolver, LibraryResolves, ResolverFails,
     DeletePeer, HostChanges, vars
<1>3. ASSUME LibraryRegisters \/ Rename \/ Restart \/ RecordFails
      PROVE  UNCHANGED own
  BY <1>3 DEF LibraryRegisters, Rename, Restart, RecordFails
<1>4. QED
  BY <1>1, <1>2, <1>3 DEF Next, EventLoop, Library, Environment

\* and few change what is published.
LEMMA WorldChange ==
  ASSUME [Next]_vars
  PROVE  \/ UNCHANGED <<world, claims>>
         \/ LibraryRegisters \/ LibraryWithdraws
         \/ \E n \in PeerNames : HostChanges(n)
<1> USE DEF external
<1>1. ASSUME \/ Poll \/ BrowserAdds \/ BrowserRemoves \/ RecordRegistered
             \/ DeleteRecord \/ DeleteBrowser
      PROVE  UNCHANGED <<world, claims>>
  BY <1>1 DEF Poll, BrowserAdds, BrowserRemoves, Tells, RecordRegistered, DeleteRecord,
     DeleteBrowser
<1>2. ASSUME Rename \/ Restart \/ RecordFails \/ BrowserFails \/ UNCHANGED vars
      PROVE  UNCHANGED <<world, claims>>
  BY <1>2 DEF Rename, Restart, RecordFails, BrowserFails, vars
<1>3. ASSUME \/ \E r \in resolvers : \/ ResolverAnswers(r) \/ DeleteResolver(r)
                                     \/ LibraryResolves(r) \/ ResolverFails(r)
             \/ \E i \in DOMAIN peers : DeletePeer(i)
      PROVE  UNCHANGED <<world, claims>>
  BY <1>3 DEF ResolverAnswers, DeleteResolver, LibraryResolves, ResolverFails, DeletePeer
<1>4. QED
  BY <1>1, <1>2, <1>3 DEF Next, EventLoop, Library, Environment

\* Only an iteration of the event loop makes a socket readable.
LEMMA ReadableChange ==
  ASSUME [Next]_vars, ~Poll, "browser" \notin readable
  PROVE  "browser" \notin readable'
<1>1. ASSUME \/ BrowserAdds \/ BrowserRemoves \/ RecordRegistered \/ DeleteRecord
             \/ DeleteBrowser \/ LibraryRegisters \/ LibraryWithdraws
      PROVE  readable' \subseteq readable
  BY <1>1 DEF BrowserAdds, BrowserRemoves, Tells, RecordRegistered, DeleteRecord,
     DeleteBrowser, LibraryRegisters, LibraryWithdraws
<1>2. ASSUME Rename \/ Restart \/ RecordFails \/ BrowserFails \/ UNCHANGED vars
      PROVE  readable' \subseteq readable
  BY <1>2 DEF Rename, Restart, RecordFails, BrowserFails, vars
<1>3. ASSUME \/ \E r \in resolvers : \/ ResolverAnswers(r) \/ DeleteResolver(r)
                                     \/ LibraryResolves(r) \/ ResolverFails(r)
             \/ \E i \in DOMAIN peers : DeletePeer(i)
             \/ \E n \in PeerNames : HostChanges(n)
      PROVE  readable' \subseteq readable
  BY <1>3 DEF ResolverAnswers, DeleteResolver, LibraryResolves, ResolverFails,
     DeletePeer, HostChanges
<1>4. QED
  BY <1>1, <1>2, <1>3 DEF Next, EventLoop, Library, Environment

\* What is published under a name is its host's, or ours.
LEMMA PublishedOf ==
  ASSUME NEW n
  PROVE  Of(n, Published) =
           Of(n, world) \cup IF n \in claims
                             THEN [name : {n}, iface : Ifaces, port : {OurPort}]
                             ELSE {}
BY DEF Of, Published

\* A host changes nothing but its own services.
LEMMA HostChangesItsOwn ==
  ASSUME NEW n, HostChanges(n)
  PROVE  /\ UNCHANGED <<claims, told, resolvers, peers, granted, record, own, readable>>
         /\ \A m : m # n => Of(m, world') = Of(m, world) /\ Of(m, Published') = Of(m, Published)
<1>1. UNCHANGED <<claims, told, resolvers, peers, granted, record, own, readable>>
  BY DEF HostChanges, local
<1>2. PICK I \in SUBSET Ifaces, port \in Ports :
        world' = (world \ Of(n, world)) \cup [name : {n}, iface : I, port : {port}]
  BY DEF HostChanges
<1>3. ASSUME NEW m, m # n PROVE Of(m, world') = Of(m, world)
  BY <1>2, <1>3 DEF Of
<1>4. ASSUME NEW m, m # n PROVE Of(m, Published') = Of(m, Published)
  BY <1>1, <1>3, <1>4 DEF Of, Published
<1>5. QED
  BY <1>1, <1>3, <1>4

-----------------------------------------------------------------------------
(* The changes of the list of peers keep PeersOK *)

\* A removal announced by the library.
LEMMA RemovingKeepsPeers ==
  ASSUME PeersOK, NEW n, peers' = WithoutPeer(n), own' = own
  PROVE  PeersOK'
BY WithoutPeerHides DEF PeersOK, AtMostOnePerName, OwnIsHidden

\* set_service_name, with the slot of the browser it calls.
LEMMA NamingKeepsPeers ==
  ASSUME PeersOK, NEW n, SetServiceName(n)
  PROVE  PeersOK'
<1>1. CASE n = own
  BY <1>1 DEF PeersOK, SetServiceName, AtMostOnePerName, OwnIsHidden
<1>2. CASE n # own
  <2>1. peers' = WithoutPeer(n) /\ own' = n
    BY <1>2 DEF SetServiceName
  <2>2. QED
    BY <2>1, WithoutPeerHides DEF PeersOK, AtMostOnePerName, OwnIsHidden
<1>3. QED
  BY <1>1, <1>2

\* peer_resolved: updates a peer in place, or adds one that is not listed yet
\* and is not us.
LEMMA ResolvingKeepsPeers ==
  ASSUME PeersOK, NEW n \in Names, NEW port \in Ports \cup {OurPort},
         peers' = Resolved(n, port), own' = own
  PROVE  PeersOK'
<1>0. \A i \in DOMAIN peers : peers[i] \in PeerRecords
  BY DEF PeersOK
<1>1. CASE Found(n) # {}
  <2>1. peers' = Updated(n, port)
    BY <1>1 DEF Resolved
  <2>2. /\ DOMAIN peers' = DOMAIN peers
        /\ \A i \in DOMAIN peers :
             /\ peers'[i] \in PeerRecords
             /\ peers'[i].name = peers[i].name
             /\ peers'[i].dying = peers[i].dying
    BY <2>1, <1>0 DEF Updated, PeerRecords
  <2>3. peers' \in Seq(PeerRecords)
    BY <2>1, <2>2 DEF Updated, PeersOK
  <2>4. QED
    BY <2>2, <2>3 DEF PeersOK, AtMostOnePerName, OwnIsHidden
<1>2. CASE Found(n) = {} /\ own # n
  <2> DEFINE new == [name |-> n, port |-> port, dying |-> FALSE]
  <2>1. peers' = Append(peers, new) /\ new \in PeerRecords
    BY <1>2 DEF Resolved, Added, PeerRecords
  <2>2. \A i \in DOMAIN peers : peers[i].name # n
    BY <1>2, FoundIsNamed DEF PeersOK
  <2>3. /\ peers' \in Seq(PeerRecords)
        /\ Len(peers') = Len(peers) + 1
        /\ \A i \in 1 .. Len(peers) : peers'[i] = peers[i]
        /\ peers'[Len(peers) + 1] = new
    BY <2>1 DEF PeersOK
  <2>4. AtMostOnePerName'
    BY <2>2, <2>3 DEF PeersOK, AtMostOnePerName
  <2>5. OwnIsHidden'
    BY <1>2, <2>3 DEF PeersOK, OwnIsHidden
  <2>6. QED
    BY <2>3, <2>4, <2>5 DEF PeersOK
<1>3. CASE Found(n) = {} /\ own = n
  BY <1>3 DEF Resolved, PeersOK, AtMostOnePerName, OwnIsHidden
<1>4. QED
  BY <1>1, <1>2, <1>3

\* A deferred deletion.
LEMMA DeletingKeepsPeers ==
  ASSUME PeersOK, NEW i \in DOMAIN peers, peers' = RemoveAt(peers, i), own' = own
  PROVE  PeersOK'
<1>1. /\ peers' \in Seq(PeerRecords)
      /\ Len(peers') = Len(peers) - 1
      /\ \A k \in 1 .. Len(peers) - 1 :
           peers'[k] = IF k < i THEN peers[k] ELSE peers[k + 1]
  <2>1. peers \in Seq(PeerRecords) /\ i \in 1 .. Len(peers)
    BY DEF PeersOK
  <2>2. QED
    BY <2>1, RemoveAtIsShift
<1> DEFINE from(k) == IF k < i THEN k ELSE k + 1
<1>2. ASSUME NEW j \in DOMAIN peers', NEW k \in DOMAIN peers',
             peers'[j].name = peers'[k].name
      PROVE  j = k
  <2>1. /\ from(j) \in DOMAIN peers /\ from(k) \in DOMAIN peers
        /\ peers'[j] = peers[from(j)] /\ peers'[k] = peers[from(k)]
    BY <1>1 DEF PeersOK
  <2>2. from(j) = from(k)
    BY <1>2, <2>1 DEF PeersOK, AtMostOnePerName
  <2>3. j \in Nat /\ k \in Nat /\ i \in Nat
    BY <1>1 DEF PeersOK
  <2>4. QED
    BY <2>2, <2>3
<1>3. OwnIsHidden'
  BY <1>1 DEF PeersOK, OwnIsHidden
<1>4. QED
  BY <1>1, <1>2, <1>3 DEF PeersOK, AtMostOnePerName

-----------------------------------------------------------------------------
(* Type correctness, of everything but the list of peers *)

ScalarsOK ==
  /\ world \subseteq Services /\ told \subseteq Services
  /\ claims \subseteq LocalNames /\ granted \in claims \cup {NoName}
  /\ changes \in 0 .. MaxChanges
  /\ requested \in LocalNames /\ own \in LocalNames \cup {NoName}
  /\ record \in RecordStates /\ browser \in BrowserStates
  /\ errors \in BOOLEAN /\ more \in BOOLEAN /\ batchOpen \in BOOLEAN
  /\ own # NoName => record \notin {"None", "Registering"}
  /\ readable \subseteq {"record", "browser"}

ResolversOK == \A r \in resolvers : IsResolver(r)

LEMMA TypeOKParts == TypeOK <=> ScalarsOK /\ ResolversOK /\ peers \in Seq(PeerRecords)
  BY DEF TypeOK, ScalarsOK, ResolversOK

LEMMA PublishedAreServices == ScalarsOK => Published \subseteq Services
<1> SUFFICES ASSUME ScalarsOK, NEW s \in Published PROVE s \in Services
  OBVIOUS
<1>1. CASE s \in world
  BY <1>1 DEF ScalarsOK
<1>2. CASE s \in [name : claims, iface : Ifaces, port : {OurPort}]
  BY <1>2 DEF ScalarsOK, Services, Names
<1>3. QED
  BY <1>1, <1>2 DEF Published

LEMMA ScalarsStep == ScalarsOK /\ [Next]_vars => ScalarsOK'
<1> SUFFICES ASSUME ScalarsOK, [Next]_vars PROVE ScalarsOK'
  OBVIOUS
<1> USE DiscoveryAssumption DEF ScalarsOK, external, local
<1>1. CASE Poll
  BY <1>1 DEF Poll, Readable
<1>2. CASE BrowserAdds
  BY <1>2, PublishedAreServices DEF BrowserAdds, Tells
<1>3. CASE BrowserRemoves
  BY <1>3 DEF BrowserRemoves, Tells
<1>4. CASE RecordRegistered
  BY <1>4 DEF RecordRegistered, SetServiceName, RecordStates
<1>5. ASSUME NEW r \in resolvers, ResolverAnswers(r) PROVE ScalarsOK'
  BY <1>5 DEF ResolverAnswers
<1>6. ASSUME NEW r \in resolvers, DeleteResolver(r) PROVE ScalarsOK'
  BY <1>6 DEF DeleteResolver
<1>7. ASSUME NEW i \in DOMAIN peers, DeletePeer(i) PROVE ScalarsOK'
  BY <1>7 DEF DeletePeer
<1>8. CASE DeleteRecord
  BY <1>8 DEF DeleteRecord, SetServiceName, RecordStates
<1>9. CASE DeleteBrowser
  BY <1>9 DEF DeleteBrowser, BrowserStates
<1>10. CASE LibraryRegisters
  BY <1>10 DEF LibraryRegisters
<1>11. CASE LibraryWithdraws
  BY <1>11 DEF LibraryWithdraws
<1>12. ASSUME NEW r \in resolvers, LibraryResolves(r) PROVE ScalarsOK'
  BY <1>12 DEF LibraryResolves
<1>13. CASE Rename
  BY <1>13 DEF Rename, RecordStates
<1>14. CASE Restart
  BY <1>14 DEF Restart, RecordStates, BrowserStates
<1>15. CASE RecordFails
  BY <1>15 DEF RecordFails, RecordStates
<1>16. CASE BrowserFails
  BY <1>16 DEF BrowserFails, BrowserStates
<1>17. ASSUME NEW r \in resolvers, ResolverFails(r) PROVE ScalarsOK'
  BY <1>17 DEF ResolverFails
<1>18. ASSUME NEW n \in PeerNames, HostChanges(n) PROVE ScalarsOK'
  BY <1>18 DEF HostChanges, Of, Services, Names
<1>19. CASE UNCHANGED vars
  BY <1>19 DEF vars
<1>20. QED
  BY <1>1, <1>2, <1>3, <1>4, <1>5, <1>6, <1>7, <1>8, <1>9, <1>10, <1>11, <1>12,
     <1>13, <1>14, <1>15, <1>16, <1>17, <1>18, <1>19
     DEF Next, EventLoop, Library, Environment

\* A query keeps its name and gets the port of a published service.
LEMMA ResolversStep == ScalarsOK /\ ResolversOK /\ [Next]_vars => ResolversOK'
<1> SUFFICES ASSUME ScalarsOK, ResolversOK, [Next]_vars PROVE ResolversOK'
  OBVIOUS
<1> USE DEF ResolversOK
<1>1. ASSUME NEW r \in resolvers, NEW st \in ResolverStates
      PROVE  IsResolver([r EXCEPT !.state = st])
  BY DEF IsResolver
<1>2. CASE Poll
  <2>1. "readable" \in ResolverStates
    BY DEF ResolverStates
  <2>2. ASSUME NEW r \in resolvers
        PROVE  IsResolver([r EXCEPT !.state = IF @ = "answered" THEN "readable" ELSE @])
    BY <2>1 DEF IsResolver
  <2>3. QED
    BY <1>2, <2>2 DEF Poll
<1>3. CASE BrowserAdds
  <2>1. PICK s \in Published \ told : resolvers' = resolvers \cup {NewResolver(s)}
    BY <1>3 DEF BrowserAdds
  <2>2. IsResolver(NewResolver(s))
    BY <2>1, PublishedAreServices DEF IsResolver, NewResolver, Services, ResolverStates
  <2>3. QED
    BY <2>1, <2>2
<1>4. ASSUME NEW r \in resolvers, ResolverAnswers(r) \/ ResolverFails(r)
      PROVE  ResolversOK'
  BY <1>1, <1>4 DEF ResolverAnswers, ResolverFails, Becomes, ResolverStates
<1>5. ASSUME NEW r \in resolvers, LibraryResolves(r) PROVE ResolversOK'
  <2>1. PICK s \in Published :
          Becomes(r, [r EXCEPT !.state = "answered", !.port = s.port])
    BY <1>5 DEF LibraryResolves, Of
  <2>2. s.port \in Ports \cup {OurPort}
    BY PublishedAreServices DEF Services
  <2>3. IsResolver([r EXCEPT !.state = "answered", !.port = s.port])
    BY <2>2 DEF IsResolver, ResolverStates
  <2>4. QED
    BY <2>1, <2>3 DEF Becomes
<1>6. ASSUME NEW r \in resolvers, DeleteResolver(r) PROVE ResolversOK'
  BY <1>6 DEF DeleteResolver
<1>7. CASE DeleteBrowser
  BY <1>7 DEF DeleteBrowser
<1>8. CASE UNCHANGED resolvers
  BY <1>8
<1>9. QED
  BY <1>2, <1>3, <1>4, <1>5, <1>6, <1>7, <1>8, ResolversChange

\* Every query there is after a step was there before, by its name, unless the
\* browser adds one.
LEMMA QueriesKeepNames ==
  ASSUME ResolversOK, [Next]_vars, ~BrowserAdds
  PROVE  \A q \in resolvers' : \E r \in resolvers : q.name = r.name
<1>1. CASE Poll
  BY <1>1 DEF Poll, ResolversOK, IsResolver
<1>2. ASSUME NEW r \in resolvers, NEW q, Becomes(r, q), q.name = r.name
      PROVE  \A u \in resolvers' : \E v \in resolvers : u.name = v.name
  BY <1>2 DEF Becomes
<1>3. ASSUME NEW r \in resolvers, ResolverAnswers(r) \/ ResolverFails(r)
      PROVE  \A u \in resolvers' : \E v \in resolvers : u.name = v.name
  <2>1. [r EXCEPT !.state = "dying"].name = r.name
    BY DEF ResolversOK, IsResolver
  <2>2. QED
    BY <1>2, <1>3, <2>1 DEF ResolverAnswers, ResolverFails
<1>4. ASSUME NEW r \in resolvers, LibraryResolves(r)
      PROVE  \A u \in resolvers' : \E v \in resolvers : u.name = v.name
  <2>1. PICK s : Becomes(r, [r EXCEPT !.state = "answered", !.port = s.port])
    BY <1>4 DEF LibraryResolves
  <2>2. [r EXCEPT !.state = "answered", !.port = s.port].name = r.name
    BY DEF ResolversOK, IsResolver
  <2>3. QED
    BY <1>2, <2>1, <2>2
<1>5. CASE DeleteBrowser \/ \E r \in resolvers : DeleteResolver(r)
  BY <1>5 DEF DeleteBrowser, DeleteResolver
<1>6. CASE UNCHANGED resolvers
  BY <1>6
<1>7. QED
  BY <1>1, <1>3, <1>4, <1>5, <1>6, ResolversChange

-----------------------------------------------------------------------------
(* The list and the services, whatever happens *)

\* No step adds a second peer of a name, or shows us to ourselves.
LEMMA PeersStep == ScalarsOK /\ ResolversOK /\ PeersOK /\ [Next]_vars => PeersOK'
<1> SUFFICES ASSUME ScalarsOK, ResolversOK, PeersOK, [Next]_vars PROVE PeersOK'
  OBVIOUS
<1> USE DEF external, local
<1>1. CASE BrowserRemoves
  BY <1>1, RemovingKeepsPeers DEF BrowserRemoves, Tells
<1>2. CASE RecordRegistered
  BY <1>2, NamingKeepsPeers DEF RecordRegistered
<1>3. CASE DeleteRecord
  BY <1>3, NamingKeepsPeers DEF DeleteRecord
<1>4. ASSUME NEW r \in resolvers, ResolverAnswers(r) PROVE PeersOK'
  <2>1. r.name \in Names /\ r.port \in Ports \cup {OurPort}
    BY DEF ResolversOK, IsResolver
  <2>2. peers' = Resolved(r.name, r.port) /\ own' = own
    BY <1>4 DEF ResolverAnswers
  <2>3. QED
    BY <2>1, <2>2, ResolvingKeepsPeers
<1>5. ASSUME NEW i \in DOMAIN peers, DeletePeer(i) PROVE PeersOK'
  BY <1>5, DeletingKeepsPeers DEF DeletePeer
<1>6. CASE DeleteBrowser
  BY <1>6 DEF DeleteBrowser, PeersOK, AtMostOnePerName, OwnIsHidden
<1>7. CASE UNCHANGED <<peers, own>>
  BY <1>7 DEF PeersOK, AtMostOnePerName, OwnIsHidden
<1>8. QED
  BY <1>1, <1>2, <1>3, <1>4, <1>5, <1>6, <1>7, PeersChange, NamesChange

LEMMA InitOK == Init => ScalarsOK /\ ResolversOK /\ PeersOK
<1> SUFFICES ASSUME Init PROVE ScalarsOK /\ ResolversOK /\ PeersOK
  OBVIOUS
<1>1. world \subseteq Services
  <2>1. PICK N \in SUBSET PeerNames, p \in Ports :
          world = [name : N, iface : Ifaces, port : {p}]
    BY DEF Init
  <2>2. QED
    BY <2>1 DEF Services, Names
<1>2. ScalarsOK
  <2>1. 0 \in 0 .. MaxChanges
    BY DiscoveryAssumption
  <2>2. /\ told = {} /\ claims = {} /\ granted = NoName /\ changes = 0
        /\ requested \in LocalNames /\ own = NoName
        /\ record = "Registering" /\ browser = "Alive" /\ errors = FALSE
        /\ more = FALSE /\ batchOpen = FALSE /\ readable = {}
    BY DEF Init
  <2>3. QED
    BY <1>1, <2>1, <2>2 DEF ScalarsOK, RecordStates, BrowserStates
<1>3. PeersOK
  BY DEF Init, PeersOK, AtMostOnePerName, OwnIsHidden
<1>4. QED
  BY <1>2, <1>3 DEF Init, ResolversOK

\* The variables of Discovery keep their types.
THEOREM DiscoveryTypeOK == Spec => []TypeOK
<1>1. ScalarsOK /\ ResolversOK /\ PeersOK => TypeOK
  BY TypeOKParts DEF PeersOK
<1>2. QED
  BY InitOK, ScalarsStep, ResolversStep, PeersStep, <1>1, PTL DEF Spec

\* Browser::find_peer_by_service_name always has one answer: no order of
\* announcements, answers, removals and deletions lists a peer twice.
THEOREM PeersAreUnique == Spec => []AtMostOnePerName
<1>1. PeersOK => AtMostOnePerName
  BY DEF PeersOK
<1>2. QED
  BY InitOK, ScalarsStep, ResolversStep, PeersStep, <1>1, PTL DEF Spec

\* peer_resolved and service_name_changed together never leave our own service
\* on the list, but dying, whichever of resolution and registration is first.
THEOREM OwnStaysHidden == Spec => []OwnIsHidden
<1>1. PeersOK => OwnIsHidden
  BY DEF PeersOK
<1>2. QED
  BY InitOK, ScalarsStep, ResolversStep, PeersStep, <1>1, PTL DEF Spec

\* DiscoverySubSystem: a service that died can be restarted, after any sequence
\* of failures, renames and restarts.
THEOREM DeadCanRestart == Spec => []DeadIsShown
<1>1. Init => DeadIsShown
  BY DEF Init, DeadIsShown
<1>2. DeadIsShown /\ [Next]_vars => DeadIsShown'
  <2> SUFFICES ASSUME DeadIsShown, [Next]_vars PROVE DeadIsShown'
    OBVIOUS
  <2> USE DEF DeadIsShown, external, local
  <2>1. CASE RecordRegistered
    BY <2>1 DEF RecordRegistered
  <2>2. CASE DeleteRecord
    BY <2>2 DEF DeleteRecord
  <2>3. CASE DeleteBrowser
    BY <2>3 DEF DeleteBrowser
  <2>4. CASE Rename
    BY <2>4 DEF Rename
  <2>5. CASE Restart
    BY <2>5 DEF Restart
  <2>6. CASE RecordFails
    BY <2>6 DEF RecordFails
  <2>7. CASE BrowserFails
    BY <2>7 DEF BrowserFails
  <2>8. ASSUME \/ Poll \/ BrowserAdds \/ BrowserRemoves
               \/ LibraryRegisters \/ LibraryWithdraws
        PROVE  UNCHANGED <<record, browser, errors>>
    BY <2>8 DEF Poll, BrowserAdds, BrowserRemoves, Tells, LibraryRegisters,
       LibraryWithdraws
  <2>9. ASSUME \/ \E r \in resolvers : \/ ResolverAnswers(r) \/ DeleteResolver(r)
                                        \/ LibraryResolves(r) \/ ResolverFails(r)
               \/ \E i \in DOMAIN peers : DeletePeer(i)
               \/ \E n \in PeerNames : HostChanges(n)
               \/ UNCHANGED vars
        PROVE  UNCHANGED <<record, browser, errors>>
    BY <2>9 DEF ResolverAnswers, DeleteResolver, LibraryResolves, ResolverFails,
       DeletePeer, HostChanges, vars
  <2>10. CASE UNCHANGED <<record, browser, errors>>
    BY <2>10
  <2>11. QED
    BY <2>1, <2>2, <2>3, <2>4, <2>5, <2>6, <2>7, <2>8, <2>9, <2>10
       DEF Next, EventLoop, Library, Environment
<1>3. QED
  BY <1>1, <1>2, PTL DEF Spec

-----------------------------------------------------------------------------
(* Nobody is listed who is not there *)

\* A change waits until the last one about its host is told.
Restrained == "crossing" \notin Races

\* A peer is listed for a service the browser was told of,
PeersAreTold == \A i \in DOMAIN peers : ~peers[i].dying => Of(peers[i].name, told) # {}

\* and a query is of a service that is still there.
QueriesAreTold == \A r \in resolvers : Of(r.name, told \cap Published) # {}

\* A name we gave up stays published for a while: the browser knew of it, and
\* asks nothing about it any more.
GivenUp(n) == n # granted \/ record \in {"Renaming", "Failed"}
GivenUpIsTold ==
  \A n \in claims : GivenUp(n) =>
    /\ Of(n, Published) \subseteq told
    /\ \A r \in resolvers : r.name # n

\* What the record and the library say of our name.
NamesAgree ==
  /\ record = "None" => granted = NoName
  /\ record = "Registered" => own = granted

GhostInv ==
  PeersAreTold /\ QueriesAreTold /\ GivenUpIsTold /\ NamesAgree /\ browser # "Failed"

LEMMA NamesAgreeStep == NamesAgree /\ [Next]_vars => NamesAgree'
<1> SUFFICES ASSUME NamesAgree, [Next]_vars PROVE NamesAgree'
  OBVIOUS
<1> USE DEF NamesAgree, external, local
<1>1. CASE RecordRegistered
  BY <1>1 DEF RecordRegistered, SetServiceName
<1>2. CASE DeleteRecord
  BY <1>2 DEF DeleteRecord
<1>3. CASE LibraryRegisters
  BY <1>3 DEF LibraryRegisters
<1>4. CASE Rename \/ Restart \/ RecordFails
  BY <1>4 DEF Rename, Restart, RecordFails
<1>5. CASE UNCHANGED <<granted, record, own>>
  BY <1>5
<1>6. QED
  BY <1>1, <1>2, <1>3, <1>4, <1>5, NamesChange

\* Each way the list changes keeps PeersAreTold: a peer is deleted when its
\* service goes, one is added when its query is answered.
LEMMA PeersAreToldStep ==
  ScalarsOK /\ ResolversOK /\ PeersOK /\ PeersAreTold /\ QueriesAreTold
    /\ browser # "Failed" /\ [Next]_vars => PeersAreTold'
<1> SUFFICES ASSUME ScalarsOK, ResolversOK, PeersOK, PeersAreTold, QueriesAreTold,
                    browser # "Failed", [Next]_vars
             PROVE  PeersAreTold'
  OBVIOUS
<1> USE DEF external, local
<1>0. peers \in Seq(PeerRecords) /\ AtMostOnePerName
  BY DEF PeersOK
<1>1. CASE BrowserAdds
  <2>1. UNCHANGED peers /\ told \subseteq told'
    BY <1>1 DEF BrowserAdds, Tells
  <2>2. QED
    BY <2>1 DEF PeersAreTold, Of
<1>2. CASE BrowserRemoves
  <2>1. PICK s \in told : told' = told \ {s} /\ peers' = WithoutPeer(s.name)
    BY <1>2 DEF BrowserRemoves, Tells
  <2>2. ASSUME NEW i \in DOMAIN peers', ~peers'[i].dying
        PROVE  Of(peers'[i].name, told') # {}
    <3>1. /\ i \in DOMAIN peers /\ ~peers[i].dying
          /\ peers'[i].name = peers[i].name /\ peers[i].name # s.name
      BY <1>0, <2>1, <2>2, WithoutPeerHides
    <3>2. PICK t \in told : t.name = peers[i].name
      BY <3>1 DEF PeersAreTold, Of
    <3>3. t \in told'
      BY <2>1, <3>1, <3>2
    <3>4. QED
      BY <3>1, <3>2, <3>3 DEF Of
  <2>3. QED
    BY <2>2 DEF PeersAreTold
<1>3. ASSUME NEW n, SetServiceName(n), UNCHANGED told PROVE PeersAreTold'
  <2>1. CASE peers' = peers
    BY <1>3, <2>1 DEF PeersAreTold
  <2>2. CASE peers' = WithoutPeer(n)
    <3>1. /\ DOMAIN peers' = DOMAIN peers
          /\ \A i \in DOMAIN peers : /\ peers'[i].name = peers[i].name
                                     /\ peers[i].dying => peers'[i].dying
      BY <1>0, <2>2, WithoutPeerHides
    <3>2. QED
      BY <1>3, <3>1 DEF PeersAreTold
  <2>3. QED
    BY <1>3, <2>1, <2>2 DEF SetServiceName
<1>4. CASE RecordRegistered
  BY <1>3, <1>4 DEF RecordRegistered
<1>5. CASE DeleteRecord
  BY <1>3, <1>5 DEF DeleteRecord
<1>6. ASSUME NEW r \in resolvers, ResolverAnswers(r) PROVE PeersAreTold'
  <2>0. peers' = Resolved(r.name, r.port) /\ told' = told
    BY <1>6 DEF ResolverAnswers
  <2>1. CASE Found(r.name) # {}
    <3>1. /\ DOMAIN peers' = DOMAIN peers
          /\ \A i \in DOMAIN peers : /\ peers'[i].name = peers[i].name
                                     /\ peers'[i].dying = peers[i].dying
      BY <1>0, <2>0, <2>1 DEF Resolved, Updated, PeerRecords
    <3>2. QED
      BY <2>0, <3>1 DEF PeersAreTold
  <2>2. CASE Found(r.name) = {} /\ own # r.name
    <3> DEFINE new == [name |-> r.name, port |-> r.port, dying |-> FALSE]
    <3>1. peers' = Append(peers, new)
      BY <2>0, <2>2 DEF Resolved, Added
    <3>2. new.name = r.name
      OBVIOUS
    <3> HIDE DEF new
    <3>3. /\ DOMAIN peers' = 1 .. Len(peers) + 1
          /\ \A i \in 1 .. Len(peers) : i \in DOMAIN peers /\ peers'[i] = peers[i]
          /\ peers'[Len(peers) + 1] = new
      BY <1>0, <3>1
    <3>4. Of(r.name, told) # {}
      BY DEF QueriesAreTold, Of
    <3>5. QED
      BY <1>0, <2>0, <3>2, <3>3, <3>4 DEF PeersAreTold
  <2>3. CASE Found(r.name) = {} /\ own = r.name
    BY <2>0, <2>3 DEF Resolved, PeersAreTold
  <2>4. QED
    BY <2>1, <2>2, <2>3
<1>7. ASSUME NEW i \in DOMAIN peers, DeletePeer(i) PROVE PeersAreTold'
  <2>1. peers' = RemoveAt(peers, i) /\ told' = told
    BY <1>7 DEF DeletePeer
  <2>2. /\ peers' \in Seq(PeerRecords) /\ Len(peers') = Len(peers) - 1
        /\ \A k \in 1 .. Len(peers) - 1 :
             peers'[k] = IF k < i THEN peers[k] ELSE peers[k + 1]
    BY <1>0, <2>1, RemoveAtIsShift
  <2>3. ASSUME NEW k \in DOMAIN peers'
        PROVE  \E j \in DOMAIN peers : peers'[k] = peers[j]
    BY <1>0, <2>2
  <2>4. QED
    BY <2>1, <2>3 DEF PeersAreTold
<1>8. CASE DeleteBrowser
  BY <1>8 DEF DeleteBrowser
<1>9. CASE UNCHANGED <<peers, told>>
  BY <1>9 DEF PeersAreTold
<1>10. QED
  BY <1>1, <1>2, <1>4, <1>5, <1>6, <1>7, <1>8, <1>9, PeersChange, ToldChange

\* The name of a withdrawn or changing service has no query.
LEMMA QueriesAreToldStep ==
  ASSUME Restrained
  PROVE  ResolversOK /\ QueriesAreTold /\ GivenUpIsTold /\ browser # "Failed"
           /\ [Next]_vars => QueriesAreTold'
<1> SUFFICES ASSUME ResolversOK, QueriesAreTold, GivenUpIsTold, browser # "Failed",
                    [Next]_vars
             PROVE  QueriesAreTold'
  OBVIOUS
<1>1. CASE BrowserAdds
  <2>1. PICK s \in Published \ told :
          told' = told \cup {s} /\ resolvers' = resolvers \cup {NewResolver(s)}
    BY <1>1 DEF BrowserAdds, Tells
  <2>2. Published' = Published
    BY <1>1 DEF BrowserAdds, Tells, external, Published
  <2>3. NewResolver(s).name = s.name
    BY DEF NewResolver
  <2>4. QED
    BY <2>1, <2>2, <2>3 DEF QueriesAreTold, Of
<1>2. CASE ~BrowserAdds
  <2>1. SUFFICES ASSUME NEW r \in resolvers PROVE Of(r.name, told' \cap Published') # {}
    BY <1>2, QueriesKeepNames DEF QueriesAreTold
  <2>2. PICK s \in told \cap Published : s.name = r.name
    BY DEF QueriesAreTold, Of
  <2>3. s \in told'
    <3>1. CASE BrowserRemoves
      BY <3>1, <2>2 DEF BrowserRemoves, Tells
    <3>2. CASE UNCHANGED told
      BY <2>2, <3>2
    <3>3. QED
      BY <1>2, <3>1, <3>2, ToldChange DEF DeleteBrowser
  <2>4. s \in Published'
    <3>1. CASE UNCHANGED <<world, claims>>
      BY <2>2, <3>1 DEF Published
    <3>2. CASE LibraryRegisters
      BY <2>2, <3>2 DEF LibraryRegisters, Published
    <3>3. CASE LibraryWithdraws
      <4>1. PICK n \in claims \ {granted} : claims' = claims \ {n} /\ world' = world
        BY <3>3 DEF LibraryWithdraws
      <4>2. s.name # n
        BY <2>2, <4>1 DEF GivenUpIsTold, GivenUp
      <4>3. QED
        BY <2>2, <4>1, <4>2 DEF Published
    <3>4. ASSUME NEW n \in PeerNames, HostChanges(n) PROVE s \in Published'
      <4>1. s.name # n
        BY <2>2, <3>4 DEF HostChanges, Settled, Restrained
      <4>2. Of(s.name, Published') = Of(s.name, Published)
        BY <3>4, <4>1, HostChangesItsOwn
      <4>3. QED
        BY <2>2, <4>2 DEF Of
    <3>5. QED
      BY <3>1, <3>2, <3>3, <3>4, WorldChange
  <2>5. QED
    BY <2>2, <2>3, <2>4 DEF Of
<1>3. QED
  BY <1>1, <1>2

\* Our record is only given up when the browser knows all of it, and what is
\* given up stays known until it is withdrawn.
LEMMA GivenUpIsToldStep ==
  ASSUME Restrained
  PROVE  ScalarsOK /\ ResolversOK /\ GivenUpIsTold /\ NamesAgree /\ browser # "Failed"
           /\ [Next]_vars => GivenUpIsTold'
<1> SUFFICES ASSUME ScalarsOK, ResolversOK, GivenUpIsTold, NamesAgree,
                    browser # "Failed", [Next]_vars
             PROVE  GivenUpIsTold'
  OBVIOUS
<1>1. CASE BrowserAdds
  <2>1. PICK s \in Published \ told :
          told' = told \cup {s} /\ resolvers' = resolvers \cup {NewResolver(s)}
    BY <1>1 DEF BrowserAdds, Tells
  <2>2. UNCHANGED <<world, claims, granted, record>> /\ Published' = Published
    BY <1>1 DEF BrowserAdds, Tells, external, local, Published
  <2>3. NewResolver(s).name = s.name
    BY DEF NewResolver
  <2>4. ASSUME NEW n \in claims, GivenUp(n) PROVE s.name # n
    BY <2>1, <2>4 DEF GivenUpIsTold, Of
  <2>5. QED
    BY <2>1, <2>2, <2>3, <2>4 DEF GivenUpIsTold, GivenUp, Of
<1>2. CASE BrowserRemoves
  <2>1. PICK s \in told \ Published : told' = told \ {s} /\ resolvers' = resolvers
    BY <1>2 DEF BrowserRemoves, Tells
  <2>2. UNCHANGED <<claims, granted, record>> /\ Published' = Published
    BY <1>2 DEF BrowserRemoves, Tells, external, local, Published
  <2>3. QED
    BY <2>1, <2>2 DEF GivenUpIsTold, GivenUp, Of
<1>3. ASSUME ~BrowserAdds, ~BrowserRemoves PROVE GivenUpIsTold'
  <2>1. told' = told
    BY <1>3, ToldChange DEF DeleteBrowser
  <2>2. \A q \in resolvers' : \E r \in resolvers : q.name = r.name
    BY <1>3, QueriesKeepNames
  <2>3. SUFFICES ASSUME NEW n \in claims', GivenUp(n)'
                 PROVE  /\ n \in claims
                        /\ Of(n, Published') = Of(n, Published)
                        /\ GivenUp(n) \/ Settled(n)
    BY <2>1, <2>2 DEF GivenUpIsTold, Settled, Restrained, Of
  <2>4. ASSUME n \in claims, n = granted, UNCHANGED granted, RecordFails \/ Rename
        PROVE  Settled(n)
    <3>1. n # NoName
      BY <2>4, DiscoveryAssumption DEF ScalarsOK, Names
    <3>2. CASE RecordFails
      BY <2>4, <3>1, <3>2 DEF RecordFails
    <3>3. CASE Rename
      <4>1. own # NoName /\ Settled(own)
        BY <3>3 DEF Rename, Restrained
      <4>2. record \notin {"None", "Registering", "Renaming", "Failed", "Crashed"}
        BY <3>3, <4>1 DEF Rename, Idle, Deleting, ScalarsOK
      <4>3. record = "Registered"
        BY <4>2 DEF ScalarsOK, RecordStates
      <4>4. QED
        BY <2>4, <4>1, <4>3 DEF NamesAgree
    <3>4. QED
      BY <2>4, <3>2, <3>3
  <2>5. CASE UNCHANGED <<world, claims>>
    <3>1. Published' = Published /\ n \in claims
      BY <2>5 DEF Published
    <3>2. Of(n, Published') = Of(n, Published)
      BY <3>1
    <3>3. GivenUp(n) \/ Settled(n)
      <4>1. CASE UNCHANGED <<granted, record>>
        BY <2>3, <4>1 DEF GivenUp
      <4>2. CASE RecordFails \/ Rename
        <5>1. granted' = granted
          BY <4>2 DEF RecordFails, Rename, external
        <5>2. QED
          BY <2>4, <3>1, <4>2, <5>1 DEF GivenUp
      <4>3. CASE RecordRegistered \/ Restart
        BY <2>3, <4>3 DEF RecordRegistered, Restart, external, GivenUp
      <4>4. CASE DeleteRecord
        BY <4>4 DEF DeleteRecord, GivenUp
      <4>5. CASE LibraryRegisters
        <5>1. n # NoName
          BY <3>1, DiscoveryAssumption DEF ScalarsOK, Names
        <5>2. QED
          BY <4>5, <5>1 DEF LibraryRegisters, GivenUp
      <4>6. QED
        BY <4>1, <4>2, <4>3, <4>4, <4>5, NamesChange
    <3>4. QED
      BY <3>1, <3>2, <3>3
  <2>6. CASE LibraryRegisters
    <3>1. PICK m : /\ granted = NoName /\ granted' = m /\ claims' = claims \cup {m}
                   /\ world' = world /\ record' = record /\ record = "Registering"
      BY <2>6 DEF LibraryRegisters, local
    <3>2. n # m /\ n \in claims
      BY <2>3, <3>1 DEF GivenUp
    <3>3. n # NoName
      BY <3>2, DiscoveryAssumption DEF ScalarsOK, Names
    <3>4. Of(n, Published') = Of(n, Published)
      BY <3>1, <3>2 DEF Of, Published
    <3>5. QED
      BY <3>1, <3>2, <3>3, <3>4 DEF GivenUp
  <2>7. CASE LibraryWithdraws
    <3>1. PICK m : /\ claims' = claims \ {m} /\ world' = world
                   /\ granted' = granted /\ record' = record
      BY <2>7 DEF LibraryWithdraws, local
    <3>2. n # m /\ n \in claims
      BY <2>3, <3>1
    <3>3. Of(n, Published') = Of(n, Published)
      BY <3>1, <3>2 DEF Of, Published
    <3>4. QED
      BY <2>3, <3>1, <3>2, <3>3 DEF GivenUp
  <2>8. ASSUME NEW m \in PeerNames, HostChanges(m)
        PROVE  /\ n \in claims
               /\ Of(n, Published') = Of(n, Published)
               /\ GivenUp(n) \/ Settled(n)
    <3>1. /\ UNCHANGED <<claims, granted, record>>
          /\ n # m => Of(n, Published') = Of(n, Published)
      BY <2>8, HostChangesItsOwn
    <3>2. m \notin claims
      BY <2>8 DEF HostChanges
    <3>3. QED
      BY <2>3, <3>1, <3>2 DEF GivenUp
  <2>9. QED
    BY <2>5, <2>6, <2>7, <2>8, WorldChange
<1>4. QED
  BY <1>1, <1>2, <1>3

LEMMA GhostStep ==
  ASSUME Restrained, "browser" \notin Faults
  PROVE  ScalarsOK /\ ResolversOK /\ PeersOK /\ GhostInv /\ [Next]_vars => GhostInv'
<1> SUFFICES ASSUME ScalarsOK, ResolversOK, PeersOK, GhostInv, [Next]_vars
             PROVE  GhostInv'
  OBVIOUS
<1>1. (browser # "Failed")'
  <2> USE DEF external, local, GhostInv
  <2>1. ASSUME Poll \/ BrowserAdds \/ BrowserRemoves \/ RecordRegistered \/ DeleteRecord
                 \/ LibraryRegisters \/ LibraryWithdraws \/ Rename \/ RecordFails
        PROVE  UNCHANGED browser
    BY <2>1 DEF Poll, BrowserAdds, BrowserRemoves, Tells, RecordRegistered, DeleteRecord,
       LibraryRegisters, LibraryWithdraws, Rename, RecordFails
  <2>2. ASSUME \/ \E r \in resolvers : \/ ResolverAnswers(r) \/ DeleteResolver(r)
                                       \/ LibraryResolves(r) \/ ResolverFails(r)
               \/ \E i \in DOMAIN peers : DeletePeer(i)
               \/ \E n \in PeerNames : HostChanges(n)
               \/ UNCHANGED vars
        PROVE  UNCHANGED browser
    BY <2>2 DEF ResolverAnswers, DeleteResolver, LibraryResolves, ResolverFails,
       DeletePeer, HostChanges, vars
  <2>3. ~BrowserFails /\ ~DeleteBrowser
    BY DEF BrowserFails, DeleteBrowser
  <2>4. CASE Restart
    BY <2>4 DEF Restart
  <2>5. QED
    BY <2>1, <2>2, <2>3, <2>4 DEF Next, EventLoop, Library, Environment
<1>2. PeersAreTold'
  BY PeersAreToldStep DEF GhostInv
<1>3. QueriesAreTold'
  BY QueriesAreToldStep DEF GhostInv
<1>4. GivenUpIsTold'
  BY GivenUpIsToldStep DEF GhostInv
<1>5. NamesAgree'
  BY NamesAgreeStep DEF GhostInv
<1>6. QED
  BY <1>1, <1>2, <1>3, <1>4, <1>5 DEF GhostInv

\* When all is said, what is listed is published, and not by us.
LEMMA QuietHasNoGhost == ScalarsOK /\ PeersOK /\ GhostInv => NoGhost
<1> SUFFICES ASSUME ScalarsOK, PeersOK, GhostInv, Quiet, NEW i \in DOMAIN peers
             PROVE  \E s \in world : s.name = peers[i].name
  BY DEF NoGhost, Listed
<1>1. ~peers[i].dying
  BY DEF Quiet, Idle, Deleting
<1>2. PICK s \in Published : s.name = peers[i].name
  BY <1>1 DEF GhostInv, PeersAreTold, Of, Quiet
<1>3. ASSUME s \notin world PROVE FALSE
  <2>1. s.name \in claims
    BY <1>2, <1>3 DEF Published
  <2>2. s.name = granted /\ granted # NoName
    BY <2>1, DiscoveryAssumption DEF Quiet, ScalarsOK, Names
  <2>3. record \in {"Registering", "Registered"}
    BY <2>2 DEF Quiet, Idle, Deleting, GhostInv, NamesAgree, ScalarsOK, RecordStates
  <2>4. granted = own
    BY <2>2, <2>3 DEF Quiet, Readable
  <2>5. QED
    BY <1>1, <1>2, <2>2, <2>4 DEF PeersOK, OwnIsHidden
<1>4. QED
  BY <1>2, <1>3

\* Once all is said, every peer listed is there: no late answer brings back a
\* peer that left, and our own services under a name we gave up go away.  A
\* change waits until the last one about its host is told, and the browser does
\* not fail.
THEOREM GhostsLeave ==
  ASSUME "crossing" \notin Races, "browser" \notin Faults
  PROVE  Spec => []NoGhost
<1>0. Restrained
  BY DEF Restrained
<1>1. Init => GhostInv
  BY DEF Init, GhostInv, PeersAreTold, QueriesAreTold, GivenUpIsTold, NamesAgree
<1>2. ScalarsOK /\ ResolversOK /\ PeersOK /\ GhostInv /\ [Next]_vars => GhostInv'
  BY <1>0, GhostStep
<1>3. QED
  BY InitOK, ScalarsStep, ResolversStep, PeersStep, <1>1, <1>2, QuietHasNoGhost, PTL
     DEF Spec

-----------------------------------------------------------------------------
(* Everybody who is there is listed *)

Present(n) == Of(n, world) # {}

\* The library gives no name to two hosts, and we know ours if it gave us one;
OneHostPerName ==
  /\ \A n \in claims : ~Present(n)
  /\ own # NoName => own = granted
  /\ \A s, t \in world : s.name = t.name => s.port = t.port

\* a host that is back is not told of as it was before it left;
ToldIsPresent == \A s \in told : Present(s.name) => s \in world

\* its peer of that time, if it is still to be deleted, is not brought back;
OldPeerIsForgotten ==
  \A i \in DOMAIN peers : peers[i].dying /\ Present(peers[i].name) =>
    /\ "browser" \notin readable
    /\ \A r \in resolvers : r.name # peers[i].name

\* an answer is that of the host as it is;
AnswersAreTrue ==
  \A r \in resolvers, s \in world :
    r.state \in {"answered", "readable"} /\ r.name = s.name => r.port = s.port

\* and each service we were told of is being asked about or listed.
AskedOrListed(s) ==
  \/ \E r \in resolvers : r.state # "dying" /\ r.name = s.name /\ r.iface = s.iface
  \/ \E i \in DOMAIN peers :
       ~peers[i].dying /\ peers[i].name = s.name /\ peers[i].port = s.port
ToldIsFollowed == \A s \in told \cap world : AskedOrListed(s)

NoneLost ==
  /\ OneHostPerName /\ ToldIsPresent /\ OldPeerIsForgotten
  /\ AnswersAreTrue /\ ToldIsFollowed

LEMMA OneHostPerNameStep ==
  ScalarsOK /\ OneHostPerName /\ [Next]_vars => OneHostPerName'
<1> SUFFICES ASSUME ScalarsOK, OneHostPerName, [Next]_vars PROVE OneHostPerName'
  OBVIOUS
<1>1. (own # NoName => own = granted)'
  <2> USE DEF OneHostPerName, external, local
  <2>1. CASE RecordRegistered \/ DeleteRecord
    BY <2>1 DEF RecordRegistered, DeleteRecord, SetServiceName
  <2>2. CASE LibraryRegisters
    BY <2>2 DEF LibraryRegisters, ScalarsOK
  <2>3. CASE Rename \/ Restart \/ RecordFails
    BY <2>3 DEF Rename, Restart, RecordFails
  <2>4. CASE UNCHANGED <<granted, own>>
    BY <2>4
  <2>5. QED
    BY <2>1, <2>2, <2>3, <2>4, NamesChange
<1>2. CASE UNCHANGED <<world, claims>>
  BY <1>1, <1>2 DEF OneHostPerName, Present, Of
<1>3. CASE LibraryRegisters
  BY <1>1, <1>3 DEF LibraryRegisters, OneHostPerName, Present, Of
<1>4. CASE LibraryWithdraws
  BY <1>1, <1>4 DEF LibraryWithdraws, OneHostPerName, Present, Of
<1>5. ASSUME NEW n \in PeerNames, HostChanges(n) PROVE OneHostPerName'
  <2>1. PICK I \in SUBSET Ifaces, port \in Ports :
          world' = (world \ Of(n, world)) \cup [name : {n}, iface : I, port : {port}]
    BY <1>5 DEF HostChanges
  <2>2. /\ claims' = claims /\ n \notin claims
        /\ \A m : m # n => Of(m, world') = Of(m, world)
    BY <1>5, HostChangesItsOwn DEF HostChanges
  <2>3. \A s \in world' :
          \/ s \in world /\ s.name # n
          \/ s.name = n /\ s.port = port
    BY <2>1 DEF Of
  <2>4. QED
    BY <1>1, <2>2, <2>3 DEF OneHostPerName, Present
<1>6. QED
  BY <1>2, <1>3, <1>4, <1>5, WorldChange

LEMMA ClaimedIsAbsent ==
  ASSUME OneHostPerName, NEW s \in Published, Present(s.name)
  PROVE  s \in world
BY DEF OneHostPerName, Published

LEMMA ToldIsPresentStep ==
  ASSUME Restrained, "interface" \notin Races
  PROVE  OneHostPerName /\ ToldIsPresent /\ [Next]_vars => ToldIsPresent'
<1> SUFFICES ASSUME OneHostPerName, ToldIsPresent, [Next]_vars PROVE ToldIsPresent'
  OBVIOUS
<1>1. ASSUME told' \subseteq told, world' = world PROVE ToldIsPresent'
  BY <1>1 DEF ToldIsPresent, Present, Of
<1>2. CASE BrowserAdds
  <2>1. PICK s \in Published : told' = told \cup {s}
    BY <1>2 DEF BrowserAdds, Tells
  <2>2. world' = world
    BY <1>2 DEF BrowserAdds, Tells, external
  <2>3. Present(s.name) => s \in world
    BY ClaimedIsAbsent
  <2>4. QED
    BY <2>1, <2>2, <2>3 DEF ToldIsPresent, Present, Of
<1>3. CASE BrowserRemoves
  BY <1>1, <1>3 DEF BrowserRemoves, Tells, external
<1>4. CASE DeleteBrowser
  BY <1>1, <1>4 DEF DeleteBrowser, external
<1>5. ASSUME NEW n \in PeerNames, HostChanges(n) PROVE ToldIsPresent'
  <2>1. PICK I \in SUBSET Ifaces, port \in Ports :
          LET new == [name : {n}, iface : I, port : {port}]
          IN  /\ Of(n, world) \subseteq new \/ new = {}
              /\ world' = (world \ Of(n, world)) \cup new
    BY <1>5 DEF HostChanges
  <2>2. /\ told' = told
        /\ \A m : m # n => Of(m, world') = Of(m, world)
    BY <1>5, HostChangesItsOwn
  <2>3. Of(n, told) = Of(n, world)
    BY <1>5, PublishedOf DEF HostChanges, Settled, Restrained
  <2>4. SUFFICES ASSUME NEW s \in told, Present(s.name)' PROVE s \in world'
    BY <2>2 DEF ToldIsPresent
  <2>5. CASE s.name # n
    BY <2>2, <2>4, <2>5 DEF ToldIsPresent, Present, Of
  <2>6. CASE s.name = n
    BY <2>1, <2>3, <2>4, <2>6 DEF Present, Of
  <2>7. QED
    BY <2>5, <2>6
<1>6. CASE LibraryRegisters \/ LibraryWithdraws
  BY <1>1, <1>6 DEF LibraryRegisters, LibraryWithdraws
<1>7. ASSUME UNCHANGED <<world, claims>>, ~BrowserAdds, ~BrowserRemoves, ~DeleteBrowser
      PROVE  ToldIsPresent'
  <2>1. told' = told
    BY <1>7, ToldChange
  <2>2. QED
    BY <1>1, <1>7, <2>1
<1>8. QED
  BY <1>2, <1>3, <1>4, <1>5, <1>6, <1>7, WorldChange

\* No host has a name that is ours.
LEMMA OurNamesAreAbsent ==
  ASSUME ScalarsOK, OneHostPerName
  PROVE  ~Present(granted) /\ ~Present(own) /\ ~Present(NoName)
<1>1. ~Present(NoName)
  BY DiscoveryAssumption DEF ScalarsOK, Present, Of, Services
<1>2. ~Present(granted)
  BY <1>1 DEF ScalarsOK, OneHostPerName
<1>3. QED
  BY <1>1, <1>2 DEF OneHostPerName

\* Neither a removal nor a new name of ours deletes the peer of a host that is
\* there.
LEMMA PresentAreSpared ==
  ASSUME ScalarsOK, PeersOK, OneHostPerName, ToldIsPresent,
         BrowserRemoves \/ RecordRegistered \/ DeleteRecord
  PROVE  /\ DOMAIN peers' = DOMAIN peers
         /\ \A i \in DOMAIN peers :
              /\ peers'[i].name = peers[i].name
              /\ Present(peers[i].name) => peers'[i] = peers[i]
<1>1. PICK n : ~Present(n) /\ (peers' = peers \/ peers' = WithoutPeer(n))
  <2>1. CASE BrowserRemoves
    <3>1. PICK s \in told \ Published : peers' = WithoutPeer(s.name)
      BY <2>1 DEF BrowserRemoves
    <3>2. ~Present(s.name)
      BY <3>1 DEF ToldIsPresent, Published
    <3>3. QED
      BY <3>1, <3>2
  <2>2. CASE RecordRegistered
    BY <2>2, OurNamesAreAbsent DEF RecordRegistered, SetServiceName
  <2>3. CASE DeleteRecord
    BY <2>3, OurNamesAreAbsent DEF DeleteRecord, SetServiceName
  <2>4. QED
    BY <2>1, <2>2, <2>3
<1>2. CASE peers' = peers
  BY <1>2
<1>3. CASE peers' = WithoutPeer(n)
  <2>1. /\ DOMAIN peers' = DOMAIN peers
        /\ \A i \in DOMAIN peers : peers'[i].name = peers[i].name
    BY <1>3, WithoutPeerHides DEF PeersOK
  <2>2. \A i \in DOMAIN peers : peers[i].name # n => peers'[i] = peers[i]
    BY <1>3, WithoutPeerKeeps DEF PeersOK
  <2>3. QED
    BY <1>1, <2>1, <2>2
<1>4. QED
  BY <1>1, <1>2, <1>3

\* peer_resolved lists what was asked about, unless it is ours, and changes
\* nothing else.
LEMMA AnswerIsListed ==
  ASSUME PeersOK, ResolversOK, NEW r \in resolvers, ResolverAnswers(r)
  PROVE  /\ \A i \in DOMAIN peers :
              /\ i \in DOMAIN peers' /\ peers'[i].name = peers[i].name
              /\ peers'[i].dying = peers[i].dying
              /\ peers'[i].port = IF peers[i].name = r.name THEN r.port ELSE peers[i].port
         /\ \A i \in DOMAIN peers' \ DOMAIN peers : ~peers'[i].dying
         /\ r.name # own => \E i \in DOMAIN peers' :
                               peers'[i].name = r.name /\ peers'[i].port = r.port
<1>1. peers' = Resolved(r.name, r.port)
  BY DEF ResolverAnswers
<1>2. peers \in Seq(PeerRecords) /\ \A i \in DOMAIN peers : peers[i] \in PeerRecords
  BY DEF PeersOK
<1>3. Found(r.name) = {i \in DOMAIN peers : peers[i].name = r.name}
  BY FoundIsNamed DEF PeersOK
<1>4. CASE Found(r.name) # {}
  <2>1. peers' = Updated(r.name, r.port)
    BY <1>1, <1>4 DEF Resolved
  <2>2. /\ DOMAIN peers' = DOMAIN peers
        /\ \A i \in DOMAIN peers :
             peers'[i] = IF peers[i].name = r.name THEN [peers[i] EXCEPT !.port = r.port]
                         ELSE peers[i]
    BY <1>3, <2>1 DEF Updated
  <2>3. \A i \in DOMAIN peers :
          /\ peers'[i].name = peers[i].name /\ peers'[i].dying = peers[i].dying
          /\ peers'[i].port = IF peers[i].name = r.name THEN r.port ELSE peers[i].port
    BY <1>2, <2>2 DEF PeerRecords
  <2>4. QED
    BY <1>3, <1>4, <2>2, <2>3
<1>5. CASE Found(r.name) = {} /\ own # r.name
  <2> DEFINE new == [name |-> r.name, port |-> r.port, dying |-> FALSE]
  <2>1. peers' = Append(peers, new)
    BY <1>1, <1>5 DEF Resolved, Added
  <2>2. new.name = r.name /\ new.port = r.port /\ new.dying = FALSE
    OBVIOUS
  <2> HIDE DEF new
  <2>3. /\ DOMAIN peers' = 1 .. Len(peers) + 1 /\ DOMAIN peers = 1 .. Len(peers)
        /\ \A i \in 1 .. Len(peers) : peers'[i] = peers[i]
        /\ peers'[Len(peers) + 1] = new /\ Len(peers) \in Nat
    BY <1>2, <2>1
  <2>4. \A i \in DOMAIN peers : i \in DOMAIN peers' /\ peers'[i] = peers[i]
    BY <2>3
  <2>5. \A i \in DOMAIN peers' \ DOMAIN peers : peers'[i] = new
    BY <2>3
  <2>6. Len(peers) + 1 \in DOMAIN peers'
    BY <2>3
  <2>7. QED
    BY <1>3, <1>5, <2>2, <2>3, <2>4, <2>5, <2>6
<1>6. CASE Found(r.name) = {} /\ own = r.name
  BY <1>1, <1>3, <1>6 DEF Resolved
<1>7. QED
  BY <1>4, <1>5, <1>6

\* The list after a deferred deletion.
LEMMA OthersStay ==
  ASSUME PeersOK, NEW i \in DOMAIN peers, DeletePeer(i)
  PROVE  /\ \A k \in DOMAIN peers' : \E j \in DOMAIN peers : peers'[k] = peers[j]
         /\ \A j \in DOMAIN peers : j # i => \E k \in DOMAIN peers' : peers'[k] = peers[j]
<1>1. /\ peers \in Seq(PeerRecords) /\ i \in 1 .. Len(peers)
      /\ peers' = RemoveAt(peers, i)
  BY DEF DeletePeer, PeersOK
<1>2. /\ peers' \in Seq(PeerRecords) /\ Len(peers') = Len(peers) - 1
      /\ \A k \in 1 .. Len(peers) - 1 :
           peers'[k] = IF k < i THEN peers[k] ELSE peers[k + 1]
  BY <1>1, RemoveAtIsShift
<1>3. DOMAIN peers = 1 .. Len(peers) /\ DOMAIN peers' = 1 .. Len(peers) - 1
      /\ Len(peers) \in Nat
  BY <1>1, <1>2
<1>4. ASSUME NEW k \in DOMAIN peers' PROVE \E j \in DOMAIN peers : peers'[k] = peers[j]
  BY <1>1, <1>2, <1>3
<1>5. ASSUME NEW j \in DOMAIN peers, j # i
      PROVE  \E k \in DOMAIN peers' : peers'[k] = peers[j]
  <2>1. CASE j < i
    <3>1. j \in DOMAIN peers' /\ peers'[j] = peers[j]
      BY <1>1, <1>2, <1>3, <2>1
    <3>2. QED
      BY <3>1
  <2>2. CASE j > i
    <3>1. j - 1 \in DOMAIN peers' /\ peers'[j - 1] = peers[j]
      BY <1>1, <1>2, <1>3, <2>2
    <3>2. QED
      BY <3>1
  <2>3. QED
    BY <1>1, <1>3, <1>5, <2>1, <2>2
<1>6. QED
  BY <1>4, <1>5

LEMMA OldPeerIsForgottenStep ==
  ASSUME Restrained
  PROVE  ScalarsOK /\ ResolversOK /\ PeersOK /\ OneHostPerName /\ ToldIsPresent
           /\ OldPeerIsForgotten /\ [Next]_vars => OldPeerIsForgotten'
<1> SUFFICES ASSUME ScalarsOK, ResolversOK, PeersOK, OneHostPerName, ToldIsPresent,
                    OldPeerIsForgotten, [Next]_vars
             PROVE  OldPeerIsForgotten'
  OBVIOUS
<1>1. CASE Poll
  BY <1>1 DEF Poll, Idle, Deleting, OldPeerIsForgotten
<1>2. CASE BrowserAdds
  <2>1. "browser" \in readable /\ UNCHANGED <<peers, world>>
    BY <1>2 DEF BrowserAdds, Tells, external
  <2>2. QED
    BY <2>1 DEF OldPeerIsForgotten, Present, Of
<1>3. ASSUME ~Poll, ~BrowserAdds,
             NEW i \in DOMAIN peers', peers'[i].dying, Of(peers'[i].name, world') # {}
      PROVE  /\ "browser" \notin readable'
             /\ \A r \in resolvers' : r.name # peers'[i].name
  <2>1. SUFFICES /\ "browser" \notin readable
                 /\ \A r \in resolvers : r.name # peers'[i].name
    BY <1>3, ReadableChange, QueriesKeepNames
  <2>2. ASSUME NEW j \in DOMAIN peers, peers[j].dying, peers[j].name = peers'[i].name,
               Present(peers[j].name)
        PROVE  /\ "browser" \notin readable
               /\ \A r \in resolvers : r.name # peers'[i].name
    BY <2>2 DEF OldPeerIsForgotten
  <2>3. ASSUME NEW n \in PeerNames, HostChanges(n)
        PROVE  /\ "browser" \notin readable
               /\ \A r \in resolvers : r.name # peers'[i].name
    <3>1. /\ i \in DOMAIN peers /\ peers[i] = peers'[i]
          /\ peers[i].name # n => Present(peers[i].name)
      BY <1>3, <2>3, HostChangesItsOwn DEF Present
    <3>2. "browser" \notin readable /\ \A r \in resolvers : r.name # n
      BY <2>3 DEF HostChanges, Telling, Settled, Restrained
    <3>3. QED
      BY <1>3, <2>2, <3>1, <3>2
  <2>4. ASSUME world' = world
        PROVE  /\ "browser" \notin readable
               /\ \A r \in resolvers : r.name # peers'[i].name
    <3>0. Present(peers'[i].name)
      BY <1>3, <2>4 DEF Present, Of
    <3>1. CASE UNCHANGED peers
      BY <1>3, <2>2, <3>0, <3>1
    <3>2. CASE BrowserRemoves \/ RecordRegistered \/ DeleteRecord
      <4>1. /\ i \in DOMAIN peers /\ peers'[i].name = peers[i].name
            /\ Present(peers[i].name) => peers'[i] = peers[i]
        BY <3>2, PresentAreSpared
      <4>2. QED
        BY <1>3, <2>2, <3>0, <4>1
    <3>3. CASE DeleteBrowser
      BY <1>3, <3>3 DEF DeleteBrowser
    <3>4. ASSUME NEW r \in resolvers, ResolverAnswers(r)
          PROVE  /\ "browser" \notin readable
                 /\ \A q \in resolvers : q.name # peers'[i].name
      <4>1. /\ i \in DOMAIN peers
            /\ peers'[i].name = peers[i].name /\ peers[i].dying
        BY <1>3, <3>4, AnswerIsListed
      <4>2. QED
        BY <2>2, <3>0, <4>1
    <3>5. ASSUME NEW k \in DOMAIN peers, DeletePeer(k)
          PROVE  /\ "browser" \notin readable
                 /\ \A r \in resolvers : r.name # peers'[i].name
      <4>1. PICK j \in DOMAIN peers : peers'[i] = peers[j]
        BY <3>5, OthersStay
      <4>2. QED
        BY <1>3, <2>2, <3>0, <4>1
    <3>6. QED
      BY <3>1, <3>2, <3>3, <3>4, <3>5, PeersChange
  <2>5. CASE LibraryRegisters \/ LibraryWithdraws
    BY <2>4, <2>5 DEF LibraryRegisters, LibraryWithdraws
  <2>6. QED
    BY <2>3, <2>4, <2>5, WorldChange
<1>4. CASE ~Poll /\ ~BrowserAdds
  BY <1>3, <1>4 DEF OldPeerIsForgotten, Present
<1>5. QED
  BY <1>1, <1>2, <1>4

LEMMA AnswersAreTrueStep ==
  ASSUME Restrained
  PROVE  ResolversOK /\ OneHostPerName /\ AnswersAreTrue /\ [Next]_vars
           => AnswersAreTrue'
<1> SUFFICES ASSUME ResolversOK, OneHostPerName, AnswersAreTrue, [Next]_vars
             PROVE  AnswersAreTrue'
  OBVIOUS
<1>1. ASSUME NEW n \in PeerNames, HostChanges(n) PROVE AnswersAreTrue'
  <2>1. /\ resolvers' = resolvers
        /\ \A m : m # n => Of(m, world') = Of(m, world)
    BY <1>1, HostChangesItsOwn
  <2>2. \A r \in resolvers : r.name # n
    BY <1>1 DEF HostChanges, Settled, Restrained
  <2>3. ASSUME NEW r \in resolvers, NEW s \in world', r.name = s.name PROVE s \in world
    BY <2>1, <2>2, <2>3 DEF Of
  <2>4. QED
    BY <2>1, <2>3 DEF AnswersAreTrue
<1>2. ASSUME world' = world PROVE AnswersAreTrue'
  <2>1. CASE Poll
    <3>1. ASSUME NEW q \in resolvers', q.state \in {"answered", "readable"}
          PROVE  \E r \in resolvers : /\ r.state \in {"answered", "readable"}
                                      /\ r.name = q.name /\ r.port = q.port
      <4>1. PICK r \in resolvers :
              q = [r EXCEPT !.state = IF @ = "answered" THEN "readable" ELSE @]
        BY <2>1 DEF Poll
      <4>2. /\ q.name = r.name /\ q.port = r.port
            /\ q.state = IF r.state = "answered" THEN "readable" ELSE r.state
        BY <4>1 DEF ResolversOK, IsResolver
      <4>3. QED
        BY <3>1, <4>2
    <3>2. QED
      BY <1>2, <3>1 DEF AnswersAreTrue
  <2>2. CASE BrowserAdds
    <3>1. PICK s : resolvers' = resolvers \cup {NewResolver(s)}
      BY <2>2 DEF BrowserAdds
    <3>2. NewResolver(s).state = "asked"
      BY DEF NewResolver
    <3>3. QED
      BY <1>2, <3>1, <3>2 DEF AnswersAreTrue
  <2>3. ASSUME NEW r \in resolvers, ResolverAnswers(r) \/ ResolverFails(r)
        PROVE  AnswersAreTrue'
    <3>1. [r EXCEPT !.state = "dying"].state = "dying"
      BY DEF ResolversOK, IsResolver
    <3>2. QED
      BY <1>2, <2>3, <3>1 DEF ResolverAnswers, ResolverFails, Becomes, AnswersAreTrue
  <2>4. ASSUME NEW r \in resolvers, LibraryResolves(r) PROVE AnswersAreTrue'
    <3>1. PICK s \in Published :
            /\ s.name = r.name
            /\ Becomes(r, [r EXCEPT !.state = "answered", !.port = s.port])
      BY <2>4 DEF LibraryResolves, Of
    <3> DEFINE q == [r EXCEPT !.state = "answered", !.port = s.port]
    <3>2. q.name = r.name /\ q.port = s.port
      BY DEF ResolversOK, IsResolver
    <3>3. ASSUME NEW t \in world, t.name = r.name PROVE s.port = t.port
      <4>1. s \in world
        BY <3>1, <3>3, ClaimedIsAbsent DEF Present, Of
      <4>2. QED
        BY <3>1, <3>3, <4>1 DEF OneHostPerName
    <3> HIDE DEF q
    <3>4. resolvers' = (resolvers \ {r}) \cup {q}
      BY <3>1 DEF Becomes, q
    <3>5. QED
      BY <1>2, <3>2, <3>3, <3>4 DEF AnswersAreTrue
  <2>5. CASE DeleteBrowser \/ (\E r \in resolvers : DeleteResolver(r))
               \/ UNCHANGED resolvers
    <3>1. resolvers' \subseteq resolvers
      BY <2>5 DEF DeleteBrowser, DeleteResolver
    <3>2. QED
      BY <1>2, <3>1 DEF AnswersAreTrue
  <2>6. QED
    BY <2>1, <2>2, <2>3, <2>4, <2>5, ResolversChange
<1>3. CASE LibraryRegisters \/ LibraryWithdraws
  BY <1>2, <1>3 DEF LibraryRegisters, LibraryWithdraws
<1>4. QED
  BY <1>1, <1>2, <1>3, WorldChange

\* The witness of AskedOrListed is kept by a step that keeps the live queries
\* and the peers that are there.
LEMMA FollowedStays ==
  ASSUME NEW s, AskedOrListed(s),
         \A r \in resolvers : r.state # "dying" =>
           \E q \in resolvers' : q.state # "dying" /\ q.name = r.name /\ q.iface = r.iface,
         \A i \in DOMAIN peers : ~peers[i].dying /\ peers[i].name = s.name =>
           \E k \in DOMAIN peers' : peers'[k] = peers[i]
  PROVE  AskedOrListed(s)'
<1>1. CASE \E r \in resolvers : r.state # "dying" /\ r.name = s.name /\ r.iface = s.iface
  <2>1. PICK r \in resolvers : r.state # "dying" /\ r.name = s.name /\ r.iface = s.iface
    BY <1>1
  <2>2. PICK q \in resolvers' : q.state # "dying" /\ q.name = r.name /\ q.iface = r.iface
    BY <2>1
  <2>3. QED
    BY <2>1, <2>2 DEF AskedOrListed
<1>2. CASE \E i \in DOMAIN peers :
             ~peers[i].dying /\ peers[i].name = s.name /\ peers[i].port = s.port
  <2>1. PICK i \in DOMAIN peers :
          ~peers[i].dying /\ peers[i].name = s.name /\ peers[i].port = s.port
    BY <1>2
  <2>2. PICK k \in DOMAIN peers' : peers'[k] = peers[i]
    BY <2>1
  <2>3. QED
    BY <2>1, <2>2 DEF AskedOrListed
<1>3. QED
  BY <1>1, <1>2 DEF AskedOrListed

\* Only an answer, or the end of the browser, ends a query.
LEMMA QueriesStay ==
  ASSUME "resolver" \notin Faults, ResolversOK, [Next]_vars, ~DeleteBrowser,
         NEW r \in resolvers, r.state # "dying", ~ResolverAnswers(r)
  PROVE  \E q \in resolvers' : q.state # "dying" /\ q.name = r.name /\ q.iface = r.iface
<1>1. CASE Poll
  <2> DEFINE q == [r EXCEPT !.state = IF @ = "answered" THEN "readable" ELSE @]
  <2>1. q \in resolvers'
    BY <1>1 DEF Poll
  <2>2. q.state # "dying" /\ q.name = r.name /\ q.iface = r.iface
    BY DEF ResolversOK, IsResolver
  <2> HIDE DEF q
  <2>3. QED
    BY <2>1, <2>2
<1>2. ASSUME NEW u \in resolvers, ResolverAnswers(u) \/ DeleteResolver(u)
      PROVE  r \in resolvers'
  BY <1>2 DEF ResolverAnswers, DeleteResolver, Becomes
<1>3. ASSUME NEW u \in resolvers, LibraryResolves(u)
      PROVE  \E q \in resolvers' : q.state # "dying" /\ q.name = r.name /\ q.iface = r.iface
  <2>1. PICK s : Becomes(u, [u EXCEPT !.state = "answered", !.port = s.port])
    BY <1>3 DEF LibraryResolves
  <2> DEFINE q == [u EXCEPT !.state = "answered", !.port = s.port]
  <2>2. q.state = "answered" /\ q.name = u.name /\ q.iface = u.iface
    BY DEF ResolversOK, IsResolver
  <2>3. q \in resolvers' /\ (r = u \/ r \in resolvers')
    BY <2>1 DEF Becomes
  <2> HIDE DEF q
  <2>4. QED
    BY <2>2, <2>3
<1>4. CASE BrowserAdds
  BY <1>4 DEF BrowserAdds
<1>5. \A u \in resolvers : ~ResolverFails(u)
  BY DEF ResolverFails
<1>6. QED
  BY <1>1, <1>2, <1>3, <1>4, <1>5, ResolversChange

LEMMA ToldIsFollowedStep ==
  ASSUME Restrained, "resolver" \notin Faults
  PROVE  ScalarsOK /\ ResolversOK /\ PeersOK /\ NoneLost /\ [Next]_vars
           => ToldIsFollowed'
<1> SUFFICES ASSUME ScalarsOK, ResolversOK, PeersOK, NoneLost, [Next]_vars
             PROVE  ToldIsFollowed'
  OBVIOUS
<1> USE DEF NoneLost
<1>1. CASE DeleteBrowser
  BY <1>1 DEF DeleteBrowser, ToldIsFollowed
<1>2. CASE ~DeleteBrowser
  <2> SUFFICES ASSUME NEW s \in told', s \in world' PROVE AskedOrListed(s)'
    BY DEF ToldIsFollowed
  <2>1. s \in told \/ (BrowserAdds /\ AskedOrListed(s)')
    <3>1. CASE BrowserAdds
      <4>1. PICK t : told' = told \cup {t} /\ resolvers' = resolvers \cup {NewResolver(t)}
        BY <3>1 DEF BrowserAdds, Tells
      <4>2. /\ NewResolver(t).name = t.name /\ NewResolver(t).iface = t.iface
            /\ NewResolver(t).state = "asked"
        BY DEF NewResolver
      <4>3. NewResolver(t) \in resolvers'
        BY <4>1
      <4>4. CASE s = t
        BY <3>1, <4>2, <4>3, <4>4 DEF AskedOrListed
      <4>5. QED
        BY <4>1, <4>4
    <3>2. CASE BrowserRemoves
      BY <3>2 DEF BrowserRemoves, Tells
    <3>3. QED
      BY <1>2, <3>1, <3>2, ToldChange
  <2>2. s \in told => s \in world
    <3>1. CASE UNCHANGED world
      BY <3>1
    <3>2. CASE LibraryRegisters \/ LibraryWithdraws
      BY <3>2 DEF LibraryRegisters, LibraryWithdraws
    <3>3. ASSUME NEW n \in PeerNames, HostChanges(n), s \in told PROVE s \in world
      <4>1. Of(n, told) = Of(n, world)
        BY <3>3, PublishedOf DEF HostChanges, Settled, Restrained
      <4>2. s.name # n => s \in Of(s.name, world)
        BY <3>3, HostChangesItsOwn DEF Of
      <4>3. QED
        BY <3>3, <4>1, <4>2 DEF Of
    <3>4. QED
      BY <3>1, <3>2, <3>3, WorldChange
  <2>3. CASE s \in told
    <3>0. s \in world /\ AskedOrListed(s) /\ Present(s.name)
      BY <2>2, <2>3 DEF ToldIsFollowed, Present, Of
    <3>1. ASSUME NEW r \in resolvers, ResolverAnswers(r) PROVE AskedOrListed(s)'
      <4>1. CASE r.name = s.name
        <5>1. r.port = s.port
          BY <3>0, <3>1, <4>1 DEF ResolverAnswers, AnswersAreTrue
        <5>2. r.name # own
          BY <3>0, <4>1, OurNamesAreAbsent
        <5>3. PICK i \in DOMAIN peers' : peers'[i].name = r.name /\ peers'[i].port = r.port
          BY <3>1, <5>2, AnswerIsListed
        <5>4. ~peers'[i].dying
          <6>1. CASE i \in DOMAIN peers
            <7>1. peers'[i].name = peers[i].name /\ peers'[i].dying = peers[i].dying
              BY <3>1, <6>1, AnswerIsListed
            <7>2. QED
              BY <3>0, <4>1, <5>3, <6>1, <7>1 DEF OldPeerIsForgotten
          <6>2. CASE i \notin DOMAIN peers
            BY <3>1, <6>2, AnswerIsListed
          <6>3. QED
            BY <6>1, <6>2
        <5>5. QED
          BY <4>1, <5>1, <5>3, <5>4 DEF AskedOrListed
      <4>2. CASE r.name # s.name
        <5>1. CASE \E q \in resolvers : q.state # "dying" /\ q.name = s.name /\ q.iface = s.iface
          BY <3>1, <4>2, <5>1 DEF ResolverAnswers, Becomes, AskedOrListed
        <5>2. ASSUME NEW i \in DOMAIN peers, ~peers[i].dying, peers[i].name = s.name,
                     peers[i].port = s.port
              PROVE  AskedOrListed(s)'
          <6>1. /\ i \in DOMAIN peers' /\ peers'[i].name = s.name /\ ~peers'[i].dying
                /\ peers'[i].port = s.port
            BY <3>1, <4>2, <5>2, AnswerIsListed
          <6>2. QED
            BY <6>1 DEF AskedOrListed
        <5>3. QED
          BY <3>0, <5>1, <5>2 DEF AskedOrListed
      <4>3. QED
        BY <4>1, <4>2
    <3>2. ASSUME \A r \in resolvers : ~ResolverAnswers(r) PROVE AskedOrListed(s)'
      <4>1. \A r \in resolvers : r.state # "dying" =>
              \E q \in resolvers' : q.state # "dying" /\ q.name = r.name /\ q.iface = r.iface
        BY <1>2, <3>2, QueriesStay
      <4>2. ASSUME NEW i \in DOMAIN peers, ~peers[i].dying, peers[i].name = s.name
            PROVE  \E k \in DOMAIN peers' : peers'[k] = peers[i]
        <5>1. CASE UNCHANGED peers
          BY <5>1
        <5>2. CASE BrowserRemoves \/ RecordRegistered \/ DeleteRecord
          BY <3>0, <4>2, <5>2, PresentAreSpared
        <5>3. ASSUME NEW j \in DOMAIN peers, DeletePeer(j)
              PROVE  \E k \in DOMAIN peers' : peers'[k] = peers[i]
          <6>1. i # j
            BY <4>2, <5>3 DEF DeletePeer
          <6>2. QED
            BY <5>3, <6>1, OthersStay
        <5>4. QED
          BY <1>2, <3>2, <5>1, <5>2, <5>3, PeersChange
      <4>3. QED
        BY <3>0, <4>1, <4>2, FollowedStays
    <3>3. QED
      BY <3>1, <3>2
  <2>4. QED
    BY <2>1, <2>3
<1>3. QED
  BY <1>1, <1>2

\* When all is said, the queries that remain are of services that have gone.
LEMMA QuietHasAll == NoneLost => NoneMissing
<1> SUFFICES ASSUME ToldIsFollowed, Quiet, NEW s \in world
             PROVE  \E i \in DOMAIN peers : /\ peers[i].name = s.name
                                            /\ peers[i].port = s.port
  BY DEF NoneLost, NoneMissing, Others, Listed
<1>1. s \in Published /\ s \in told
  BY DEF Quiet, Published
<1>2. \A r \in resolvers : ~(r.name = s.name /\ r.iface = s.iface)
  BY <1>1 DEF Quiet, Of
<1>3. QED
  BY <1>1, <1>2 DEF ToldIsFollowed, AskedOrListed

LEMMA NoneLostStep ==
  ASSUME Restrained, "interface" \notin Races, "resolver" \notin Faults
  PROVE  ScalarsOK /\ ResolversOK /\ PeersOK /\ NoneLost /\ [Next]_vars => NoneLost'
<1> SUFFICES ASSUME ScalarsOK, ResolversOK, PeersOK, NoneLost, [Next]_vars
             PROVE  NoneLost'
  OBVIOUS
<1>1. OneHostPerName'
  BY OneHostPerNameStep DEF NoneLost
<1>2. ToldIsPresent'
  BY ToldIsPresentStep DEF NoneLost
<1>3. OldPeerIsForgotten'
  BY OldPeerIsForgottenStep DEF NoneLost
<1>4. AnswersAreTrue'
  BY AnswersAreTrueStep DEF NoneLost
<1>5. ToldIsFollowed'
  BY ToldIsFollowedStep
<1>6. QED
  BY <1>1, <1>2, <1>3, <1>4, <1>5 DEF NoneLost

LEMMA InitLosesNone == Init => NoneLost
<1> SUFFICES ASSUME Init PROVE NoneLost
  OBVIOUS
<1>1. \A s, t \in world : s.port = t.port
  <2>1. PICK N \in SUBSET PeerNames, p \in Ports :
          world = [name : N, iface : Ifaces, port : {p}]
    BY DEF Init
  <2>2. QED
    BY <2>1
<1>2. claims = {} /\ own = NoName /\ told = {} /\ peers = << >> /\ resolvers = {}
  BY DEF Init
<1>3. QED
  BY <1>1, <1>2 DEF NoneLost, OneHostPerName, ToldIsPresent, OldPeerIsForgotten,
     AnswersAreTrue, ToldIsFollowed

\* ... and every peer that is there is listed, with its port: no answer is lost to
\* a peer being deleted, no peer is deleted for another's removal or for our name,
\* and none keeps an old port.  A change waits until the last one about its host
\* is told, hosts leave all their interfaces at once, and queries do not fail.
THEOREM PeersAreFound ==
  ASSUME "crossing" \notin Races, "interface" \notin Races, "resolver" \notin Faults
  PROVE  Spec => []NoneMissing
<1>1. ScalarsOK /\ ResolversOK /\ PeersOK /\ NoneLost /\ [Next]_vars => NoneLost'
  BY NoneLostStep DEF Restrained
<1>2. QED
  BY InitOK, InitLosesNone, ScalarsStep, ResolversStep, PeersStep, <1>1, QuietHasAll, PTL
     DEF Spec

\* resolver_destroyed ends a batch when no query is left: what the browser was
\* told of by then is listed, whatever was resolved, removed or renamed meanwhile.
\* The restrictions are those of PeersAreFound.
THEOREM BatchesEndListed ==
  ASSUME "crossing" \notin Races, "interface" \notin Races, "resolver" \notin Faults
  PROVE  Spec => BatchIsListed
<1>1. ScalarsOK /\ ResolversOK /\ PeersOK /\ NoneLost /\ [Next]_vars => NoneLost'
  BY NoneLostStep DEF Restrained
<1>2. NoneLost /\ [Next]_vars /\ batchOpen /\ ~batchOpen' /\ browser' = "Alive" =>
        \A s \in told \cap Published :
          \/ s.port = OurPort \/ s.name = own
          \/ \E p \in Listed : p.name = s.name
  <2> SUFFICES ASSUME NoneLost, [Next]_vars, batchOpen, ~batchOpen', browser' = "Alive",
                      NEW s \in told \cap Published, s.port # OurPort
               PROVE  \E p \in Listed : p.name = s.name
    OBVIOUS
  <2>1. PICK r \in resolvers : DeleteResolver(r)
    <3>1. ~BrowserAdds /\ ~DeleteBrowser
      BY DEF BrowserAdds, DeleteBrowser
    <3>2. ASSUME Poll \/ BrowserRemoves \/ RecordRegistered \/ DeleteRecord
                   \/ LibraryRegisters \/ LibraryWithdraws \/ Rename \/ Restart
          PROVE  UNCHANGED batchOpen
      BY <3>2 DEF Poll, BrowserRemoves, RecordRegistered, DeleteRecord, LibraryRegisters,
         LibraryWithdraws, Rename, Restart
    <3>3. ASSUME \/ RecordFails \/ BrowserFails \/ UNCHANGED vars
                 \/ \E r \in resolvers :
                      ResolverAnswers(r) \/ LibraryResolves(r) \/ ResolverFails(r)
                 \/ \E i \in DOMAIN peers : DeletePeer(i)
                 \/ \E n \in PeerNames : HostChanges(n)
          PROVE  UNCHANGED batchOpen
      BY <3>3 DEF RecordFails, BrowserFails, ResolverAnswers, LibraryResolves,
         ResolverFails, DeletePeer, HostChanges, vars
    <3>4. QED
      BY <3>1, <3>2, <3>3 DEF Next, EventLoop, Library, Environment
  <2>2. resolvers = {r} /\ r.state = "dying"
    BY <2>1 DEF DeleteResolver, EndsBatch
  <2>3. s \in world
    BY DEF Published
  <2>4. PICK i \in DOMAIN peers : peers[i].name = s.name
    BY <2>2, <2>3 DEF NoneLost, ToldIsFollowed, AskedOrListed
  <2>5. [name |-> peers[i].name, port |-> peers[i].port] \in Listed
    BY DEF Listed
  <2>6. QED
    BY <2>4, <2>5
<1>3. QED
  BY InitOK, InitLosesNone, ScalarsStep, ResolversStep, PeersStep, <1>1, <1>2, PTL
     DEF Spec, BatchIsListed
=============================================================================
