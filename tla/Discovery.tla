----------------------------- MODULE Discovery -----------------------------
(***************************************************************************)
(* Discovery of the peers on the local network: Browser, Resolver,         *)
(* ServiceRecord and LocalDnsPeer (core_discovery.h), started, restarted   *)
(* and renamed by DiscoverySubSystem (gui_discovery_subsystem.h), over the *)
(* dns_sd library.                                                         *)
(*                                                                         *)
(* The program is one event loop.  Poll starts an iteration with the       *)
(* sockets that are readable; their handlers run, in any order; then the   *)
(* objects given to deleteLater are deleted (Delete...), before the next   *)
(* Poll and before the next event of the user.                             *)
(*                                                                         *)
(* External: the library.  world is what the other hosts publish, claims   *)
(* what it publishes for us.  It tells the browser each service it does    *)
(* not know yet and each one that is gone, in any order; MoreComing is     *)
(* only set while something else is left to tell.  It gives two hosts      *)
(* different names.  A resolve query of a service that is not published    *)
(* has no answer.                                                          *)
(***************************************************************************)
EXTENDS Naturals, Sequences, SequencesExt

CONSTANTS
  PeerNames,     \* service names other hosts may have
  LocalNames,    \* service names our record may ask for or be given
  Ifaces,        \* network interfaces
  Ports,         \* ports the other peers may listen on
  MoreComing,    \* whether the library sets kDNSServiceFlagsMoreComing
  Races, Faults, \* what the environment may do
  MaxChanges     \* bound: changes of the world, renames and faults

RaceKinds ==
  {"crossing",   \* something changes while an earlier change is being told
   "interface"}  \* a host leaves one of its interfaces only
FaultKinds == {"record", "browser", "resolver"} \* the services that may fail

NoName == "" \* the empty QString
OurPort == 0 \* port of our own record
Names == PeerNames \cup LocalNames

ASSUME DiscoveryAssumption ==
  /\ NoName \notin Names
  /\ LocalNames \ PeerNames # {} \* the library always finds a free name
  /\ Ports \subseteq Nat \ {OurPort} /\ MaxChanges \in Nat
  /\ MoreComing \in BOOLEAN
  /\ Races \subseteq RaceKinds /\ Faults \subseteq FaultKinds

VARIABLES
  world,       \* services published by other hosts
  claims,      \* names published for us
  granted,     \* the one given to the current record
  told,        \* services the browser was told of
  changes,     \* counts towards MaxChanges
  requested,   \* LocalDnsPeer::requested_username, as a service name
  own,         \* LocalDnsPeer::service_name
  record,      \* DiscoverySubSystem::service_record
  browser,     \* DiscoverySubSystem::browser
  errors,      \* current_errors is not empty: the restart button is shown
  resolvers,   \* Resolver children of the browser
  peers,       \* DnsPeer children of the browser
  more,        \* Browser::callback_more_coming
  batchOpen,   \* a peer was announced since the last end_of_batch
  readable     \* sockets of the record and browser still to be handled

external == <<world, claims, granted>>
local == <<requested, own, record, browser, errors>>
vars == <<external, told, changes, local, resolvers, peers, more, batchOpen,
          readable>>

Services == [name : Names, iface : Ifaces, port : Ports \cup {OurPort}]
Published ==
  world \cup [name : claims, iface : Ifaces, port : {OurPort}]
Of(n, S) == {s \in S : s.name = n}

\* Resolving, answered by the library, its socket readable, in deleteLater.
ResolverStates == {"asked", "answered", "readable", "dying"}
RecordStates == {"None", "Registering", "Registered", "Renaming", "Failed", "Crashed"}
BrowserStates == {"None", "Alive", "Failed"}

IsResolver(r) ==
  r \in [name : Names, iface : Ifaces, nth : {r.nth}, state : ResolverStates,
         port : Ports \cup {OurPort}]
PeerRecords == [name : Names, port : Ports \cup {OurPort}, dying : BOOLEAN]

TypeOK ==
  /\ world \subseteq Services /\ told \subseteq Services
  /\ claims \subseteq LocalNames /\ granted \in claims \cup {NoName}
  /\ changes \in 0 .. MaxChanges
  /\ requested \in LocalNames /\ own \in LocalNames \cup {NoName}
  /\ record \in RecordStates /\ browser \in BrowserStates
  /\ \A r \in resolvers : IsResolver(r)
  /\ peers \in Seq(PeerRecords)
  /\ errors \in BOOLEAN /\ more \in BOOLEAN /\ batchOpen \in BOOLEAN
  /\ own # NoName => record \notin {"None", "Registering"}
  /\ readable \subseteq {"record", "browser"}

-----------------------------------------------------------------------------
(* Iterations of the event loop *)

Dispatching ==
  readable # {} \/ \E r \in resolvers : r.state = "readable"

Deleting ==
  \/ record \in {"Renaming", "Failed"} \/ browser = "Failed"
  \/ \E r \in resolvers : r.state = "dying"
  \/ \E i \in DOMAIN peers : peers[i].dying

Idle == ~Dispatching /\ ~Deleting /\ record # "Crashed"

Readable ==
  (IF browser = "Alive" /\ told # Published THEN {"browser"} ELSE {})
    \cup (IF record \in {"Registering", "Registered"} /\ granted \notin {NoName, own}
          THEN {"record"} ELSE {})

\* What the library has to tell the browser and the record may reach their
\* sockets later; an answer is in its socket.
Poll ==
  /\ Idle
  /\ readable' \in SUBSET Readable
  /\ resolvers' = {[r EXCEPT !.state = IF @ = "answered" THEN "readable" ELSE @] :
                     r \in resolvers}
  /\ \/ readable' # {} \/ resolvers' # resolvers
  /\ UNCHANGED <<external, told, changes, local, peers, more, batchOpen>>

\* Browser::find_peer_by_service_name: a peer in deleteLater is still a child.
\* The set is empty or holds the position of the first one, which is returned.
Found(n) ==
  {i \in DOMAIN peers : /\ peers[i].name = n
                        /\ \A j \in 1 .. i - 1 : peers[j].name # n}
\* Mutant of WithoutPeer: the peer is found and not deleted.
KeptPeer(n) == peers

WithoutPeer(n) ==
  [i \in DOMAIN peers |-> IF i \in Found(n) THEN [peers[i] EXCEPT !.dying = TRUE]
                          ELSE peers[i]]

\* Mutant of SetServiceName: the browser is not connected to the local peer.
SetNameOnly(n) ==
  /\ own' = n
  /\ UNCHANGED peers

\* LocalDnsPeer::set_service_name and Browser::service_name_changed.
SetServiceName(n) ==
  /\ own' = n
  /\ peers' = IF n # own THEN WithoutPeer(n) ELSE peers

-----------------------------------------------------------------------------
(* Browser and resolvers *)

\* The end of a browse callback: the library may have more to tell at once.
Tells(T) ==
  /\ told' = T
  /\ more' \in BOOLEAN /\ (more' => MoreComing /\ T # Published)
  /\ readable' \in (IF T = Published THEN {readable \ {"browser"}}
                    ELSE {readable, readable \ {"browser"}})
  /\ UNCHANGED <<external, changes, local>>

\* nth tells apart the queries of a service that was announced again.
NewResolver(s) ==
  [name |-> s.name, iface |-> s.iface, state |-> "asked", port |-> OurPort,
   nth |-> 1 + Max({0} \cup {r.nth : r \in {q \in resolvers :
                                 q.name = s.name /\ q.iface = s.iface}})]

\* Resolver r is now q.
Becomes(r, q) == resolvers' = (resolvers \ {r}) \cup {q}

BrowserAdds ==
  /\ "browser" \in readable
  /\ \E s \in Published \ told :
       /\ \A t \in told : t.name = s.name => t.iface # s.iface
       /\ Tells(told \cup {s})
       /\ resolvers' = resolvers \cup {NewResolver(s)}
       /\ batchOpen' = TRUE /\ UNCHANGED peers

BrowserRemoves ==
  /\ "browser" \in readable
  /\ \E s \in told \ Published :
       /\ Tells(told \ {s})
       /\ peers' = WithoutPeer(s.name)
       /\ UNCHANGED <<resolvers, batchOpen>>

\* What peer_resolved does of a query: update the peer, or add it.
Updated(n, port) ==
  [i \in DOMAIN peers |-> IF i \in Found(n) THEN [peers[i] EXCEPT !.port = port]
                          ELSE peers[i]]
Added(n, port) == Append(peers, [name |-> n, port |-> port, dying |-> FALSE])

\* Mutants of Resolved: a peer found is not updated but added again; our own
\* service is not ignored; it is known by the name we asked for.
AddedAgain(n, port) == IF own # n THEN Added(n, port) ELSE peers
ResolvedOurs(n, port) ==
  IF Found(n) # {} THEN Updated(n, port) ELSE Added(n, port)
ResolvedByRequest(n, port) ==
  IF Found(n) # {} THEN Updated(n, port)
  ELSE IF requested # n THEN Added(n, port) ELSE peers

\* Browser::peer_resolved: the peers, after a query of that name and port.
Resolved(n, port) ==
  IF Found(n) # {} THEN Updated(n, port)
  ELSE IF own # n THEN Added(n, port) ELSE peers

ResolverAnswers(r) ==
  /\ r.state = "readable"
  /\ peers' = Resolved(r.name, r.port)
  /\ Becomes(r, [r EXCEPT !.state = "dying"])
  /\ UNCHANGED <<external, told, changes, local, more, batchOpen, readable>>

ResolverFails(r) ==
  /\ "resolver" \in Faults /\ changes < MaxChanges /\ changes' = changes + 1
  /\ r.state = "readable" \/ (r.state = "asked" /\ Idle)
  /\ Becomes(r, [r EXCEPT !.state = "dying"])
  /\ UNCHANGED <<external, told, local, peers, more, batchOpen, readable>>

BrowserFails ==
  /\ "browser" \in Faults /\ changes < MaxChanges /\ changes' = changes + 1
  /\ browser = "Alive" /\ (Idle \/ "browser" \in readable)
  /\ browser' = "Failed" /\ readable' = readable \ {"browser"}
  /\ UNCHANGED <<external, told, requested, own, record, errors, resolvers, peers,
                 more, batchOpen>>

-----------------------------------------------------------------------------
(* Service record *)

RecordRegistered ==
  /\ "record" \in readable /\ readable' = readable \ {"record"}
  /\ record' = "Registered"
  /\ SetServiceName(granted)
  /\ UNCHANGED <<external, told, changes, requested, browser, errors, resolvers,
                 more, batchOpen>>

\* The browser and resolvers know nothing of our services but what they are
\* told; Settled is the environment's restraint without "crossing".
Settled(n) ==
  \/ "crossing" \in Races
  \/ /\ Of(n, told) = Of(n, Published)
     /\ \A r \in resolvers : r.name # n

RecordFails ==
  /\ "record" \in Faults /\ changes < MaxChanges /\ changes' = changes + 1
  /\ record \in {"Registering", "Registered"} /\ (Idle \/ "record" \in readable)
  /\ granted = NoName \/ Settled(granted)
  /\ record' = "Failed" /\ readable' = readable \ {"record"}
  /\ UNCHANGED <<external, told, requested, own, browser, errors, resolvers, peers,
                 more, batchOpen>>

\* Window's "Change username" and rename_service_record: a null record meets
\* Q_ASSERT, or is used in a build without it.
Rename ==
  /\ Idle /\ changes < MaxChanges /\ changes' = changes + 1
  /\ "crossing" \in Races \/ (own # NoName /\ Settled(own))
  /\ requested' \in LocalNames \ {requested}
  /\ record' = IF record = "None" THEN "Crashed" ELSE "Renaming"
  /\ UNCHANGED <<external, told, own, browser, errors, resolvers, peers, more,
                 batchOpen, readable>>

\* start_services, by the restart button.
Restart ==
  /\ Idle /\ errors /\ errors' = FALSE
  /\ record' = IF record = "None" THEN "Registering" ELSE record
  /\ browser' = IF browser = "None" THEN "Alive" ELSE browser
  /\ UNCHANGED <<external, told, changes, requested, own, resolvers, peers, more,
                 batchOpen, readable>>

-----------------------------------------------------------------------------
(* Deferred deletions *)

\* Mutants of DeleteRecord: the name is not cleared; destroyed is not connected.
DeleteRecordKeepsName ==
  /\ record \in {"Renaming", "Failed"} /\ ~Dispatching
  /\ granted' = NoName
  /\ record' = IF record = "Renaming" THEN "Registering" ELSE "None"
  /\ errors' = (errors \/ record = "Failed")
  /\ UNCHANGED <<world, claims, told, changes, requested, own, browser, resolvers,
                 peers, more, batchOpen, readable>>
DeleteRecordForGood ==
  /\ record \in {"Renaming", "Failed"} /\ ~Dispatching
  /\ SetServiceName(NoName)
  /\ granted' = NoName /\ record' = "None"
  /\ errors' = (errors \/ record = "Failed")
  /\ UNCHANGED <<world, claims, told, changes, requested, browser, resolvers,
                 more, batchOpen, readable>>

\* ~ServiceRecord clears the service name; a renamed record is then replaced,
\* by destroyed, which is connected to start_service_record.
DeleteRecord ==
  /\ record \in {"Renaming", "Failed"} /\ ~Dispatching
  /\ SetServiceName(NoName)
  /\ granted' = NoName
  /\ record' = IF record = "Renaming" THEN "Registering" ELSE "None"
  /\ errors' = (errors \/ record = "Failed")
  /\ UNCHANGED <<world, claims, told, changes, requested, browser, resolvers,
                 more, batchOpen, readable>>

\* Its children die with it, and nothing is connected to them any more.
DeleteBrowser ==
  /\ browser = "Failed" /\ ~Dispatching
  /\ browser' = "None" /\ errors' = TRUE
  /\ told' = {} /\ resolvers' = {} /\ peers' = << >>
  /\ more' = FALSE /\ batchOpen' = FALSE
  /\ UNCHANGED <<external, changes, requested, own, record, readable>>

\* Mutants of EndsBatch: other resolvers are not looked for; the dying one is
\* found.
EndsAnyBatch(r) == ~more
EndsNoBatch(r) == ~more /\ resolvers = {}

\* resolver_destroyed: the dying one is no Resolver any more for findChildren.
EndsBatch(r) == ~more /\ resolvers = {r}

DeleteResolver(r) ==
  /\ r.state = "dying" /\ ~Dispatching
  /\ resolvers' = resolvers \ {r}
  /\ batchOpen' = (batchOpen /\ ~EndsBatch(r))
  /\ UNCHANGED <<external, told, changes, local, peers, more, readable>>

DeletePeer(i) ==
  /\ peers[i].dying /\ ~Dispatching
  /\ peers' = RemoveAt(peers, i)
  /\ UNCHANGED <<external, told, changes, local, resolvers, more, batchOpen,
                 readable>>

-----------------------------------------------------------------------------
(* The library and the network *)

\* What the library said, or said is coming, is read before anything changes.
Telling == more \/ "browser" \in readable

\* A name that is taken is changed by the library.
LibraryRegisters ==
  /\ record = "Registering" /\ granted = NoName /\ ~Telling
  /\ \E n \in LocalNames :
       /\ n \in claims \/ Of(n, world) = {}
       /\ Of(requested, world) = {} => n = requested
       /\ granted' = n /\ claims' = claims \cup {n}
  /\ UNCHANGED <<world, told, changes, local, resolvers, peers, more, batchOpen,
                 readable>>

LibraryWithdraws ==
  /\ ~Telling
  /\ \E n \in claims \ {granted} : claims' = claims \ {n}
  /\ UNCHANGED <<world, granted, told, changes, local, resolvers, peers, more,
                 batchOpen, readable>>

LibraryResolves(r) ==
  /\ r.state = "asked"
  /\ \E s \in Of(r.name, Published) :
       /\ s.iface = r.iface
       /\ Becomes(r, [r EXCEPT !.state = "answered", !.port = s.port])
  /\ UNCHANGED <<external, told, changes, local, peers, more, batchOpen, readable>>

\* Host n joins with some interfaces, leaves, or changes its interfaces; it
\* takes a new port only when it joins.
HostChanges(n) ==
  /\ ~Telling /\ n \notin claims /\ Settled(n)
  /\ changes < MaxChanges /\ changes' = changes + 1
  /\ \E I \in SUBSET Ifaces, port \in Ports :
       LET new == [name : {n}, iface : I, port : {port}]
           old == Of(n, world)
       IN  /\ new # old
           /\ old = {} \/ \A s \in old : s.port = port
           /\ "interface" \in Races \/ old \subseteq new \/ new = {}
           /\ world' = (world \ old) \cup new
  /\ UNCHANGED <<claims, granted, told, local, resolvers, peers, more, batchOpen,
                 readable>>

-----------------------------------------------------------------------------

Init ==
  /\ world \in {[name : N, iface : Ifaces, port : {p}] : N \in SUBSET PeerNames, p \in Ports}
  /\ claims = {} /\ granted = NoName
  /\ told = {} /\ changes = 0
  /\ requested \in LocalNames /\ own = NoName
  /\ record = "Registering" /\ browser = "Alive" /\ errors = FALSE
  /\ resolvers = {} /\ peers = << >>
  /\ more = FALSE /\ batchOpen = FALSE /\ readable = {}

EventLoop ==
  \/ Poll
  \/ BrowserAdds \/ BrowserRemoves \/ RecordRegistered
  \/ \E r \in resolvers : ResolverAnswers(r) \/ DeleteResolver(r)
  \/ \E i \in DOMAIN peers : DeletePeer(i)
  \/ DeleteRecord \/ DeleteBrowser

Library ==
  \/ LibraryRegisters \/ LibraryWithdraws
  \/ \E r \in resolvers : LibraryResolves(r)

Environment ==
  \/ Rename \/ Restart
  \/ RecordFails \/ BrowserFails
  \/ \E r \in resolvers : ResolverFails(r)
  \/ \E n \in PeerNames : HostChanges(n)

Next == EventLoop \/ Library \/ Environment

\* The loop handles what is ready and the library does what it was asked; the
\* user and the network may do nothing.
Fairness == WF_vars(EventLoop) /\ WF_vars(Library)
Spec == Init /\ [][Next]_vars /\ Fairness

-----------------------------------------------------------------------------
(* Properties *)

Listed == {[name |-> peers[i].name, port |-> peers[i].port] : i \in DOMAIN peers}
Others == {[name |-> s.name, port |-> s.port] : s \in world}

\* The library has nothing left to say, and the program nothing left to do.
Quiet ==
  /\ browser = "Alive" /\ told = Published
  /\ Idle /\ Readable = {} /\ claims \subseteq {granted}
  /\ \A r \in resolvers :
       /\ r.state = "asked"
       /\ \A s \in Of(r.name, Published) : s.iface # r.iface

\* A peer is listed once, whatever the order in which its interfaces are
\* announced, resolved and withdrawn.
AtMostOnePerName ==
  \A i, j \in DOMAIN peers : peers[i].name = peers[j].name => i = j

\* We are never offered ourselves under the name we are registered with, be it
\* resolved before or after the registration: peer_resolved ignores it and
\* service_name_changed removes it.
OwnIsHidden ==
  \A i \in DOMAIN peers : peers[i].name = own => peers[i].dying

\* A service that is not running can be restarted: the restart button is there,
\* across failures, renames and restarts in any order.
DeadIsShown == record = "None" \/ browser = "None" => errors

\* Once all is said, every peer listed is there ...
NoGhost == Quiet => \A p \in Listed : \E s \in world : s.name = p.name

\* ... and every peer that is there is listed, with its port.
NoneMissing == Quiet => Others \subseteq Listed

\* end_of_batch, which makes "localshare --peers" quit, comes when the peers
\* announced so far that are still there are listed; our own services need
\* not be.
BatchIsListed ==
  [][batchOpen /\ ~batchOpen' /\ browser' = "Alive" =>
       \A s \in told \cap Published :
         \/ s.port = OurPort \/ s.name = own
         \/ \E p \in Listed : p.name = s.name]_vars

\* Whatever happens, the list ends up being the other hosts' services, and our
\* record registered as requested, unless another host may have had that name.
Settles ==
  <>[](browser = "Alive" /\ record # "None" =>
         /\ Listed = Others
         /\ record = "Registered"
         /\ own = requested \/ requested \in PeerNames)

\* Every batch ends (Browser, "end_of_batch is emitted when such a batch has
\* ended").
BatchEnds == batchOpen ~> ~batchOpen
=============================================================================
