# Formal models of localshare

Localshare sends files between two machines of a local network. Peers find each
other with the dns_sd library (Bonjour or Avahi), and a transfer is one TCP
connection between an `Upload` object and a `Download` object. The program is
single threaded: everything runs in handlers called by the event loop of Qt.

The models cover the code of `src/src/`. They describe a release build:
`Q_ASSERT` does nothing, and some of the conditions it states appear as properties.

Contents: [inventory](#inventory), [modules](#modules), [runs](#runs),
[environment, bounds and fairness](#environment-bounds-and-fairness),
[proofs](#proofs), [findings](#findings), [not modelled](#not-modelled),
[plan](#plan).

## Inventory

| component | source | state | operations | interacts with |
|---|---|---|---|---|
| Payload manager, files | `core_payload.h` | file list, `transfer_status`, `current_file`, `next_file_to_checksum`, `total_transfered`, `nb_files_transfered`, `last_error`; per file the mapping, position and hash | collect files, start / stop, send or receive a chunk, take or test checksums | called by the transfer objects; the file system |
| Transfer protocol | `core_transfer.h` | `Base::status` (parser), `error`, the socket and its buffers, `Upload::status`, `Download::status` | connect, handlers of the socket's signals, one handler per message, `failure`, `give_user_choice` | the peer by messages, the interface by signals |
| Notifier | `core_transfer.h` 153-239 | timers, history of rates | start, progress, end | reads the payload manager |
| Server | `core_server.h` | downloads whose offer is not complete | new connection, failure, hand over | creates `Download` objects, gives them to the interface |
| Discovery | `core_discovery.h` | `Browser` (peers, resolvers in flight), `ServiceRecord`, `LocalDnsPeer` (names) | add, remove, resolve, register, rename, error | callbacks of dns_sd; the subsystem of the GUI, the peer list, the console programs |
| Discovery subsystem | `gui_discovery_subsystem.h` | current service record and browser, errors | restart, rename, record a failure | owns the discovery objects |
| Console upload, download | `cli_transfer.h`, `cli_misc.h` | peer searched for, transfer, exit code | find the peer, connect, accept, report | discovery, server, transfers, indicator |
| Console display | `cli_indicator.h`, `cli_main.cpp` | items of a line | lay out a line of a given width | reads the notifier |
| Window, peer list | `gui_window.h`, `gui_peer_list.h` | peers with hostname, address, port | edit, look up, request an upload | discovery, transfers |
| Transfer list | `gui_transfers.h`, `gui_transfer_list.h` | one item per transfer | buttons, dialogs | signals of the transfers |
| Item model | `gui_struct_item_model.h` | tree of items | append, destroy, edit | the views of Qt |
| Settings, utilities, painting | `core_settings.h`, `core_localshare.h`, `gui_button_delegate.h`, ... | none of interest | | |

What is hard, and what makes each component correct:

* **Payload.** Chunks cut the concatenation of all files; files may be empty,
  smaller or larger than a chunk. Both sides must pass the same files at the same
  bytes, and open, close and checksum each file exactly once. A file may change
  between the offer and its chunk, or while it is read.
* **Transfer.** Two event loops, buffers on both sides, a connection that may
  break at any point, timers that postpone work after 100 ms, and handlers that
  Qt calls from within others (a flush emits `bytesWritten`). The two users must
  agree on how the transfer ended; no transfer may hang; nothing is sent before
  the Accept; a completed download is what the sender read.
* **Discovery.** The library reports additions and removals, resolutions are
  asynchronous, peers are matched by name, objects die by `deleteLater`. The list
  must converge to the peers that exist, without the local one.
* **Notifier.** Progress is limited in rate, but the last bytes must be shown; the
  window of the rate drops old points, but must leave enough of them.
* **Server.** A download belongs to the server until its offer is complete, then
  to the interface, and is destroyed once.
* **Console.** Several things happen in one turn of the event loop: two offers, a
  failure next to a completion. One download is accepted, the last `exit ()`
  decides the status, and the line of the terminal is ended.
* **Window, lists, item model.** Rows move under the selection, a dialog and the
  collection of files. Answers of lookups and dialogs arrive after the item they
  are about has changed or gone. What the view has read must be what is.

`PROJECT.json` lists each hazard with its line and the properties that cover it,
or why none does.

## Modules

```
Payload ──┬── PayloadLoop ──── PayloadLoop_proofs
          ├── Payload_proofs (lemmas about the operators)
          ├── PayloadStream ── PayloadStream_proofs
          └── Transfer ─────── Transfer_proofs
                 └──(implements)── TransferContract

Discovery ── Discovery_proofs

ItemModel ──────── Window ──────── Window_proofs
ButtonDelegate ─── TransferList ── TransferList_proofs
Indicator ──────── Console ─────── Console_proofs
```

Each `MC...` module gives one of them concrete payloads or lengths for TLC.

**Payload** holds the operators of `Payload::Manager`. A payload is the list of
the offsets of its files in their concatenation: file `i` is the positions
`start[i]+1 .. start[i+1]`. A manager is a record with the fields of the class.
Iterators are indices, and `files.end ()` is `End(p)`. A byte is represented by
its position in what the sender offered, or by 0 if it is any other byte, so that
a lost, moved or altered byte is visible; the checksum of a file is the sequence
of the bytes its hash was fed (no two contents collide). The loop of
`send_next_chunk` and `receive_chunk` appears as one step (`Moved`, `Opens`,
`OpenFails`).

**PayloadLoop** is that loop, one iteration at a time, with `File::open`,
`is_open`, `read_data` / `write_data`, `at_end` and `close`. It shows, by TLC and
by proof, that the one-step operators of `Payload` are right.

**PayloadStream** joins the managers of a sender and a receiver by the ordered
stream of messages, from the Accept to the end of the transfer. Actions follow
`Base::send_next_chunk`, `receive_next_chunk`, `receive_checksums`,
`on_receive_completed` and the failures. It has the fullest model of the files:
any set of bytes of a chunk may be torn, any file may change before it is opened.

**Transfer** is the protocol: handshake, offer, answer, data, completion and
failures of an `Upload` and a `Download`. The correspondence of its state:

| variable | code |
|---|---|
| `status["up"]`, `status["down"]` | `Upload::status`, `Download::status` |
| `error`, `greeted` | `Base::error` (its cause), `Base::status` past `WaitingForHandshake` |
| `pc`, `calls` | the handler that is running; pending `QTimer::singleShot` calls of `on_data_received` |
| `sock`, `wbuf`, `rbuf`, `net` | state and buffers of each `QTcpSocket`, and what the kernels hold |
| `mgr`, `content` | the `Payload::Manager` of each side; bytes hashed, bytes written |
| `choice` | the answer given to `give_user_choice` |

A handler is one action, except those that loop (`on_data_received`,
`refill_send_buffer`) or are re-entered (the flush of `close_connection`): these
take one action per iteration, `pc` says which one is running, and no other event
of that side is dispatched meanwhile. The events of the other side, and the
network, interleave with every iteration. `Write` and the two re-entrant values
of `pc`, `Flush` and `Flushed`, model that `bytesWritten` is emitted from within
`flush ()` and that `on_data_written` may then refill the buffer.

The flush of `close_connection` may also find the connection broken, and then runs
`on_socket_error` and `failure ()` before its caller goes on. Within a `failure ()`
this is the step of the handler and then `SocketError`. Two callers set a
status of their own afterwards, over the Error: `UserRejectsUnheard` and
`ReceiveChecksumsUnheard`, with `FlushFails`. `on_receive_reject` and
`on_receive_completed` do so too, but their upload has nothing left to write, so that
their flush cannot fail (`NothingToFlush`, a part of `FailureIsShown`).

Buffers hold whole messages. The parser (`WaitingForCode`, `WaitingForSize`,
`WaitingForContent`) waits until a message is complete, so a partly received
message is not told apart from one that has not arrived. The one place where it
matters, a chunk cut short by a failure, is modelled by what the receiver's parser
makes of the bytes (`CutChunks`).

**TransferContract** says what a transfer promises its two users, with no
message: who decides, what Completed and Rejected mean, who may miss the news.
`Transfer` implements it under the mapping `Outcome`, `Delivered`.

**Discovery** is the list of peers and the services that feed it: `Browser`,
`Resolver`, `ServiceRecord`, `LocalDnsPeer`, and the subsystem of the GUI that
starts, restarts and renames them. They are one module because one event loop
runs them all and deleting a service runs slots of the subsystem.

| variable | code |
|---|---|
| `requested`, `own` | `LocalDnsPeer::requested_username`, `service_name` |
| `record`, `browser`, `errors` | `DiscoverySubSystem::service_record`, `browser`, and whether `current_errors` shows the restart button |
| `resolvers`, `peers` | the `Resolver` and `DnsPeer` children of the browser; those in `deleteLater` are still children |
| `more`, `batchOpen` | `callback_more_coming`; whether an announcement came since the last `end_of_batch` |
| `readable` | which of the sockets of the record and of the browser are still to be handled in this iteration of the event loop |
| `world`, `claims`, `granted`, `told` | outside the program: what the other hosts publish, what is published for us, the name the library chose, what the browser was told |

An iteration of the event loop is a `Poll`, which picks the readable sockets, then
their handlers in any order, then the deferred deletions (`Delete...`). A resolver
that has answered is still found by `findChildren` until it is deleted, and so is
a peer: this is where the answers and the removals of one iteration meet. The
library is external: it tells each service and each interface of it once, each
removal once, in any order, and answers a query from what is published when it
answers. `DNSServiceRegister` changes a name that is taken.

**ItemModel** holds the operations of `StructItemModel` on its list, and what each
does to the rows a view remembers (persistent indexes).

**Window** is the list of peers: items of discovered peers and items typed by the
user, lookups, edits, selection, sorting, and the uploads that the actions and
drops ask for. `pc` says in which event loop the program is: the ordinary one,
that of a modal dialog, or the `processEvents` of the collection of files.

| variable | code |
|---|---|
| `list`, `peer`, `dying` | `item_list`; `Item::peer`; items in `deleteLater` |
| `lookups` | pending `QHostInfo::lookupHost` of each item; `old` marks those of earlier hostnames |
| `selected`, `enabled` | rows in the ranges of the selection model, those of invalid peers included; `action_send_file`, `action_send_dir` |
| `rows`, `drop` | the loops over `selectedRows ()` and over the URLs of `dropMimeData` |
| `target` | the `peer` parameter of `request_upload`: that of the item, or the copy that a drop makes |
| `served`, `chosen`, `wanted`, `disturbed` | history: uploads made, what the user selected and asked for, whether something happened while files were collected (the record of the request is then given up) |
| `answered` | history: which lookup gave a peer its address since its hostname changed: none, the newest, an older one |

**ButtonDelegate** says where the buttons of a cell are, from its right edge, for
painting and for clicks.

**TransferList** is everything around a transfer in the graphical interface: the
server that owns a download until its offer, the item that owns it afterwards,
the notifier, and what the view has read. `tr` holds for each transfer its
status, the notifier (`running`, `now`, `last`, `history`), its item (`listed`,
`rate`), and `shown`, the data the view read at the last `data_changed` of each
field. A handler is a composition of functions on that record, in the order of
the calls of the code: `StatusSet (TransferEnd (MayProgress (i)), "Completed")`.
`dialog` is the download whose directory dialog is open. The messages and the
sockets are those of `Transfer`; here their handlers may be called, and fail, at
any time their status allows.

**Indicator** is the layout of the progress line of the console: `min_size`, the
loop that hides items, the shares of the space left.

**Console** is the console programs, by turns of the event loop: deferred
deletions, then the handlers of what was ready, in any order, then the end if
`exit ()` has been called. `alive`, `posted` and `failed` are the services,
`status` the transfers, `code` the value of the last `exit ()`, `line` and
`drawn` what is on the terminal.

## Runs

| run | shows |
|---|---|
| `payload_loop` | for all 120 lists of at most 4 files of 0 to 2 bytes, every chunk leaves the manager as `Moved` says and opens the files of `Opens`, at their first byte |
| `payload_stream` | completed downloads are intact and verified (`CompletedIsIntact`), an honest stream is never refused (`NothingUnexpected`), the sender is done when the receiver says so, managers close only when full, both ends terminate |
| `transfer` | under lost connections, receiver's disk errors, torn and changed files and version mismatches: the contract (what each side reports, for good, and that what is delivered is whole and as the sender hashed it), no data without consent, failures shown (but for two which the code hides, see findings), the sender's buffer is bounded and its manager never used once closed, every transfer ends; when nothing goes wrong around the two sides, neither reports an error (`NoError`) |
| `discovery` | when each change is told before the next one about the same host: the list is exact whenever the library is quiet (`NoGhost`, `NoneMissing`), also when a host has a name we ask for and when a host joins interface by interface; `end_of_batch` comes, and only when the announced peers are listed; after renames we end up registered and the list complete (`Settles`) |
| `discovery_races` | when every change may cross the announcements, answers and deletions of the previous ones and every service may fail: no peer is listed twice, we never see ourselves, a dead service always shows the restart button |
| `window` | the selection stays on the peers selected when rows move (`SelectionFollows`), uploads are only offered with a selection; a request, from the actions or by dropping one or two files, reaches each valid peer selected, and no other, at a known address, unless something happens while files are collected; a peer has no address until a lookup of its hostname succeeds, and then that of its host if the newest lookup is the last to succeed, also when lookups fail or overtake each other |
| `transfer_list` | the view is current, also in nested signals and automatic accepts; final figures are exact in spite of the rate limiter and the timer; a download has one owner at any time; only the user removes a transfer; the window of the rate; the directory of a running download is fixed though its dialog is still open; a click reaches the button that was there, or none |
| `console` | for every command line: the exit status is right, one download, one connection, services deleted once, the progress line fits and is ended, the program leaves when its transfer has ended, and the list in any case |
| `payload_trailing_empty`, `transfer_reentrancy`, `window_stale`, `transfer_list_empty` | violations, see [findings](#findings) |

Every property of a passing run is broken by at least one mutant, a definition
of the module changed as a plausible bug would (`mutants` in `PROJECT.json`; the
definitions marked "Mutant" in the modules).

## Environment, bounds and fairness

* *Payloads.* Chunks have 2 bytes (3 in `payload_loop`) and payloads 3 to 7. The
  lists have a file in two chunks, files that end inside a chunk, at its end, and
  empty files first and in between: the shapes the chunk and file boundaries can
  have. The passing runs of the data phase leave out payloads whose last file is
  empty, which hang (see findings).
* *Buffers.* `WriteLimit` stands for `write_buffer_size` and is counted in
  messages (1 or 2), `NetCapacity` (2) bounds the kernel, so that both the
  sender blocked by its buffer and the one that is not occur. The sizes are
  smaller than a transfer, which has up to 8 messages.
* *Timers.* Any iteration of a handler may be the one where its 100 ms are spent.
  `MaxCalls` (1 or 2) bounds the delayed calls pending on each side.
* *Faults.* Each run names its faults (`Faults`, `Unstable`). The network may
  break the connection of either side at any time. A socket closed by the peer
  reports it after the data that precedes it; what is sent to a closed socket is
  answered by a reset, which discards what was not read. Every connection that
  breaks is reported to both sides sooner or later. The code has no timeout of its
  own: of a peer that vanishes without a word nothing is shown, and `EveryTransferEnds`
  does not hold of it.
  `transfer` uses payloads of one to three files where `Unstable` names the
  second, which only a chunk after the first refill opens (`WriteLimit = 1`): a
  change found by the first refill is the finding `transfer_reentrancy`.
* *Discovery.* One other host and two names: the host has, or takes, a name we
  ask for. `MaxChanges` (3) counts the changes of hosts, the renames and the
  failures: a host that leaves, comes back on another port and leaves again, or
  two failures around a rename. `discovery` has two interfaces; the races have
  one, with `MoreComing` set. `MoreComing = FALSE` is Avahi's compatibility
  layer, whose callbacks never set the flag; `TRUE` is Bonjour.
* *Races of discovery.* `Races` names what the network may do. Without `crossing`
  a change waits until the previous one of the same name has been told and its
  queries deleted (`Settled`). Without `interface` a host leaves all its
  interfaces at once. What the library put in the browser's socket is read before
  anything changes outside (`Telling`), in every run.
* *Window.* Two discovered peers and a manual one on two hosts, with two changes
  of hostnames or edits: rows that move in both directions, a list that becomes
  shorter than a row, two answers that cross. At most two files are dropped together
  (`MaxUrls`). Clicks select any rows, those of invalid peers included. The addresses of
  a manual item are not told apart: typed or looked up, they are `Typed`. Peers and
  hosts are interchangeable (symmetry). The run has no other upload while one is
  collected.
* *Transfer list.* A download and an upload, of one or two chunks, and three
  units of `progress_update_interval_msec`, with a window of one unit and of three
  points: progress within the limit and after it, a history that is cut and one
  that is kept because it is short. `MaxTime` bounds the duration.
* *Console.* Two peers, three connections, at most `MaxReady` (3) events in a turn: a
  chosen download, another one and a service. Terminals of 17 to 35 columns around the
  lengths of the items: from the least that rate and percentage need to more than
  everything. Narrower ones are an observation below.
* *Deadlock* is not checked: a transfer that ended has no more steps, and a quiet
  network has none either. That a transfer ends is a liveness property.
* *Fairness.* Each side's event loop keeps dispatching (weak fairness of `UpStep`
  and of `DownStep`, not of single handlers), and the user of the download
  answers (`User`). Faults have no fairness. In `PayloadStream`, sending,
  receiving and reading the answer are each weakly fair, which is what fair event
  loops and a working socket give.
  In `Discovery`, the event loop and the library are each weakly fair; the user,
  the network and the failures are not. Weak fairness of the whole loop suffices
  because each iteration handles a finite set of sockets before the next `Poll`.
  In `Console`, an iteration of the event loop goes on (`Turns`, weak fairness): it
  does not wait once `exit ()` has been called, and handlers return. Waiting for
  events is not fair, except for the 3 s timer of the list (strong fairness of a
  turn that takes it): it is due whatever else is ready, and Qt takes due timers
  in each turn. The network, the library and the peers have no fairness.
  `Window` and `TransferList` check safety only.
* *Crashed.* Using `files.end ()` (or a null record, a row out of range, an object that was freed) is undefined behaviour. The model
  marks it and stops. `payload_stream`, `transfer` and `discovery` do not reach it; where `window` and
  `console` do is what `UploadsReachSelection` and `ServicesEndOnce` say.

## Proofs

`PayloadLoop_proofs` proves about `PayloadLoop`, for every set of payloads and
every chunk size:

* `LoopInvariant`: `TypeOK /\ LoopInv`, the inductive invariant. `LoopMoves`
  speaks only of the end of a chunk, so it is not inductive; `LoopInv` says where
  each iteration stands: the files before the current one are entirely behind and
  start before the end of the chunk (this is what excludes passing an empty file
  too many), the current file is open iff the position is strictly inside it, and
  the files opened are those entered at their first byte.
* `LoopIsMoved`, `LoopStaysInside`, `OpensInOrder`: the three properties that
  follow from it.
* `LoopEnds`: each iteration passes a file or is the last, also over empty files, which
  move no byte.

They rest on `PayloadsAssumption` and `ChunkSizeAssumption`: offsets start at 0
and do not decrease, which `from_source_path` produces and TLC evaluates.

`Payload_proofs` proves the lemmas about the operators of `Payload` which the two
next modules need: what a chunk does to the position of a manager (`MovedPosition`),
how the positions of sender and receiver determine each other, what the checksums of
a chunk are. A *position* is what the two managers have in common: file, bytes,
checksums. The heart of it is that the last file a chunk reaches depends only on
the position before and the number of bytes, not on the side that counts. That the loop
stops somewhere (`MovedExists`) and `test_checksums` comes to a result (`TestEnds`)
is proved too: a guard of `Send` or `Receive` that holds is all its handler needs.

`PayloadStream_proofs` proves about `PayloadStream`, for all payloads, chunk sizes, torn
bytes, changed files and faults: `IntactWhenCompleted` (`CompletedIsIntact`),
`StreamIsExpected` (`NothingUnexpected`), `CompletedFindsSender`
(`CompletedFindsSenderDone`) and `ClosedIsFull` (`ClosesOnlyWhenFull`). None of them
is inductive, because what the receiver will do depends on the messages on their way. The
inductive invariant says that there is a *history* of the stream: a position for each
gap between two messages, such that each message is what a sender at the position
before it writes to get to the position behind it. The receiver is at the beginning
of the history, the sender at its end; a chunk that was cut short is only followed
by what its sender wrote when it failed. When the receiver takes a message, the
history loses its head; when the sender writes one, it gets a new end. That the
hashes of the sender and the files of the receiver agree where the checksums have
been tested gives `CompletedIsIntact`.

Of the liveness property `Terminates`, everything but fairness is proved:

* `StreamIsBounded`: each step lowers `StepsLeft`, a natural number that counts three
  for each byte to send, the messages unread, three for a sender and one for a receiver
  that still transfer, and the files that have not changed. So no transfer goes on for ever.
* `HandlersAreDefined`: who has bytes to send, or a message to handle, can.
* `NobodyWaits`: when nobody has anything to do, both have left Transfering. Its invariant
  (`EndInv`) says how an end is told: the stream of a sender that failed ends with the
  end of the connection, the answer of the receiver is its status, and a sender that still
  transfers stands where its last loop stopped, so it has bytes left or has hashed
  every file. The hypothesis, that no payload ends with an empty file, is the finding
  `payload_trailing_empty`.

`Transfer_proofs` proves about `Transfer`, for all payloads, chunk sizes, limits and
capacities of buffers, and all faults:

* *Streams.* The three buffers between two sides are one stream (`Stream`); each handler
  keeps it, takes its head, appends to it, or loses a prefix of what is to be read and
  a suffix of what was written (`Keeps`, `Takes`, `Sends`, `Loses`). All that follows
  is said of streams, not of buffers.
* `BufferIsBounded` (`WriteBufferBounded`), `FailuresAreShown` (`FailureIsShown`) and
  `SendsWhileSending` (`SendsOnlyWhileSending`) follow from the inductive invariant
  `Control`: what sockets, buffers, handshake, statuses and handlers have to do with each
  other on each side (`Sockets`, `Greeting`, `Handling`), that the manager of a side that
  transfers is that of a sender (`Sending`), which failures are not shown yet
  (`Failures`) and the bound (`Bounded`, which must count the handshake apart). What
  the code does wrong (see the findings) is named: `FailureIsShown` excepts the two failures
  that are hidden (`NeverConnected`, `Unheard`), and the theorem `SendsWhileSending` has
  the hypothesis that no file has changed. That the answers of the download hide no failure of the upload
  (`NothingToFlush`) needs both sides, so it comes from `Control /\ Pair`, below.
* `TransferKeepsContract`: `Spec => ImplementsContract`, the refinement of
  `TransferContract`. The inductive invariant is `Control /\ Pair`. `Pair` relates the two
  sides by the streams between them: which messages may be on their way in which
  statuses (`Agreed`: `Answers`, `Consent`, `Before`, `Over`), where the download is on
  the history of what the upload sent, as in `PayloadStream_proofs` (`Data`), and what
  is known once the last checksum has been tested (`Done`). For each action,
  a lemma shows that `Pair` is kept and that the step is a step of the contract or none
  (`Told`). A download may be misled by a chunk cut short; what follows
  it is then not a message, and it fails (`Misled`).
* `ConsentIsNeeded` (`NothingWithoutConsent`) follows from `Consent`.
* `NothingGoesWrong` (`NoError`): without faults and without changed files, neither side
  reports an error, however handlers, buffers and sockets interleave. The inductive
  invariant is `Control /\ Pair /\ (FairWeather => Calm)`. `Smooth` says that nobody has
  failed, that the message on its way to the upload, if any, is the one which the two
  statuses determine (`Reply`), and that what the upload hashed is what its files hold, so
  that checksums match (`SumsMatch`). `Orderly` says that a message is in the read buffer
  of the upload only while its handler runs, so that the end of the connection never
  overtakes the last notice of the download: a socket that closes belongs to a side that
  has ended, and its peer has ended too or has a message to read (`NoAborts`).
* `NobodyIsStuck`: when nobody has anything to do (`Quiet`: no handler runs, no socket has
  something to write, to read or to report, no user a choice to make), both sides have
  ended. A transfer has many ways to hang: a notice behind which the connection is
  closed, a refill that finds the buffer half full, an answer read before its question,
  a handler that stops with a message left to read. The invariant (`Flow`) says what
  rules them out: a side that listens has read what came, or will be called again
  (`ReadsOn`); a side that has started has a connection, or gets one (`Opened`); what a
  side waits for is on its way (`Asked`); a sender that is not refilling its buffer
  has something in it, unless all is sent (`Refilled`). The two hypotheses, no empty
  file at the end and a peer that can be reached, are findings. Nothing is said of a
  sender after `Crashed`, which is the finding `transfer_reentrancy`.
* `TransferIsBounded`: no transfer goes on for ever, whatever fails. `StepsLeft` falls with
  each step: 13 for each byte to send, 6, 4 and 2 for a message in the write buffer, the
  kernel and the read buffer, 2 for a call of the timer, and ranks of the handler, the
  socket and the status that pay for the messages sent when they are left. Each lemma
  `Costs...` gives the price of some actions. That a sender never sends past the
  end of its payload (`UpInside`) is what bounds the first part.
* `ContractAgreement` proves `Agreement` of the contract, from the invariant that adds
  what the reports of the receiver mean; so `TransferAgrees`: the two users of every
  transfer agree on how it ended, unless the sender fails.

They rest on `ChunkSizeAssumption`, `PayloadsAssumption` and `TransferAssumption`
(payloads as above, limits that are not 0), which TLC evaluates.

`Discovery_proofs` proves about `Discovery`, for any names, interfaces and ports,
any bound on changes, and every race and fault:

* `DiscoveryTypeOK`: `TypeOK` is inductive. Its last conjunct, that a service name
  is only held while a record is registered or being deleted, is what `~ServiceRecord`
  maintains.
* `PeersAreUnique`: `AtMostOnePerName` is inductive with the types: a peer is only
  appended when `Found` finds none of its name, dying ones included.
* `OwnStaysHidden`: `OwnIsHidden` is inductive with the two others. Uniqueness is
  needed: `WithoutPeer` gives only the first peer of a name to `deleteLater`, which
  hides our service only if there is no second one.
* `DeadCanRestart`: `DeadIsShown`.

and, where the environment is restrained (`"crossing" \notin Races`: a change waits
until the last one about its host is told), that the list is right:

* `GhostsLeave`: `NoGhost`, if the browser does not fail. `NoGhost` speaks of quiet
  states only; its invariant `GhostInv` says what holds on the way: a peer that is not
  dying has a service the browser was told of (`PeersAreTold`), a query is of a service
  that is told and still published (`QueriesAreTold`), so that a late answer brings
  nobody back, and a name we gave up was told before and is asked about no more
  (`GivenUpIsTold`), so that its removal is still to come and nothing undoes it. A
  browser that fails and is restarted forgets what it was told, and may hear of our old
  name for the first time just as it is withdrawn; TLC finds that run in the model, so
  the hypothesis cannot be dropped.
* `PeersAreFound`: `NoneMissing`, with the ports, if hosts leave all their interfaces at
  once and queries do not fail. `NoneLost` says that each service told and still there
  is being asked about or is listed with its port (`ToldIsFollowed`). It needs that no
  answer is of a host as it was before (`AnswersAreTrue`), that a peer still to be
  deleted is not found by the answer of the host that came back (`OldPeerIsForgotten`),
  that no removal or name of ours hits a peer that is there (`PresentAreSpared`), and
  that we are not mistaken for another host (`OneHostPerName`).
* `BatchesEndListed`: `BatchIsListed`, from `NoneLost`: at the end of a batch no query is
  left, so the services told are listed.

They rest on `DiscoveryAssumption`: no service has the empty name, which stands
for "not registered", and our port is not one of the others'.

`Window_proofs` proves, for any number of peers and hosts and any bound:

* `SelectionIsKept`: `SelectionFollows`, inductive with the types it needs: the
  list has no item twice (an item is appended when it is created), and the rows
  selected are rows. `RowsFollowRemoval`, `RowsFollowAppend` and `RowsFollowSort`
  are the lemmas about `ItemModel`: after the operation, the rows of the view are
  those of the same items.
* `ActionsNeedSelection`: `EnabledMeansSelected`.
* `RequestsAreServed`: `UploadsReachSelection`. The inductive invariant says, at
  each point of the loop, that the peers served, the one being served and those of
  the rows left are together the peers wanted, and that those of the rows left are
  valid, as long as nothing disturbs the collection; of a drop, that the item
  is still there for each of its URLs.
* `AddressesSettle`: `AddressSettles`, at every moment, with any number of lookups
  pending, failed or overtaken. The invariant adds that a lookup not marked old asks for
  the present hostname. It needs the list to have no item twice, so that a peer which
  is removed is no longer in the list.

They rest on `WindowAssumption`: the two kinds of items are different, and no host
is called like the absence of one or like what a user typed; at least one file is dropped.

`TransferList_proofs` proves, for any transfers, sizes, windows and durations:

* `ShowsTheTruth`, `ShowsTheEnd`: `ViewIsCurrent` and `FinalIsExact`, with one lemma
  for each function on the record (`StatusSetIs`, `MayProgressIs`, ...) and one step
  for each action. The second needs that no timer runs before a transfer or after
  its end.
* `Ownership`: `EachHasAnOwner`. Who may delete a transfer and who owns it are
  inductive together: what the server destroys is not on the list.
* `DirectoryIsFixed`: `TargetIsFixed`, from the invariant that the download whose
  dialog is open has got past the states from which it could still start: it only
  starts with the Accept button, which the dialog keeps out of reach.
* `HistoryStaysAWindow`: `HistoryIsAWindow`. `WindowMovedIs` says what the loop of
  `update_history` leaves of any history. The invariant (`TimesInv`) adds that the points
  of a history are of the past, and that a transfer has a history exactly while
  it transfers: the first point of a transfer must find none, or a rate would be
  counted from an earlier time.
* `ClicksHit`: `ClickHitsItsButton`. The buttons of an item that is listed only change
  when it stops waiting for the user (`NoneStartsToWait`, case by case of the actions),
  and the one that is left had the first place before (`FewerButtons`).

They rest on `TransferListAssumption`.

`Console_proofs` proves, for any peers, connections and number of events in a turn:

* `ExitStatus`: `ExitCodeIsRight`. The inductive invariant (`EndInv`) says that 0 is
  only given by the completion of our transfer, and that the turn which completes it
  is the last and has nothing of that transfer left to handle. It needs to know what
  each mode leaves alone (`ModeInv`), which sources can still be ready (`ReadyInv`),
  and that no lookup is pending once the upload is connected (`SearchInv`).
* `OneShot`: `OneDownload`; `OneConnection`: `ConnectsOnce`; `NoProgressLeft`:
  `LineIsEnded`.
* `ServicesAreUsedOnce`: `ServicesEndOnce`. Its invariant (`RecordInv`) says that the
  record is alive from `start ()` until a download is chosen, or has failed.
* `LayoutFits`: for any items whose first one is shown, the line of a container is not
  longer than asked and each item gets its minimum. `LayoutFills`: with one or two
  items that expand, the line is exactly as long as asked. The invariant of the loop that
  hides items (`Counts`) says that `required` is the length of what is shown, as long as
  no item is hidden twice. The rest of the line goes to the items in turn: the
  sequence `left` of what is not given away yet starts at the rest and falls to 0 or more,
  so what is given is its first value minus its last (`AddedSum`).
* `ProgressLine`: `LineFits`, for any texts, sizes and terminals for which
  `LinesHaveRoom` holds: rate, percentage and the separators between what remains when
  the bar and the number of files are hidden fit the width, which is what the 17 columns of the run are for
  its texts. In a narrower terminal the code draws more; see the findings.

The induction of the three last is over sets of numbers (`SetInduction`, from the
minimum of a set, which the library has), since its theorems on induction take an
operator and cannot be cited. Sums are the fold of `SumFunctionOnSet`, which chooses its
order; `SumAdd` shows that any order will do.

They rest on `ConsoleAssumption`: the names of things are different.

Only model-checked: liveness (`Terminates`, `EveryTransferEnds`, `Settles`, `BatchEnds`,
`LeavesAtTheEnd`): that fairness takes the steps which are possible needs `ENABLED`,
which is out of the prover's reach. For `Terminates` that is all that is left to TLC.
For `EveryTransferEnds` it is that, and that a handler whose guards hold finds a next
state: `NobodyIsStuck` and `TransferIsBounded` are the rest.
Every other property of a passing run is a theorem, some of them under the hypotheses
named above.

## Findings

| run | what |
|---|---|
| `payload_trailing_empty` | the loop is left before an empty file that ends the payload; its checksum is never sent and both sides wait for ever |
| `transfer_reentrancy` | a file of the first refill has changed: `failure ()` flushes, `bytesWritten` re-enters `refill_send_buffer`, which uses a closed manager |
| `window_stale` | a peer disappears while the files of the first upload are collected: the rows still to be served are those of other peers, or past the end of the list |
| `transfer_list_empty` | a transfer of empty files is listed: its percentage divides by zero |

Further disagreements, which the passing runs leave out:

* A connection that is refused at once: `connectToHost` reports the error before
  `connect ()` sets the status Starting, which overwrites Error
  (`core_transfer.h:603`). `FailureIsShown` without `NeverConnected` shows it, with
  `Faults = {"unreachable"}`.
* A failure of the flush that sends the last notice of the download: `failure ()`, "For
  failures that are printed to users" (`core_transfer.h:347`), sets Error, which
  `give_user_choice` overwrites with Rejected (`core_transfer.h:733`) and
  `on_receive_checksums` with Completed (`core_transfer.h:789`). The window shows the
  second status; the console prints the failure, and exits with 0. `FailureIsShown`
  without `Unheard` shows it in the run `transfer`. The same lines of the upload
  (`core_transfer.h:652`, `666`) cannot do so (`NothingToFlush`).
* A host that leaves while its query is answered is added after its removal, and
  stays (`core_discovery.h:426`). `Races = {"crossing"}` shows it (`NoGhost`).
* A host that leaves one of its two interfaces is removed although it is still there
  on the other (`core_discovery.h:426`). `Races = {"interface"}` shows it
  (`NoneMissing`).
* A rename after a failed registration meets a null `service_record`
  (`gui_discovery_subsystem.h:124`).
* An offer handled in the turn after the failure of the service record, which has
  deleted it, deletes `service_record` again (`cli_transfer.h:276`): the state Crashed that
  `ServicesEndOnce` allows.

Smaller observations made while modelling, which the models show but no run is
devoted to:

* The timer of a long `on_data_received` is not cancelled by a failure
  (`core_transfer.h:318`): a failed download may read on and report a protocol
  error in place of its own.
* `send_next_chunk` announces its chunk before it opens the files, so the notice
  of a failure is read by the receiver as the rest of the chunk
  (`core_transfer.h:423`); the receiver only sees the connection close.
* `is_transfer_complete` holds of a transfer stopped after its last byte and before
  its last checksums (`core_payload.h:409`). The status Completed is not affected:
  `on_receive_checksums` asks only after a successful test.
* A `Resolver` that never gets an answer, because its service is gone, is never
  deleted, and keeps `end_of_batch` from being emitted (`core_discovery.h:456`).
  Nor is it emitted for a batch whose last announcement is a removal told after its queries
  ended (`core_discovery.h:455`).

* Window: an action is disabled when one of two selected peers is deselected, since
  only what is newly selected is looked at (`gui_window.h:131-135`). A click on the row
  of an invalid peer, which "cannot be selected" (`gui_peer_list.h:43`), enables the
  actions, although `selectedRows ()` is then empty and nothing is sent. An address that
  cannot be read clears the old one without a word, and a new hostname keeps the
  old address until the lookup ends (`gui_peer_list.h:202`); the comment on addresses
  (`gui_peer_list.h:206`) promises a lookup of the hostname that is not made. The
  late answer of an old hostname replaces the address of the new one
  (`gui_peer_list.h:163`): `AddressSettles` says nothing of an address that an older
  lookup gave last.
* `request_upload` uses `const Peer & peer` after `set_payload`
  (`gui_window.h:343`): a peer that disappears meanwhile is used after it is freed.
  A drop of one file is safe, because its signal carries a copy; with several, the member
  `peer` is read again for the next one (`gui_peer_list.h:108`), after the event loop
  has run and may have freed the item (Crashed in the model). When `set_payload` fails its
  item is not shown, nor deleted (`gui_window.h:340`).
* `set_target_dir` may be called after a download has failed (`gui_transfers.h:209`),
  where its assertion does not hold; it has no effect then (`TargetIsFixed`).
* Console: deleting the server deletes the downloads that wait for their offer,
  without a Reject. When the service record fails in the turn that accepts a download, the
  program leaves with 1 and without the transfer; the failure of the browser in
  list mode leaves with 0. The loop that hides items starts with the first one even
  when it is hidden, and a hidden first item leaves its separator: the line is
  longer than a terminal of less than 17 columns (`cli_indicator.h:85`).
  Short options given together are not recognised as console options by
  `is_console_mode`.
* Buttons: `hover_target` is not reset when the mouse goes from a button to the
  content of the same cell without crossing the button's margin, and a click is
  emitted by a release without a press on the button.

## Not modelled

Collecting files (except that it runs the event loop) and serialising the offer
(with the limits of `quint32` sizes), path validation, the bytes of messages, an
offer that is not well formed (the peers run this program), `QDataStream` write
errors (`WriteFailed`: they occur only on a socket that is being torn down, and
lead to the same abort as `on_socket_error`), the contents of the target
directory: a file offered with size 0 is opened and not resized
(`core_payload.h:135`), so an older one keeps its contents. Of the discovery: the
address lookups that follow a resolution, the text of names and errors, a name that
the library changes after it was granted (`granted` is given once per record), and
a repetition of failed queries, which the code does not make.

Of the interfaces: menus, the tray icon, the settings and what is painted, save the
places of buttons; texts of options, messages and help; `is_console_mode`, which reads
the arguments once; `moveRows` of the item model, which nothing calls. The number of
connections that wait for an offer has no bound in the code. Settings and utilities
are thin wrappers of Qt or constants, which appear as CONSTANTS; building and
packaging is not behaviour. Another upload started while one is collected
(`processEvents` nests) is left out: its rows are as stale as those of the finding
`window_stale`.

## Plan

What is left: the file system of the receiver under `File::open` (older files, sizes, an
empty file), and nested collections of files in `Window`.
