------------------------------ MODULE Transfer ------------------------------
(***************************************************************************)
(* The transfer protocol between an Upload and a Download object           *)
(* (core_transfer.h), each in its own process, over a TCP connection.      *)
(*                                                                         *)
(* Each side runs one event loop.  A handler runs to its end before the    *)
(* next event is dispatched; pc says which handler a side is in:           *)
(*   Loop      none: the next event may be dispatched                      *)
(*   Reading   on_data_received, between two calls of receive_message      *)
(*   Accepted  refill_send_buffer, called from on_receive_accept           *)
(*   Written   refill_send_buffer, called from on_data_written             *)
(*   Flush     the flush of close_connection, in failure (.., CloseMode)   *)
(*   Flushed   refill_send_buffer, called by on_data_written in that flush *)
(*   Crashed   the upload used files.end (): anything, here nothing, follows*)
(* Only the handlers that loop need several steps; the others take one.    *)
(* on_data_received and refill_send_buffer give up after max_work_msec:    *)
(* any iteration may be the last of its call.                              *)
(*                                                                         *)
(* A socket (QTcpSocket) has a write buffer, a read buffer and a kernel    *)
(* between them, bounded by NetCapacity.  Buffers hold whole messages: the *)
(* parser of Base hands over a message once all its bytes are there, and   *)
(* what it holds of an incomplete one is not told apart from what has not  *)
(* arrived.  write_buffer_size is counted in messages.                     *)
(*                                                                         *)
(* The build is a release build: Q_ASSERT does nothing, and using a closed *)
(* manager's current_file, an end iterator, is undefined (Crashed).        *)
(***************************************************************************)
EXTENDS Payload

CONSTANTS
  Payloads,       \* the payloads an upload may offer
  Faults,         \* what the environment may do, a subset of FaultKinds
  Unstable,       \* files that may have changed when the sender opens them
  WriteLimit,     \* Const::write_buffer_size
  NetCapacity,    \* bound: messages in the kernel, per direction
  MaxCalls        \* bound: calls of on_data_received waiting in the event loop

FaultKinds ==
  {"network",     \* the connection breaks
   "unreachable", \* connectToHost fails at once
   "version",     \* the peers have different protocol versions
   "torn",        \* a file changes while the sender reads it
   "disk"}        \* the receiver cannot create a file

ASSUME TransferAssumption ==
  /\ \A p \in Payloads : IsPayload(p)
  /\ Faults \subseteq FaultKinds /\ Unstable \subseteq Nat
  /\ WriteLimit \in Nat \ {0} /\ NetCapacity \in Nat \ {0} /\ MaxCalls \in Nat

VARIABLES
  payload,   \* the payload the upload offers
  faults,    \* what goes wrong around the two sides: Faults, or nothing
  changed,   \* its files that differ, when opened, from what was offered
  versions,  \* Const::protocol_version of each side
  status,    \* Upload::status, Download::status
  error,     \* Base::error, by kind
  greeted,   \* Base::status # WaitingForHandshake
  pc, calls, \* event loop: running handler, timers for on_data_received
  sock,      \* QAbstractSocket::state
  wbuf,      \* write buffer of each side's socket
  net,       \* accepted from each side by its kernel, not delivered
  rbuf,      \* read buffer of each side's socket
  mgr,       \* payload manager of each side
  content,   \* up: bytes fed to the hashes; down: bytes of the files
  choice     \* what the user of the download chose

vars == <<payload, faults, changed, versions, status, error, greeted, pc, calls, sock,
          wbuf, net, rbuf, mgr, content, choice>>

Sides == {"up", "down"}
Peer(e) == IF e = "up" THEN "down" ELSE "up"

Final == {"Completed", "Rejected", "Error"}
UpStatuses == {"Init", "Starting", "WaitingForPeerAnswer", "Transfering"} \cup Final
DownStatuses ==
  {"None", "Starting", "WaitingForOffer", "WaitingForUserChoice", "Transfering"} \cup Final
Errors == {"None", "Network", "Protocol", "Version", "Payload", "Peer"}
SocketStates == {"None", "Unconnected", "Connecting", "Connected", "Closing"}
Handlers ==
  {"Loop", "Reading", "Accepted", "Written", "Flush", "Flushed", "Crashed"}
Refilling == {"Accepted", "Written", "Flushed"}

----------------------------------------------------------------------------
(* Messages. *)

HandshakeMsg(v) == [kind |-> "Handshake", version |-> v]
Msg(kind) == [kind |-> kind]

\* A chunk of n bytes, of which good have been written, is cut short, and an
\* Error message written behind it: the receiver takes its bytes for the rest
\* of the chunk, and what remains of it for a message of an unknown type; or
\* it is too short, and the chunk stays incomplete.
CutChunks(total, n, good) ==
  {<< ChunkMsg(Span(total, n, total + good + 1 .. total + n)), Msg("Garbage") >>,
   << Msg("Incomplete") >>}

----------------------------------------------------------------------------
(* Sockets and failures. *)

Prefix(s, k) == SubSeq(s, 1, k)
Rest(s, k) == SubSeq(s, k + 1, Len(s))

\* close_connection with w left to write: disconnectFromHost waits for it.  If
\* its flush finds the connection broken, it calls on_socket_error at once.
\* Within failure () this is this step and then SocketError, which is enabled
\* as long as there is something left to write; for the callers that set a
\* status of their own it is FlushFails.
Close(e, w) ==
  /\ wbuf' = [wbuf EXCEPT ![e] = w]
  /\ sock' = [sock EXCEPT ![e] = IF w = << >> THEN "Unconnected" ELSE "Closing"]

\* QAbstractSocket::abort drops both buffers; it does nothing once unconnected.
Abort(e, r) ==
  /\ wbuf' = [wbuf EXCEPT ![e] = << >>]
  /\ rbuf' = [rbuf EXCEPT ![e] = IF sock[e] = "Unconnected" THEN r ELSE << >>]
  /\ sock' = [sock EXCEPT ![e] = "Unconnected"]

\* Mutant: failed () is not connected to set_status (Error).
FailedSilently(e, why, m) ==
  /\ error' = [error EXCEPT ![e] = why]
  /\ mgr' = [mgr EXCEPT ![e] = StopTransfer(payload, m)]
  /\ UNCHANGED status

\* What Base::failure does besides the socket: report, stop, emit failed.
Failed(e, why, m) ==
  /\ error' = [error EXCEPT ![e] = why]
  /\ mgr' = [mgr EXCEPT ![e] = StopTransfer(payload, m)]
  /\ status' = [status EXCEPT ![e] = "Error"]

\* The connection is broken, or the peer's answer to what it got on a closed
\* socket was a reset, and the event loop has not reported it yet.
Broken(e) ==
  \/ "network" \in faults
  \/ sock[Peer(e)] = "Unconnected" /\ net[e] # << >>

\* close_connection, when its flush has something to write to a connection that
\* is broken: on_socket_error and failure () run inside the flush, before the
\* caller goes on and sets its own status.
FlushFails(e, r, m) ==
  /\ Broken(e)
  /\ Abort(e, r)
  /\ error' = [error EXCEPT ![e] = "Network"]
  /\ mgr' = [mgr EXCEPT ![e] = StopTransfer(payload, m)]

Constant == UNCHANGED <<payload, faults, changed, versions>>

----------------------------------------------------------------------------
(* Connection. *)

\* Const::protocol_version of each side, and the files found changed.
Environment ==
  /\ payload \in Payloads
  /\ versions \in [Sides -> 1 .. 2]
  /\ faults \in {{}, Faults}
  /\ versions["up"] # versions["down"] => "version" \in faults
  /\ changed \in {{}} \cup {{f} : f \in Unstable \cap Files(payload)}

Both(up, down) == [e \in Sides |-> IF e = "up" THEN up ELSE down]

Init ==
  /\ Environment
  /\ status = Both("Init", "None")
  /\ error = Both("None", "None")
  /\ greeted = Both(FALSE, FALSE)
  /\ pc = Both("Loop", "Loop") /\ calls = Both(0, 0)
  /\ sock = Both("None", "None")
  /\ wbuf = Both(<< >>, << >>) /\ net = Both(<< >>, << >>) /\ rbuf = Both(<< >>, << >>)
  /\ mgr = Both(NewManager(payload), NewManager(payload))
  /\ content = Both(<< >>, << >>)
  /\ choice = "None"

\* Upload::connect.  A connection refused at once reports its failure, and
\* the Error status, from within open_connection, before set_status.
Connect ==
  /\ status["up"] = "Init"
  /\ status' = [status EXCEPT !["up"] = "Starting"]
  /\ \/ /\ sock' = [sock EXCEPT !["up"] = "Connecting"]
        /\ UNCHANGED error
     \/ /\ "unreachable" \in faults
        /\ sock' = [sock EXCEPT !["up"] = "Unconnected"]
        /\ error' = [error EXCEPT !["up"] = "Network"]
  /\ Constant
  /\ UNCHANGED <<greeted, pc, calls, wbuf, net, rbuf, mgr, content, choice>>

\* on_socket_connected in the upload.
Connected ==
  /\ sock["up"] = "Connecting"
  /\ sock' = [sock EXCEPT !["up"] = "Connected"]
  /\ wbuf' = [wbuf EXCEPT !["up"] = << HandshakeMsg(versions["up"]) >>]
  /\ Constant
  /\ UNCHANGED <<status, error, greeted, pc, calls, net, rbuf, mgr, content, choice>>

\* The server accepts the connection and builds a Download on its socket.
NewDownload ==
  /\ status["down"] = "None"
  /\ sock["up"] \in {"Connecting", "Connected"}
  /\ status' = [status EXCEPT !["down"] = "Starting"]
  /\ sock' = [sock EXCEPT !["down"] = "Connected"]
  /\ wbuf' = [wbuf EXCEPT !["down"] = << HandshakeMsg(versions["down"]) >>]
  /\ Constant
  /\ UNCHANGED <<error, greeted, pc, calls, net, rbuf, mgr, content, choice>>

\* The kernel takes k messages from the write buffer; bytesWritten is emitted,
\* and a socket in Closing closes when all is written.
Write(e) ==
  /\ pc[e] = "Loop"
  /\ sock[e] \in {"Connected", "Closing"}
  /\ \E k \in 1 .. Len(wbuf[e]) :
       /\ Len(net[e]) + k <= NetCapacity
       /\ net' = [net EXCEPT ![e] = @ \o Prefix(wbuf[e], k)]
       /\ wbuf' = [wbuf EXCEPT ![e] = Rest(@, k)]
       /\ sock' = IF sock[e] = "Closing" /\ k = Len(wbuf[e])
                  THEN [sock EXCEPT ![e] = "Unconnected"]
                  ELSE sock
  /\ pc' = IF e = "up" /\ status[e] = "Transfering"
           THEN [pc EXCEPT ![e] = "Written"]
           ELSE pc
  /\ Constant
  /\ UNCHANGED <<status, error, greeted, calls, rbuf, mgr, content, choice>>

\* readyRead: some messages arrived, and on_data_received starts.
Arrive(e) ==
  /\ pc[e] = "Loop"
  /\ sock[e] = "Connected"
  /\ \E k \in 1 .. Len(net[Peer(e)]) :
       /\ rbuf' = [rbuf EXCEPT ![e] = @ \o Prefix(net[Peer(e)], k)]
       /\ net' = [net EXCEPT ![Peer(e)] = Rest(@, k)]
  /\ pc' = [pc EXCEPT ![e] = "Reading"]
  /\ Constant
  /\ UNCHANGED <<status, error, greeted, calls, sock, wbuf, mgr, content, choice>>

\* The timer set by an on_data_received that had worked for too long.
Timer(e) ==
  /\ pc[e] = "Loop" /\ calls[e] > 0
  /\ pc' = [pc EXCEPT ![e] = "Reading"]
  /\ calls' = [calls EXCEPT ![e] = @ - 1]
  /\ Constant
  /\ UNCHANGED <<status, error, greeted, sock, wbuf, net, rbuf, mgr, content, choice>>

\* on_socket_error, called by the event loop (see FlushFails for the flush).
SocketError(e) ==
  /\ pc[e] = "Loop"
  /\ Abort(e, rbuf[e])
  /\ Failed(e, "Network", mgr[e])
  /\ Constant
  /\ UNCHANGED <<greeted, pc, calls, content, choice>>

\* The peer closed its side, and all it sent has been delivered.
RemoteClosed(e) ==
  /\ sock[e] = "Connected" /\ sock[Peer(e)] = "Unconnected"
  /\ net[Peer(e)] = << >>
  /\ SocketError(e)
  /\ UNCHANGED net

\* What this side sent reached a closed socket, which answers with a reset.
Reset(e) ==
  /\ sock[e] \in {"Connected", "Closing"} /\ sock[Peer(e)] = "Unconnected"
  /\ net[e] # << >>
  /\ SocketError(e)
  /\ net' = [net EXCEPT ![Peer(e)] = << >>]

NetworkError(e) ==
  /\ "network" \in faults
  /\ sock[e] \in {"Connecting", "Connected", "Closing"}
  /\ SocketError(e)
  /\ UNCHANGED net

----------------------------------------------------------------------------
(* Reading: receive_handshake and receive_message, one message at a time.  *)

Incoming(e) == Head(rbuf[e])

\* A whole message of e is in its read buffer.
Readable(e) ==
  /\ rbuf[e] # << >>
  /\ Incoming(e).kind # "Incomplete"

\* It is of that kind, and receive_message is about to look at it.
Taking(e, kind) ==
  /\ pc[e] = "Reading"
  /\ Readable(e)
  /\ Incoming(e).kind = kind

Take(e) == rbuf' = [rbuf EXCEPT ![e] = Tail(@)]

\* The handler returned true: on_data_received goes on, or, out of time, asks
\* to be called again.
Continue(e) ==
  \/ /\ pc' = [pc EXCEPT ![e] = "Reading"]
     /\ UNCHANGED calls
  \/ /\ calls[e] < MaxCalls
     /\ pc' = [pc EXCEPT ![e] = "Loop"]
     /\ calls' = [calls EXCEPT ![e] = @ + 1]

\* The handler returned false.
Stop(e) == pc' = [pc EXCEPT ![e] = "Loop"] /\ UNCHANGED calls

\* Nothing is left to read, or not a whole message.
Starved(e) ==
  /\ pc[e] = "Reading"
  /\ ~Readable(e)
  /\ Stop(e)
  /\ Constant
  /\ UNCHANGED <<status, error, greeted, sock, wbuf, net, rbuf, mgr, content, choice>>

\* receive_handshake and on_handshake_completed; the first message, if there,
\* is read at once.
ReceiveHandshake(e) ==
  /\ Taking(e, "Handshake") /\ ~greeted[e]
  /\ Incoming(e).version = versions[e]
  /\ Take(e)
  /\ greeted' = [greeted EXCEPT ![e] = TRUE]
  /\ \/ /\ e = "up"
        /\ wbuf' = [wbuf EXCEPT ![e] = Append(@, Msg("Offer"))]
        /\ status' = [status EXCEPT ![e] = "WaitingForPeerAnswer"]
     \/ /\ e = "down"
        /\ status' = [status EXCEPT ![e] = "WaitingForOffer"]
        /\ UNCHANGED wbuf
  /\ Constant
  /\ UNCHANGED <<error, pc, calls, sock, net, mgr, content, choice>>

\* failure (), with a notice for the peer.
VersionMismatch(e) ==
  /\ Taking(e, "Handshake") /\ ~greeted[e]
  /\ Incoming(e).version # versions[e]
  /\ Take(e)
  /\ Close(e, Append(wbuf[e], Msg("Error")))
  /\ Failed(e, "Version", mgr[e])
  /\ Stop(e)
  /\ Constant
  /\ UNCHANGED <<greeted, net, content, choice>>

\* The messages each status of each side has a use for.
Expected(e, kind) ==
  \/ kind = "Error"
  \/ e = "up" /\ kind \in {"Accept", "Reject"} /\ status[e] = "WaitingForPeerAnswer"
  \/ e = "up" /\ kind = "Completed" /\ status[e] = "Transfering"
                /\ IsTransferComplete(payload, mgr[e])
  \/ e = "down" /\ kind = "Offer" /\ status[e] = "WaitingForOffer"
  \/ e = "down" /\ kind \in {"Chunk", "Checksums"} /\ status[e] = "Transfering"

\* protocol_error: the handshake is not one, or the message is not expected.
ProtocolError(e) ==
  /\ pc[e] = "Reading" /\ Readable(e)
  /\ IF greeted[e] THEN ~Expected(e, Incoming(e).kind)
                   ELSE Incoming(e).kind # "Handshake"
  /\ Abort(e, Tail(rbuf[e]))
  /\ Failed(e, "Protocol", mgr[e])
  /\ Stop(e)
  /\ Constant
  /\ UNCHANGED <<greeted, net, content, choice>>

\* An Error message: failure (.., CloseMode).  In an upload that is
\* transfering, the flush of close_connection goes on in UpFlush, as each
\* write emits bytesWritten, and on_data_written may fill the buffer again.
ReceiveError(e) ==
  /\ Taking(e, "Error") /\ greeted[e]
  /\ Take(e)
  /\ \/ /\ e = "up" /\ status[e] = "Transfering"
        /\ pc' = [pc EXCEPT ![e] = "Flush"]
        /\ error' = [error EXCEPT ![e] = "Peer"]
        /\ UNCHANGED <<calls, status, mgr, sock, wbuf>>
     \/ /\ ~(e = "up" /\ status[e] = "Transfering")
        /\ Close(e, wbuf[e])
        /\ Failed(e, "Peer", mgr[e])
        /\ Stop(e)
  /\ Constant
  /\ UNCHANGED <<greeted, net, content, choice>>

----------------------------------------------------------------------------
(* Upload. *)

\* Mutant: start_transfer is forgotten.
ReceiveAcceptClosed ==
  /\ Taking("up", "Accept") /\ Expected("up", "Accept")
  /\ Take("up")
  /\ status' = [status EXCEPT !["up"] = "Transfering"]
  /\ pc' = [pc EXCEPT !["up"] = "Accepted"]
  /\ Constant
  /\ UNCHANGED <<error, greeted, calls, sock, wbuf, net, mgr, content, choice>>

ReceiveAccept ==
  /\ Taking("up", "Accept") /\ Expected("up", "Accept")
  /\ Take("up")
  /\ mgr' = [mgr EXCEPT !["up"] = StartTransfer(@, "Sending")]
  /\ status' = [status EXCEPT !["up"] = "Transfering"]
  /\ pc' = [pc EXCEPT !["up"] = "Accepted"]
  /\ Constant
  /\ UNCHANGED <<error, greeted, calls, sock, wbuf, net, content, choice>>

\* Mutants: Reject falls into the handler of Accept, or that of Completed.
ReceiveRejectAccepts ==
  /\ Taking("up", "Reject") /\ Expected("up", "Reject")
  /\ Take("up")
  /\ mgr' = [mgr EXCEPT !["up"] = StartTransfer(@, "Sending")]
  /\ status' = [status EXCEPT !["up"] = "Transfering"]
  /\ pc' = [pc EXCEPT !["up"] = "Accepted"]
  /\ Constant
  /\ UNCHANGED <<error, greeted, calls, sock, wbuf, net, content, choice>>

ReceiveReject ==
  /\ Taking("up", "Reject") /\ Expected("up", "Reject")
  /\ Take("up")
  /\ Close("up", wbuf["up"])
  /\ status' = [status EXCEPT !["up"] = "Rejected"]
  /\ Stop("up")
  /\ Constant
  /\ UNCHANGED <<error, greeted, net, mgr, content, choice>>

\* Mutant: close_connection is forgotten.
ReceiveCompletedLeavesOpen ==
  /\ Taking("up", "Completed") /\ Expected("up", "Completed")
  /\ Take("up")
  /\ status' = [status EXCEPT !["up"] = "Completed"]
  /\ Continue("up")
  /\ Constant
  /\ UNCHANGED <<error, greeted, sock, wbuf, net, mgr, content, choice>>

ReceiveCompleted ==
  /\ Taking("up", "Completed") /\ Expected("up", "Completed")
  /\ Take("up")
  /\ Close("up", wbuf["up"])
  /\ status' = [status EXCEPT !["up"] = "Completed"]
  /\ Continue("up")
  /\ Constant
  /\ UNCHANGED <<error, greeted, net, mgr, content, choice>>

\* Mutant: the size of the write buffer is not tested.
MayRefillAlways(w) == mgr["up"].total < TotalSize(payload)

\* The condition of the loop of refill_send_buffer.
MayRefill(w) ==
  Len(w) < WriteLimit /\ mgr["up"].total < TotalSize(payload)

\* refill_send_buffer returns true to its caller.
RefillReturns ==
  \/ pc["up"] = "Accepted" /\ Continue("up")
  \/ pc["up"] = "Written" /\ Stop("up")
  \/ pc["up"] = "Flushed" /\ pc' = [pc EXCEPT !["up"] = "Flush"] /\ UNCHANGED calls

ChunkOpens == Opens(payload, mgr["up"], NextChunkSize(payload, mgr["up"]))

\* Base::send_next_chunk: a chunk, and the checksums of the files it ends.
SendNextChunk ==
  /\ pc["up"] \in Refilling
  /\ MayRefill(wbuf["up"])
  /\ ChunkOpens \cap changed = {}
  /\ LET m == mgr["up"]
         n == NextChunkSize(payload, m)
         chunk == m.total + 1 .. m.total + n
     IN  \E torn \in IF "torn" \in faults THEN {{}, chunk} ELSE {{}} :
         \E after \in Moved(payload, m, n) :
           /\ content' = [content EXCEPT !["up"] =
                            Extend(@, m.total, n, Span(m.total, n, torn))]
           /\ mgr' = [mgr EXCEPT !["up"] = TakePendingChecksums(payload, after)]
           /\ wbuf' = [wbuf EXCEPT !["up"] =
                         @ \o << ChunkMsg(Span(m.total, n, {})) >>
                           \o PendingMsgs(payload, after, content'["up"])]
  /\ \/ UNCHANGED <<pc, calls>>
     \/ RefillReturns
  /\ Constant
  /\ UNCHANGED <<status, error, greeted, sock, net, rbuf, choice>>

RefillEnds ==
  /\ pc["up"] \in Refilling
  /\ ~MayRefill(wbuf["up"])
  /\ RefillReturns
  /\ Constant
  /\ UNCHANGED <<status, error, greeted, sock, wbuf, net, rbuf, mgr, content, choice>>

\* A file of the chunk cannot be opened.  The chunk is announced already, and
\* failure () puts its notice behind the bytes written so far.  Called from
\* on_receive_accept, the flush of close_connection emits bytesWritten if it
\* writes anything, and on_data_written, which still finds the upload
\* Transfering, calls send_next_chunk on a manager that transfer_error has
\* closed.  Called from on_data_written, the flush emits nothing.
SendFails ==
  /\ pc["up"] \in Refilling
  /\ MayRefill(wbuf["up"])
  /\ LET m == mgr["up"]
         n == NextChunkSize(payload, m)
     IN  \E f \in ChunkOpens \cap changed :
         \E cut \in CutChunks(m.total, n, payload.start[f] - m.total) :
         \E k \in 0 .. Len(wbuf["up"] \o cut) :
           LET w == wbuf["up"] \o cut
           IN  /\ Len(net["up"]) + k <= NetCapacity
               /\ net' = [net EXCEPT !["up"] = @ \o Prefix(w, k)]
               /\ Close("up", Rest(w, k))
               /\ Failed("up", "Payload", OpenFails(payload, m, f))
               /\ content' = [content EXCEPT !["up"] =
                    Extend(@, m.total, payload.start[f] - m.total,
                           Span(m.total, payload.start[f] - m.total, {}))]
               /\ pc' = [pc EXCEPT !["up"] =
                    CASE @ = "Accepted" /\ k > 0 /\ Len(w) - k < WriteLimit -> "Crashed"
                      [] @ = "Flushed" -> "Flush"
                      [] OTHER -> "Loop"]
  /\ Constant
  /\ UNCHANGED <<greeted, calls, rbuf, choice>>

\* One write of the flush of close_connection.
UpFlush ==
  /\ pc["up"] = "Flush" /\ sock["up"] = "Connected"
  /\ \E k \in 1 .. Len(wbuf["up"]) :
       /\ Len(net["up"]) + k <= NetCapacity
       /\ net' = [net EXCEPT !["up"] = @ \o Prefix(wbuf["up"], k)]
       /\ wbuf' = [wbuf EXCEPT !["up"] = Rest(@, k)]
  /\ pc' = [pc EXCEPT !["up"] = "Flushed"]
  /\ Constant
  /\ UNCHANGED <<status, error, greeted, calls, sock, rbuf, mgr, content, choice>>

\* The kernel takes no more, or nothing is left: failure () goes on.
UpFlushEnds ==
  /\ pc["up"] = "Flush"
  /\ Close("up", wbuf["up"])
  /\ Failed("up", error["up"], mgr["up"])
  /\ Stop("up")
  /\ Constant
  /\ UNCHANGED <<greeted, net, rbuf, content, choice>>

----------------------------------------------------------------------------
(* Download. *)

ReceiveOffer ==
  /\ Taking("down", "Offer") /\ Expected("down", "Offer")
  /\ Take("down")
  /\ status' = [status EXCEPT !["down"] = "WaitingForUserChoice"]
  /\ Continue("down")
  /\ Constant
  /\ UNCHANGED <<error, greeted, sock, wbuf, net, mgr, content, choice>>

\* give_user_choice (Accept), from the user interface or from within
\* status_changed.
UserAccepts ==
  /\ status["down"] = "WaitingForUserChoice"
  /\ choice' = "Accept"
  /\ wbuf' = [wbuf EXCEPT !["down"] = Append(@, Msg("Accept"))]
  /\ mgr' = [mgr EXCEPT !["down"] = StartTransfer(@, "Receiving")]
  /\ status' = [status EXCEPT !["down"] = "Transfering"]
  /\ Constant
  /\ UNCHANGED <<error, greeted, pc, calls, sock, net, rbuf, content>>

UserRejects ==
  /\ status["down"] = "WaitingForUserChoice"
  /\ choice' = "Reject"
  /\ Close("down", Append(wbuf["down"], Msg("Reject")))
  /\ status' = [status EXCEPT !["down"] = "Rejected"]
  /\ Constant
  /\ UNCHANGED <<error, greeted, pc, calls, net, rbuf, mgr, content>>

\* The same, when the flush fails: the Error of failure () gives way to Rejected.
UserRejectsUnheard ==
  /\ status["down"] = "WaitingForUserChoice"
  /\ choice' = "Reject"
  /\ FlushFails("down", rbuf["down"], mgr["down"])
  /\ status' = [status EXCEPT !["down"] = "Rejected"]
  /\ Constant
  /\ UNCHANGED <<greeted, pc, calls, net, content>>

\* failure () in the download, with a notice for the peer.
DownFailure(m) ==
  /\ Close("down", Append(wbuf["down"], Msg("Error")))
  /\ Failed("down", "Payload", m)
  /\ Stop("down")

ReceiveChunk ==
  /\ Taking("down", "Chunk") /\ Expected("down", "Chunk")
  /\ Take("down")
  /\ LET m == mgr["down"]
         data == Incoming("down").data
     IN  \E after \in Received(payload, m, Len(data), "disk" \in faults) :
           /\ content' = [content EXCEPT !["down"] =
                            Extend(@, m.total, after.total - m.total, data)]
           /\ \/ /\ after.error
                 /\ DownFailure(after)
              \/ /\ ~after.error
                 /\ mgr' = [mgr EXCEPT !["down"] = after]
                 /\ Continue("down")
                 /\ UNCHANGED <<status, error, sock, wbuf>>
  /\ Constant
  /\ UNCHANGED <<greeted, net, choice>>

ReceiveChecksums ==
  /\ Taking("down", "Checksums") /\ Expected("down", "Checksums")
  /\ Take("down")
  /\ \E m \in TestChecksums(payload, mgr["down"], content["down"], Incoming("down").sums) :
       \/ /\ m.error
          /\ DownFailure(m)
       \/ /\ ~m.error /\ IsTransferComplete(payload, m)
          /\ mgr' = [mgr EXCEPT !["down"] = m]
          /\ Close("down", Append(wbuf["down"], Msg("Completed")))
          /\ status' = [status EXCEPT !["down"] = "Completed"]
          /\ Continue("down")
          /\ UNCHANGED error
       \/ /\ ~m.error /\ ~IsTransferComplete(payload, m)
          /\ mgr' = [mgr EXCEPT !["down"] = m]
          /\ Continue("down")
          /\ UNCHANGED <<status, error, sock, wbuf>>
  /\ Constant
  /\ UNCHANGED <<greeted, net, content, choice>>

\* The last checksum is right, and the flush fails: the Error of failure ()
\* gives way to Completed.
ReceiveChecksumsUnheard ==
  /\ Taking("down", "Checksums") /\ Expected("down", "Checksums")
  /\ \E m \in TestChecksums(payload, mgr["down"], content["down"], Incoming("down").sums) :
       /\ ~m.error /\ IsTransferComplete(payload, m)
       /\ FlushFails("down", Tail(rbuf["down"]), m)
  /\ status' = [status EXCEPT !["down"] = "Completed"]
  /\ Continue("down")
  /\ Constant
  /\ UNCHANGED <<greeted, net, content, choice>>

----------------------------------------------------------------------------

\* What the event loop of each side runs, and what the peers' kernels do.
Handle(e) ==
  \/ Write(e) \/ Arrive(e) \/ Timer(e) \/ Starved(e)
  \/ RemoteClosed(e) \/ Reset(e)
  \/ ReceiveHandshake(e) \/ VersionMismatch(e)
  \/ ProtocolError(e) \/ ReceiveError(e)

UpStep ==
  \/ Connect \/ Connected
  \/ ReceiveAccept \/ ReceiveReject \/ ReceiveCompleted
  \/ SendNextChunk \/ RefillEnds \/ SendFails \/ UpFlush \/ UpFlushEnds
  \/ Handle("up")

DownStep ==
  \/ NewDownload
  \/ ReceiveOffer \/ ReceiveChunk \/ ReceiveChecksums \/ ReceiveChecksumsUnheard
  \/ Handle("down")

User == UserAccepts \/ UserRejects \/ UserRejectsUnheard

Next == UpStep \/ DownStep \/ User \/ \E e \in Sides : NetworkError(e)

\* Each event loop keeps dispatching, and the user answers.
Fairness ==
  /\ WF_vars(UpStep)
  /\ WF_vars(DownStep)
  /\ WF_vars(User)

Spec == Init /\ [][Next]_vars /\ Fairness

----------------------------------------------------------------------------
(* Properties. *)

InFlight(e, kind) ==
  \E s \in {wbuf[e], net[e], rbuf[Peer(e)]} :
  \E k \in DOMAIN s : s[k].kind = kind

\* The protocol keeps the promises of TransferContract: what the upload
\* reports is what its peer decided and reports, for good, and what was
\* delivered is whole: every byte in place, as the sender hashed it, and every
\* checksum tested, whatever was split, delayed, cut short or altered under the
\* sender's hands (on_receive_completed, on_receive_reject,
\* on_receive_checksums, give_user_choice and failure).
Outcome(e) == IF status[e] \in Final THEN status[e] ELSE "Open"

Delivered ==
  /\ mgr["down"].done = payload.nb
  /\ content["down"] = [k \in 1 .. TotalSize(payload) |-> k]
  /\ content["up"] = content["down"]

Contract == INSTANCE TransferContract WITH
  upOutcome <- Outcome("up"), downOutcome <- Outcome("down"), delivered <- Delivered

ImplementsContract == Contract!Spec

\* No byte of the payload leaves the sender, and no file is written by the
\* receiver, unless the user of the download has accepted (the protocol
\* definition at the top of core_transfer.h).
NothingWithoutConsent ==
  choice # "Accept" => ~InFlight("up", "Chunk") /\ mgr["down"].total = 0

\* The last answer of the download finds the upload with nothing left to write:
\* the flush of on_receive_reject and on_receive_completed, which go on to set
\* their own status, has nothing to do and cannot fail.
NothingToFlush ==
  \A kind \in {"Reject", "Completed"} :
    Taking("up", kind) /\ Expected("up", kind) => wbuf["up"] = << >>

\* connectToHost failed at once, before Upload::connect set its status.
NeverConnected(e) ==
  /\ e = "up" /\ "unreachable" \in faults
  /\ sock[e] = "Unconnected" /\ status[e] = "Starting"

\* The flush of the download's own last message failed, before give_user_choice
\* or on_receive_checksums set its status.
Unheard(e) ==
  e = "down" /\ error[e] = "Network" /\ status[e] \in {"Completed", "Rejected"}

\* A side whose event loop is idle and whose failure has been recorded shows
\* the status Error, "failed() [...] emits a status_changed(Error) anyway"
\* (gui_transfers.h), save the two failures that the code does hide, as they
\* are reported inside a call whose caller then sets a status of its own.  The
\* answers of the download hide none: they find the upload with no flush to do.
FailureIsShown ==
  /\ \A e \in Sides :
       pc[e] = "Loop" /\ error[e] # "None" =>
         status[e] = "Error" \/ NeverConnected(e) \/ Unheard(e)
  /\ NothingToFlush

\* send_next_chunk is called on a manager that is sending: its
\* Q_ASSERT (transfer_status == Sending).  Otherwise files.end () is used.
SendsOnlyWhileSending ==
  /\ pc["up"] # "Crashed"
  /\ pc["up"] \in Refilling /\ MayRefill(wbuf["up"]) => mgr["up"].mode = "Sending"

\* refill_send_buffer bounds what the upload queues, however its calls from
\* on_receive_accept, on_data_written and a flush follow each other: to a
\* buffer under its limit it adds a chunk and one list of checksums, or the
\* notice of a failure.
WriteBufferBounded == Len(wbuf["up"]) <= WriteLimit + 1

\* When nothing goes wrong around them, neither side reports any error: no
\* message is lost in a buffer as the connection closes, and the closing of
\* the connection is never taken for a failure.
NoError ==
  faults = {} /\ changed = {} => error = Both("None", "None")

\* Every transfer that was connected comes to an end on both sides, whatever
\* fails around them, provided the user of the download answers and each side
\* is told when its connection breaks: there is no timeout, and a peer that
\* vanishes without a word is waited for.
EveryTransferEnds ==
  <>[](status["up"] \in Final /\ status["down"] \in Final \cup {"None"})
============================================================================
