--------------------------- MODULE PayloadStream ---------------------------
(***************************************************************************)
(* The data phase of a transfer, from the Accept to its end: the sending   *)
(* and the receiving Payload::Manager joined by the ordered stream that    *)
(* carries chunks and checksums (Base::send_next_chunk, receive_next_chunk *)
(* and receive_checksums, core_transfer.h).                                *)
(*                                                                         *)
(* The stream is the log of the messages the sender wrote, in order, and   *)
(* the number of them the receiver handled.  Framing, buffers and the      *)
(* handshake are the subject of module Transfer.                           *)
(*                                                                         *)
(* Environment: a file may be modified between the offer and its opening   *)
(* (the sender then refuses to open it), or while it is being read: the    *)
(* bytes are copied to the stream, then read again from the mapping by     *)
(* hash.addData, so that the two may differ.  The receiver may fail to     *)
(* create a file, and the connection may break on either side.             *)
(***************************************************************************)
EXTENDS Payload

CONSTANT Payloads       \* the payloads that may be offered

ASSUME PayloadsAssumption == \A p \in Payloads : IsPayload(p)

VARIABLES
  payload,      \* the payload both sides agreed on
  up, down,     \* the manager of the sender, of the receiver
  upStatus,     \* Upload::status and Download::status, from Transfering on
  downStatus,
  changed,      \* files of the sender modified since the offer
  hashed,       \* what the sender's hashes were fed, by position
  got,          \* what the receiver's files contain, by position
  log,          \* messages the sender wrote on the stream
  read,         \* how many of them the receiver handled
  answer        \* last message of the receiver, or "None"

vars == <<payload, up, down, upStatus, downStatus, changed, hashed, got,
          log, read, answer>>

Statuses == {"Transfering", "Completed", "Error"}

CloseMsg == [kind |-> "Close"]

Init ==
  /\ payload \in Payloads
  /\ up = StartTransfer(NewManager(payload), "Sending")
  /\ down = StartTransfer(NewManager(payload), "Receiving")
  /\ upStatus = "Transfering" /\ downStatus = "Transfering"
  /\ changed = {}
  /\ hashed = << >> /\ got = << >>
  /\ log = << >> /\ read = 0
  /\ answer = "None"

----------------------------------------------------------------------------
(* Sender. *)

MayRefill ==
  /\ upStatus = "Transfering"
  /\ up.total < TotalSize(payload)

\* The chunk goes through: every file it opens is as it was offered.  torn
\* holds the bytes modified between the copy to the stream and the hash.
SendChunk ==
  /\ MayRefill
  /\ LET n == NextChunkSize(payload, up)
     IN  /\ Opens(payload, up, n) \cap changed = {}
         /\ \E torn \in SUBSET (up.total + 1 .. up.total + n) :
            \E m \in Moved(payload, up, n) :
              /\ hashed' = Extend(hashed, up.total, n, Span(up.total, n, torn))
              /\ up' = TakePendingChecksums(payload, m)
              /\ log' = log \o << ChunkMsg(Span(up.total, n, {})) >>
                            \o PendingMsgs(payload, m, hashed')
  /\ UNCHANGED <<payload, down, upStatus, downStatus, changed, got, read, answer>>

\* A file the chunk opens has changed.  The frame of the chunk is announced
\* and its first bytes may be out; failure () then writes an Error message,
\* which the receiver can only read as the rest of the chunk, if it is long
\* enough to fill it, and closes the connection.
SendFails ==
  /\ MayRefill
  /\ LET n == NextChunkSize(payload, up)
     IN  \E f \in Opens(payload, up, n) \cap changed :
           /\ \A g \in Opens(payload, up, n) \cap changed : f <= g
           /\ up' = OpenFails(payload, up, f)
           /\ hashed' = Extend(hashed, up.total, payload.start[f] - up.total,
                               Span(up.total, payload.start[f] - up.total, {}))
           /\ \E frame \in
                {<< >>,
                 << ChunkMsg(Span(up.total, n, payload.start[f] + 1 .. up.total + n)) >>} :
                log' = log \o frame \o << CloseMsg >>
  /\ upStatus' = "Error"
  /\ UNCHANGED <<payload, down, downStatus, changed, got, read, answer>>

\* Base::failure on the sender, after which the receiver sees the end of the
\* stream.
UpFailure ==
  /\ upStatus' = "Error" /\ up' = StopTransfer(payload, up)
  /\ log' = Append(log, CloseMsg)

ReceiveCompleted ==
  /\ upStatus = "Transfering" /\ answer = "Completed"
  /\ \/ /\ IsTransferComplete(payload, up)
        /\ upStatus' = "Completed"
        /\ UNCHANGED <<up, log>>
     \/ /\ ~IsTransferComplete(payload, up)
        /\ UpFailure
  /\ UNCHANGED <<payload, down, downStatus, changed, hashed, got, read, answer>>

\* The receiver reported an error, or its side of the connection is gone.
ReceiverGone ==
  /\ upStatus = "Transfering" /\ answer = "Error"
  /\ UpFailure
  /\ UNCHANGED <<payload, down, downStatus, changed, hashed, got, read, answer>>

----------------------------------------------------------------------------
(* Receiver. *)

Incoming == log[read + 1]

Expecting(kind) ==
  /\ downStatus = "Transfering"
  /\ read < Len(log)
  /\ Incoming.kind = kind
  /\ read' = read + 1
  /\ UNCHANGED <<payload, up, upStatus, changed, hashed, log>>

\* Base::failure with the manager in state m.
DownFailure(m) ==
  /\ down' = StopTransfer(payload, m)
  /\ downStatus' = "Error" /\ answer' = "Error"

ReceiveChunk ==
  /\ Expecting("Chunk")
  /\ \E m \in Received(payload, down, Len(Incoming.data), TRUE) :
       /\ got' = Extend(got, down.total, m.total - down.total, Incoming.data)
       /\ \/ /\ m.error
             /\ DownFailure(m)
          \/ /\ ~m.error
             /\ down' = m
             /\ UNCHANGED <<downStatus, answer>>

ReceiveChecksums ==
  /\ Expecting("Checksums")
  /\ \E m \in TestChecksums(payload, down, got, Incoming.sums) :
       \/ /\ m.error
          /\ DownFailure(m)
       \/ /\ ~m.error /\ IsTransferComplete(payload, m)
          /\ down' = m
          /\ downStatus' = "Completed" /\ answer' = "Completed"
       \/ /\ ~m.error /\ ~IsTransferComplete(payload, m)
          /\ down' = m
          /\ UNCHANGED <<downStatus, answer>>
  /\ UNCHANGED got

SenderClosed ==
  /\ Expecting("Close")
  /\ DownFailure(down)
  /\ UNCHANGED got

----------------------------------------------------------------------------
(* Environment. *)

ChangeFile(f) ==
  /\ f \notin changed
  /\ up.mode = "Sending"
  /\ changed' = changed \cup {f}
  /\ UNCHANGED <<payload, up, down, upStatus, downStatus, hashed, got, log, read, answer>>

UpConnectionLost ==
  /\ upStatus = "Transfering"
  /\ UpFailure
  /\ UNCHANGED <<payload, down, downStatus, changed, hashed, got, read, answer>>

DownConnectionLost ==
  /\ downStatus = "Transfering"
  /\ DownFailure(down)
  /\ UNCHANGED <<payload, up, upStatus, changed, hashed, got, log, read>>

Send == SendChunk \/ SendFails
Receive == ReceiveChunk \/ ReceiveChecksums \/ SenderClosed
ReceiveAnswer == ReceiveCompleted \/ ReceiverGone

Next ==
  \/ Send \/ Receive \/ ReceiveAnswer
  \/ \E f \in Files(payload) : ChangeFile(f)
  \/ UpConnectionLost \/ DownConnectionLost

\* The socket accepts bytes, delivers what it accepted, and the event loop
\* of each side keeps running its handlers.
Fairness == WF_vars(Send) /\ WF_vars(Receive) /\ WF_vars(ReceiveAnswer)

Spec == Init /\ [][Next]_vars /\ Fairness

----------------------------------------------------------------------------
(* Properties. *)

\* A download that reports Completed holds every byte of every file, in
\* place, and those bytes are the ones the sender hashed: no file was
\* altered under the sender's hands unnoticed, and no file is left without
\* its checksum tested.  on_receive_checksums, core_transfer.h.
CompletedIsIntact ==
  downStatus = "Completed" =>
    /\ got = [k \in 1 .. TotalSize(payload) |-> k]
    /\ hashed = got
    /\ down.done = payload.nb

\* Between two ends running this code, the receiver never refuses what the
\* sender meant: the next chunk of the stream fits in what is left, and the
\* next checksums are of files already complete.  The messages "Chunk goes
\* past the end of transfer" and "Received checksum of incomplete file."
\* (core_payload.h) are never shown.
NothingUnexpected ==
  downStatus = "Transfering" /\ read < Len(log) =>
    /\ Incoming.kind = "Chunk" => ChunkFits(payload, down, Len(Incoming.data))
    /\ Incoming.kind = "Checksums" =>
         Len(Incoming.sums) <= PendingChecksums(down)

\* When the receiver's Completed arrives at an upload still transfering, the
\* sender's own transfer is complete: the protocol error "Transfer not
\* complete on sender" of on_receive_completed is never raised.
CompletedFindsSenderDone ==
  upStatus = "Transfering" /\ answer = "Completed" => IsTransferComplete(payload, up)

\* A manager whose transfer goes on has not met the end of its checksums, and
\* one that closed by itself has checksummed every file and moved every byte
\* (Q_ASSERTs at the end of take_pending_checksums and test_checksums).
ClosesOnlyWhenFull ==
  /\ upStatus = "Transfering" /\ up.mode = "Closed" =>
       up.done = payload.nb /\ up.total = TotalSize(payload)
  /\ downStatus # "Error" /\ down.mode = "Closed" =>
       down.done = payload.nb /\ down.total = TotalSize(payload)

\* Whatever the sizes of the files and of the chunks, both ends leave the
\* Transfering status.
Terminates == <>(upStatus # "Transfering" /\ downStatus # "Transfering")

\* The assertion that closes send_next_chunk and receive_chunk:
\*   if (total_transfered == total_size) Q_ASSERT (current_file == files.end ());
AllBytesMeansAllFiles ==
  \A m \in {up, down} :
    m.total > 0 /\ m.total = TotalSize(payload) => m.current = End(payload)
============================================================================
