------------------------ MODULE PayloadStream_proofs ------------------------
(***************************************************************************)
(* Proofs about PayloadStream, for every payload and every size of chunk.  *)
(*                                                                         *)
(* The two managers are related by the history of the stream: the position *)
(* of the sender is at its end, that of the receiver after the messages it *)
(* has read, and each message leads from a position to the next.           *)
(***************************************************************************)
EXTENDS PayloadStream, Payload_proofs, FiniteSetTheorems

EndPosition(p) == [current |-> End(p), next |-> End(p), total |-> TotalSize(p)]

StreamTypeOK ==
  /\ payload \in Payloads
  /\ upStatus \in Statuses /\ downStatus \in Statuses
  /\ hashed \in Seq(Nat) /\ Len(hashed) <= TotalSize(payload)
  /\ log \in Seq(Messages) /\ read \in Nat /\ read <= Len(log)
  /\ \A i \in 1 .. Len(log) : log[i].kind \in {"Chunk", "Checksums", "Close"}
  /\ answer = "Completed" <=> downStatus = "Completed"

\* The sender is at the end of the stream, whole as long as it has not failed.
UpAt(h) ==
  /\ upStatus = "Transfering" => Sender(payload, up, hashed) /\ h[Len(log)] = Position(up)
  /\ upStatus # "Error" =>
       \A i \in 1 .. Len(log) : log[i].kind # "Close" /\ ~IsCut(log[i], h[i - 1])

CutsEnd(h) == \A i \in 1 .. Len(log) : IsCut(log[i], h[i - 1]) => i < Len(log)

\* The receiver took a chunk that was cut short for a whole one.
Misled == read < Len(log) /\ log[read + 1].kind = "Close" /\ down.mode = "Receiving"

DownAt(h) ==
  /\ downStatus = "Transfering" => Receiver(payload, down, h[read], hashed, got) \/ Misled
  /\ downStatus = "Completed" =>
       /\ h[read] = EndPosition(payload)
       /\ down.done = payload.nb /\ down.total = TotalSize(payload)
       /\ got = [k \in 1 .. TotalSize(payload) |-> k] /\ hashed = got

StreamHistory(h) == History(payload, hashed, log, h) /\ UpAt(h) /\ CutsEnd(h) /\ DownAt(h)

StreamInv == StreamTypeOK /\ \E h : StreamHistory(h)

LEMMA StreamInit == Init => StreamInv
<1> SUFFICES ASSUME Init
             PROVE  StreamInv
  OBVIOUS
<1>1. payload \in Payloads /\ IsPayload(payload)
  BY PayloadsAssumption DEF Init
<1>2. 1 \in 1 .. End(payload) /\ 1 # End(payload) /\ 0 <= TotalSize(payload)
      /\ End(payload) \in Nat /\ TotalSize(payload) \in Nat /\ payload.start[1] = 0
  BY <1>1, PayloadFacts
<1>3. /\ up = [mode |-> "Sending", current |-> 1, next |-> 1, total |-> 0, done |-> 0,
               error |-> FALSE]
      /\ down = [mode |-> "Receiving", current |-> 1, next |-> 1, total |-> 0, done |-> 0,
                 error |-> FALSE]
  BY DEF Init, StartTransfer, NewManager
<1>4. up \in Managers(payload) /\ down \in Managers(payload)
  BY <1>2, <1>3 DEF Managers, Modes
<1>5. /\ StartPosition \in Positions(payload)
      /\ Position(up) = StartPosition /\ Position(down) = StartPosition
  BY <1>2, <1>3 DEF Positions, Position, StartPosition
<1>6. /\ hashed = << >> /\ got = << >> /\ log = << >> /\ read = 0 /\ answer = "None"
      /\ upStatus = "Transfering" /\ downStatus = "Transfering"
      /\ << >> \in Seq(Nat) /\ << >> \in Seq(Messages) /\ Len(<< >>) = 0
  BY EmptySeq DEF Init
<1>7. StreamTypeOK
  BY <1>1, <1>2, <1>6 DEF StreamTypeOK, Statuses
<1> DEFINE h == [i \in 0 .. 0 |-> StartPosition]
<1>8. History(payload, hashed, log, h)
  <2>1. h \in [0 .. Len(log) -> Positions(payload)]
    BY <1>5, <1>6
  <2>2. \A i \in 0 .. Len(log) : h[i].total <= Len(hashed)
    BY <1>6 DEF StartPosition
  <2> QED
    BY <1>6, <2>1, <2>2 DEF History
<1>9. h[0] = StartPosition
  OBVIOUS
<1> HIDE DEF h
<1>10. UpAt(h) /\ CutsEnd(h)
  <2>1. Sender(payload, up, hashed)
    BY <1>2, <1>3, <1>4, <1>5, <1>6 DEF Sender
  <2> QED
    BY <1>5, <1>6, <1>9, <2>1 DEF UpAt, CutsEnd
<1>11. DownAt(h)
  <2>1. got = [k \in 1 .. down.total |-> k]
    BY <1>3, <1>6
  <2>2. Receiver(payload, down, h[read], hashed, got)
    BY <1>2, <1>3, <1>4, <1>5, <1>6, <1>9, <2>1 DEF Receiver
  <2> QED
    BY <1>6, <2>2 DEF DownAt
<1> QED
  BY <1>7, <1>8, <1>10, <1>11 DEF StreamInv, StreamHistory

----------------------------------------------------------------------------
(* Steps. *)

\* What the receiver knows stays true when the sender goes on.
LEMMA DownKept ==
  ASSUME NEW h, NEW g, StreamTypeOK, History(payload, hashed, log, h), DownAt(h),
         UNCHANGED <<payload, down, downStatus, got, read>>,
         Len(hashed') \in Nat, Len(hashed) <= Len(hashed'),
         \A k \in 1 .. Len(hashed) : hashed'[k] = hashed[k],
         \A i \in 1 .. Len(log) : log'[i] = log[i],
         Len(log') \in Nat, Len(log) <= Len(log'),
         \A i \in 0 .. Len(log) : g[i] = h[i],
         downStatus = "Completed" => hashed' = hashed
  PROVE  DownAt(g)'
<1>1. IsPayload(payload) /\ read \in 0 .. Len(log) /\ Len(log) \in Nat /\ Len(hashed) \in Nat
  BY PayloadsAssumption, LenProperties DEF StreamTypeOK
<1>2. h[read] \in Positions(payload) /\ h[read].total <= Len(hashed)
  BY <1>1 DEF History
<1>3. g[read] = h[read]
  BY <1>1
<1>4. ASSUME Receiver(payload, down, h[read], hashed, got)
      PROVE  Receiver(payload, down, h[read], hashed', got)
  BY <1>1, <1>2, <1>4, ReceiverWaits
<1>5. Misled => Misled'
  <2>1. read < Len(log) => read + 1 \in 1 .. Len(log)
    BY <1>1
  <2> QED
    BY <1>1, <2>1 DEF Misled
<1> QED
  BY <1>3, <1>4, <1>5 DEF DownAt

\* More has been hashed.
HashedMore ==
  /\ hashed' \in Seq(Nat)
  /\ Len(hashed) <= Len(hashed') /\ Len(hashed') <= TotalSize(payload)
  /\ \A k \in 1 .. Len(hashed) : hashed'[k] = hashed[k]

\* The stream s, along the positions k, goes on with log.
GoesOn(h, s, k) ==
  /\ s \in Seq(Messages) /\ Len(log) <= Len(s)
  /\ \A i \in 1 .. Len(log) : s[i] = log[i]
  /\ \A i \in 1 .. Len(s) : s[i].kind \in {"Chunk", "Checksums", "Close"}
  /\ \A i \in 0 .. Len(log) : k[i] = h[i]

\* The connection of the sender closes after the stream s.
LEMMA StreamBreaks ==
  ASSUME StreamTypeOK, NEW h, StreamHistory(h),
         UNCHANGED <<payload, down, downStatus, got, read, answer>>, upStatus' = "Error",
         HashedMore, downStatus = "Completed" => hashed' = hashed,
         NEW s, NEW k, GoesOn(h, s, k), History(payload, hashed', s, k),
         log' = Append(s, CloseMsg)
  PROVE  StreamInv'
<1> USE DEF HashedMore, GoesOn
<1>1. History(payload, hashed, log, h) /\ DownAt(h)
  BY DEF StreamHistory
<1>2. CloseMsg \in Messages /\ CloseMsg.kind = "Close"
  BY DEF CloseMsg, Messages
<1>3. /\ log \in Seq(Messages) /\ Len(log) \in Nat /\ Len(s) \in Nat /\ Len(hashed') \in Nat
  BY LenProperties DEF StreamTypeOK
<1>4. /\ log' \in Seq(Messages) /\ Len(log') = Len(s) + 1
      /\ log'[Len(s) + 1] = CloseMsg /\ \A i \in 1 .. Len(s) : log'[i] = s[i]
  BY <1>2, <1>3, AppendProperties
<1> PICK y : y = k[Len(s)]
  OBVIOUS
<1> PICK g : g = Longer(s, k, y)
  OBVIOUS
<1>5. \A i \in 0 .. Len(log) : g[i] = h[i]
  BY <1>3 DEF Longer
<1>6. History(payload, hashed', log', g)
  <2>1. y \in Positions(payload) /\ y.total <= Len(hashed')
    BY <1>3 DEF History
  <2>2. Link(payload, hashed', CloseMsg, y, y)
    BY <1>2 DEF Link
  <2>3. Link(payload, hashed', CloseMsg, k[Len(s)], y) /\ CloseMsg.kind \in EndKinds
    BY <1>2, <2>2 DEF EndKinds
  <2>4. History(payload, hashed', Append(s, CloseMsg), Longer(s, k, y))
    <3> PICK content : content = hashed'
      OBVIOUS
    <3>1. History(payload, content, Append(s, CloseMsg), Longer(s, k, y))
      BY <1>2, <2>1, <2>3, HistoryAppend
    <3> QED
      BY <3>1
  <2> QED
    BY <2>4
<1>7. StreamTypeOK'
  <2>1. ASSUME NEW i \in 1 .. Len(log')
        PROVE  log'[i].kind \in {"Chunk", "Checksums", "Close"}
    <3>1. i = Len(s) + 1 \/ i \in 1 .. Len(s)
      BY <1>3, <1>4
    <3> QED
      BY <1>2, <1>4, <3>1
  <2>2. read <= Len(log') /\ read \in Nat
    BY <1>3, <1>4 DEF StreamTypeOK
  <2> QED
    BY <1>4, <2>1, <2>2 DEF StreamTypeOK, Statuses
<1>8. DownAt(g)'
  <2>1. \A i \in 1 .. Len(log) : log'[i] = log[i]
    BY <1>3, <1>4
  <2>2. Len(log') \in Nat /\ Len(log) <= Len(log')
    BY <1>3, <1>4
  <2> QED
    BY <1>1, <1>3, <1>5, <2>1, <2>2, DownKept
<1>9. CutsEnd(g)'
  <2> SUFFICES ASSUME NEW i \in 1 .. Len(log'), IsCut(log'[i], g[i - 1])
               PROVE  i < Len(log')
    BY DEF CutsEnd
  <2>1. CASE i = Len(s) + 1
    BY <1>2, <1>4, <2>1 DEF IsCut
  <2>2. CASE i # Len(s) + 1
    BY <1>3, <1>4, <2>2
  <2> QED
    BY <2>1, <2>2
<1>10. UpAt(g)'
  BY DEF UpAt
<1>11. StreamHistory(g)'
  BY <1>6, <1>8, <1>9, <1>10 DEF StreamHistory
<1> QED
  BY <1>7, <1>11 DEF StreamInv

LEMMA StreamUpFailure ==
  ASSUME StreamInv, UpFailure,
         UNCHANGED <<payload, down, downStatus, changed, hashed, got, read, answer>>
  PROVE  StreamInv'
<1>1. PICK h : StreamHistory(h)
  BY DEF StreamInv
<1>2. StreamTypeOK /\ History(payload, hashed, log, h)
  BY <1>1 DEF StreamInv, StreamHistory
<1>3. log' = Append(log, CloseMsg) /\ upStatus' = "Error"
  BY DEF UpFailure
<1>4. /\ log \in Seq(Messages) /\ Len(log) \in Nat /\ hashed \in Seq(Nat) /\ Len(hashed) \in Nat
      /\ Len(hashed) <= TotalSize(payload)
      /\ \A i \in 1 .. Len(log) : log[i].kind \in {"Chunk", "Checksums", "Close"}
  BY <1>2, LenProperties DEF StreamTypeOK
<1>5. hashed' = hashed /\ History(payload, hashed', log, h)
  BY <1>2
<1>6. HashedMore
  BY <1>4, <1>5 DEF HashedMore
<1>7. GoesOn(h, log, h)
  BY <1>4 DEF GoesOn
<1> QED
  BY <1>1, <1>2, <1>3, <1>5, <1>6, <1>7, StreamBreaks

\* When the receiver is done, nothing is left on the stream of a sender that
\* has not failed.
LEMMA DoneIsEnd ==
  ASSUME StreamTypeOK, NEW h, StreamHistory(h),
         upStatus = "Transfering", downStatus = "Completed"
  PROVE  Position(up) = EndPosition(payload)
<1>1. /\ IsPayload(payload) /\ Len(log) \in Nat /\ read \in 0 .. Len(log)
      /\ \A i \in 1 .. Len(log) : log[i].kind \in {"Chunk", "Checksums"}
  BY PayloadsAssumption, LenProperties DEF StreamTypeOK, StreamHistory, UpAt
<1>2. h[read] = EndPosition(payload) /\ h[Len(log)] = Position(up)
  BY DEF StreamHistory, DownAt, UpAt
<1>3. ASSUME read # Len(log)
      PROVE  FALSE
  <2>1. read + 1 \in 1 .. Len(log) /\ (read + 1) - 1 = read
    BY <1>1, <1>3
  <2>2. Link(payload, hashed, log[read + 1], h[read], h[read + 1])
    BY <2>1 DEF StreamHistory, History
  <2>3. log[read + 1].kind \in {"Chunk", "Checksums"}
    BY <1>1, <2>1
  <2> QED
    BY <1>1, <1>2, <2>2, <2>3, PayloadFacts DEF Link, EndPosition
<1> QED
  BY <1>2, <1>3

LEMMA StreamSendChunk == StreamInv /\ SendChunk => StreamInv'
<1> SUFFICES ASSUME StreamInv, SendChunk
             PROVE  StreamInv'
  OBVIOUS
<1>1. PICK h : StreamHistory(h)
  BY DEF StreamInv
<1>2. /\ StreamTypeOK /\ History(payload, hashed, log, h)
      /\ UpAt(h) /\ CutsEnd(h) /\ DownAt(h) /\ IsPayload(payload)
      /\ upStatus = "Transfering" /\ up.total < TotalSize(payload)
  BY <1>1, PayloadsAssumption
     DEF StreamInv, StreamHistory, SendChunk, MayRefill, StreamTypeOK
<1>3. Sender(payload, up, hashed) /\ h[Len(log)] = Position(up) /\ up \in Managers(payload)
  BY <1>2 DEF UpAt, Sender
<1> PICK n : n = NextChunkSize(payload, up)
  OBVIOUS
<1>4. n \in 1 .. Remaining(payload, up) /\ n \in Nat /\ up.total + n <= TotalSize(payload)
  <2>1. n \in 1 .. Remaining(payload, up)
    BY <1>2, <1>3, NextChunk
  <2> QED
    BY <1>2, <1>3, <2>1, PayloadFacts DEF Remaining, Managers
<1>5. PICK torn \in SUBSET (up.total + 1 .. up.total + n), after \in Moved(payload, up, n) :
        /\ hashed' = Extend(hashed, up.total, n, Span(up.total, n, torn))
        /\ up' = TakePendingChecksums(payload, after)
        /\ log' = log \o << ChunkMsg(Span(up.total, n, {})) >>
                      \o PendingMsgs(payload, after, hashed')
  BY DEF SendChunk
<1>6. UNCHANGED <<payload, down, upStatus, downStatus, changed, got, read, answer>>
  BY DEF SendChunk
<1>7. /\ hashed \in Seq(Nat) /\ Len(hashed) = up.total /\ Len(hashed) \in Nat
      /\ log \in Seq(Messages) /\ Len(log) \in Nat
  BY <1>2, <1>3, LenProperties DEF StreamTypeOK, Sender
<1>8. /\ hashed' \in Seq(Nat) /\ Len(hashed') = up.total + n
      /\ \A k \in 1 .. Len(hashed) : hashed'[k] = hashed[k]
  <2>1. /\ hashed' = Extend(hashed, up.total, n, Span(up.total, n, torn))
        /\ hashed \in Seq(Nat) /\ up.total = Len(hashed) /\ n \in Nat
    BY <1>4, <1>5, <1>7
  <2> PICK content, total, longer :
        content = hashed /\ total = up.total /\ longer = hashed'
    OBVIOUS
  <2>2. /\ longer \in Seq(Nat) /\ Len(longer) = total + n
        /\ \A k \in 1 .. Len(content) : longer[k] = content[k]
    BY <2>1, HashedBytes
  <2> QED
    BY <2>2
<1>9. log # << >> => ~IsCut(log[Len(log)], h[Len(log) - 1])
  <2>1. log # << >> => Len(log) \in 1 .. Len(log)
    BY <1>7, EmptySeq
  <2> QED
    BY <1>2, <2>1 DEF UpAt
<1>10. Continues(payload, hashed', log, h, log', Position(up'))
  BY <1>2, <1>3, <1>4, <1>5, <1>7, <1>8, <1>9, SentChunk
<1>11. Sender(payload, up', hashed')
  BY <1>2, <1>3, <1>4, <1>5, <1>8, SenderStep, Zenon
<1>12. /\ log' \in Seq(Messages) /\ Len(log) <= Len(log') /\ Len(log') \in Nat
       /\ \A i \in 1 .. Len(log) : log'[i] = log[i]
       /\ \A i \in Len(log) + 1 .. Len(log') : log'[i].kind \in {"Chunk", "Checksums"}
  BY <1>10, LenProperties DEF Continues
<1>13. PICK g : /\ History(payload, hashed', log', g) /\ g[Len(log')] = Position(up')
                /\ \A i \in 0 .. Len(log) : g[i] = h[i]
                /\ \A i \in Len(log) + 1 .. Len(log') : ~IsCut(log'[i], g[i - 1])
  BY <1>10 DEF Continues
<1>14. \A i \in 1 .. Len(log') : log'[i].kind \in {"Chunk", "Checksums"} /\ ~IsCut(log'[i], g[i - 1])
  <2> SUFFICES ASSUME NEW i \in 1 .. Len(log')
               PROVE  log'[i].kind \in {"Chunk", "Checksums"} /\ ~IsCut(log'[i], g[i - 1])
    OBVIOUS
  <2>1. CASE i \in 1 .. Len(log)
    <3>1. log'[i] = log[i] /\ g[i - 1] = h[i - 1]
      BY <1>7, <1>12, <1>13, <2>1, SMTT(30)
    <3> QED
      BY <1>2, <2>1, <3>1 DEF UpAt, StreamTypeOK
  <2>2. CASE i \in Len(log) + 1 .. Len(log')
    BY <1>12, <1>13, <2>2
  <2> QED
    BY <1>7, <1>12, <2>1, <2>2
<1>15. StreamTypeOK'
  <2>1. Len(hashed') <= TotalSize(payload)
    BY <1>4, <1>8
  <2>2. read <= Len(log')
    BY <1>2, <1>7, <1>12 DEF StreamTypeOK
  <2> QED
    BY <1>2, <1>6, <1>8, <1>12, <1>14, <2>1, <2>2 DEF StreamTypeOK
<1>16. downStatus # "Completed"
  <2> SUFFICES ASSUME downStatus = "Completed"
               PROVE  FALSE
    OBVIOUS
  <2>1. Position(up) = EndPosition(payload)
    BY <1>1, <1>2, DoneIsEnd
  <2> QED
    BY <1>2, <2>1, PayloadFacts DEF Position, EndPosition
<1>17. DownAt(g)'
  <2>1. Len(hashed') \in Nat /\ Len(hashed) <= Len(hashed')
    BY <1>4, <1>7, <1>8
  <2> QED
    BY <1>2, <1>6, <1>8, <1>12, <1>13, <1>16, <2>1, DownKept
<1>18. UpAt(g)' /\ CutsEnd(g)'
  <2>1. \A i \in 1 .. Len(log') : log'[i].kind # "Close" /\ ~IsCut(log'[i], g[i - 1])
    BY <1>14
  <2> QED
    BY <1>6, <1>11, <1>13, <2>1 DEF UpAt, CutsEnd
<1>19. StreamHistory(g)'
  BY <1>6, <1>13, <1>17, <1>18 DEF StreamHistory
<1> QED
  BY <1>15, <1>19 DEF StreamInv

LEMMA StreamSendFails == StreamInv /\ SendFails => StreamInv'
<1> SUFFICES ASSUME StreamInv, SendFails
             PROVE  StreamInv'
  OBVIOUS
<1>1. PICK h : StreamHistory(h)
  BY DEF StreamInv
<1>2. /\ StreamTypeOK /\ History(payload, hashed, log, h)
      /\ UpAt(h) /\ IsPayload(payload)
      /\ upStatus = "Transfering" /\ up.total < TotalSize(payload)
  BY <1>1, PayloadsAssumption
     DEF StreamInv, StreamHistory, SendFails, MayRefill, StreamTypeOK
<1>3. Sender(payload, up, hashed) /\ h[Len(log)] = Position(up) /\ up \in Managers(payload)
      /\ Position(up) \in Positions(payload)
  BY <1>2 DEF UpAt, Sender
<1> PICK n : n = NextChunkSize(payload, up)
  OBVIOUS
<1>4. n \in 1 .. Remaining(payload, up) /\ n \in Nat /\ up.total + n <= TotalSize(payload)
      /\ up.total \in Nat /\ TotalSize(payload) \in Nat
  <2>1. n \in 1 .. Remaining(payload, up)
    BY <1>2, <1>3, NextChunk
  <2> QED
    BY <1>2, <1>3, <2>1, PayloadFacts DEF Remaining, Managers
<1>5. PICK f \in Opens(payload, up, n) :
        /\ hashed' = Extend(hashed, up.total, payload.start[f] - up.total,
                            Span(up.total, payload.start[f] - up.total, {}))
        /\ \E frame \in
             {<< >>,
              << ChunkMsg(Span(up.total, n, payload.start[f] + 1 .. up.total + n)) >>} :
             log' = log \o frame \o << CloseMsg >>
  BY DEF SendFails
<1>6. UNCHANGED <<payload, down, downStatus, changed, got, read, answer>> /\ upStatus' = "Error"
  BY DEF SendFails
<1>7. /\ hashed \in Seq(Nat) /\ Len(hashed) = up.total /\ Len(hashed) \in Nat
      /\ log \in Seq(Messages) /\ Len(log) \in Nat
      /\ \A i \in 1 .. Len(log) : log[i].kind \in {"Chunk", "Checksums", "Close"}
  BY <1>2, <1>3, LenProperties DEF StreamTypeOK, Sender
<1> PICK b : b = payload.start[f] - up.total
  OBVIOUS
<1>8. /\ payload.start[f] \in Nat /\ up.total <= payload.start[f]
      /\ payload.start[f] < up.total + n /\ b \in Nat /\ b < n
  <2>1. up.total <= payload.start[f] /\ payload.start[f] < up.total + n /\ f \in up.current .. payload.nb
    BY <1>5 DEF Opens
  <2>2. f \in 1 .. End(payload)
    BY <1>2, <1>3, <2>1, PayloadFacts DEF Managers
  <2>3. payload.start[f] \in Nat
    BY <1>2, <2>2, PayloadFacts
  <2> QED
    BY <1>4, <2>1, <2>3
<1>9. /\ hashed' \in Seq(Nat) /\ Len(hashed') = up.total + b
      /\ \A k \in 1 .. Len(hashed) : hashed'[k] = hashed[k]
  <2>1. /\ hashed' = Extend(hashed, up.total, b, Span(up.total, b, {}))
        /\ hashed \in Seq(Nat) /\ up.total = Len(hashed)
    BY <1>5, <1>7
  <2> PICK content, total, longer :
        content = hashed /\ total = up.total /\ longer = hashed'
    OBVIOUS
  <2>2. /\ longer \in Seq(Nat) /\ Len(longer) = total + b
        /\ \A k \in 1 .. Len(content) : longer[k] = content[k]
    BY <1>8, <2>1, HashedBytes, SMTT(30)
  <2> QED
    BY <2>2
<1>10. Len(hashed) <= Len(hashed') /\ Len(hashed') <= TotalSize(payload) /\ Len(hashed') \in Nat
  BY <1>4, <1>7, <1>8, <1>9
<1>11. downStatus # "Completed"
  <2> SUFFICES ASSUME downStatus = "Completed"
               PROVE  FALSE
    OBVIOUS
  <2>1. Position(up) = EndPosition(payload)
    BY <1>1, <1>2, DoneIsEnd
  <2> QED
    BY <1>2, <2>1, PayloadFacts DEF Position, EndPosition
<1>12. History(payload, hashed', log, h)
  BY <1>2, <1>7, <1>9, <1>10, HistoryGrows
<1>13. CASE log' = Append(log, CloseMsg)
  <2>1. HashedMore
    BY <1>9, <1>10 DEF HashedMore
  <2>2. GoesOn(h, log, h)
    BY <1>7 DEF GoesOn
  <2> QED
    BY <1>1, <1>2, <1>6, <1>11, <1>12, <1>13, <2>1, <2>2, StreamBreaks
<1> PICK c : c = ChunkMsg(Span(up.total, n, payload.start[f] + 1 .. up.total + n))
  OBVIOUS
<1>14. /\ c \in Messages /\ c.kind = "Chunk" /\ Len(c.data) = n /\ IsCut(c, Position(up))
  <2>1. /\ Span(up.total, n, payload.start[f] + 1 .. up.total + n) \in Seq(Nat)
        /\ Len(Span(up.total, n, payload.start[f] + 1 .. up.total + n)) = n
    BY <1>4, SpanFacts
  <2>2. c \in Messages /\ c.kind = "Chunk" /\ Len(c.data) = n
    BY <2>1 DEF ChunkMsg, Messages
  <2>3. /\ b + 1 \in 1 .. n /\ Position(up).total = up.total
        /\ up.total + (b + 1) \in payload.start[f] + 1 .. up.total + n
    BY <1>4, <1>8, SMTT(30) DEF Position
  <2>4. IsCut(ChunkMsg(Span(Position(up).total, n, payload.start[f] + 1 .. up.total + n)),
              Position(up))
    BY <1>4, <2>3, CutSpan
  <2> QED
    BY <2>2, <2>3, <2>4
<1>15. CASE log' = Append(Append(log, c), CloseMsg)
  <2> PICK s, x, k : s = Append(log, c) /\ x = Position(up) /\ k = Longer(log, h, x)
    OBVIOUS
  <2>1. /\ s \in Seq(Messages) /\ Len(s) = Len(log) + 1 /\ s[Len(log) + 1] = c
        /\ \A i \in 1 .. Len(log) : s[i] = log[i]
    BY <1>7, <1>14, AppendProperties
  <2>2. Len(log) <= Len(s) /\ \A i \in 1 .. Len(s) : s[i].kind \in {"Chunk", "Checksums", "Close"}
    BY <1>7, <1>14, <2>1
  <2>3. \A i \in 0 .. Len(log) : k[i] = h[i]
    BY <1>7 DEF Longer
  <2>4. History(payload, hashed', s, k)
    <3>1. x \in Positions(payload) /\ x.total = up.total /\ x.total <= Len(hashed')
      BY <1>3, <1>7, <1>10 DEF Position
    <3>2. n \in 1 .. TotalSize(payload) - x.total
      BY <1>4, <3>1 DEF Remaining
    <3>3. Link(payload, hashed', c, x, x)
      BY <1>14, <3>2 DEF Link, IsCut
    <3>4. log # << >> => ~IsCut(log[Len(log)], h[Len(log) - 1])
      <4>1. log # << >> => Len(log) \in 1 .. Len(log)
        BY <1>7, EmptySeq
      <4> QED
        BY <1>2, <4>1 DEF UpAt
    <3> PICK content : content = hashed'
      OBVIOUS
    <3>5. History(payload, content, Append(log, c), Longer(log, h, x))
      BY <1>3, <1>7, <1>12, <1>14, <3>1, <3>3, <3>4, HistoryAppend
    <3> QED
      BY <3>5
  <2> QED
    <3>1. /\ StreamTypeOK /\ StreamHistory(h)
          /\ UNCHANGED <<payload, down, downStatus, got, read, answer>> /\ upStatus' = "Error"
          /\ downStatus = "Completed" => hashed' = hashed
          /\ log' = Append(s, CloseMsg)
      BY <1>1, <1>2, <1>6, <1>11, <1>15
    <3>2. HashedMore
      BY <1>9, <1>10 DEF HashedMore
    <3>3. GoesOn(h, s, k)
      BY <1>7, <2>1, <2>2, <2>3 DEF GoesOn
    <3> QED
      BY <2>4, <3>1, <3>2, <3>3, StreamBreaks
<1>16. log' = Append(log, CloseMsg) \/ log' = Append(Append(log, c), CloseMsg)
  <2>1. CloseMsg \in Messages
    BY DEF CloseMsg, Messages
  <2>2. log \o << >> = log /\ log \o << CloseMsg >> = Append(log, CloseMsg)
        /\ log \o << c >> = Append(log, c) /\ Append(log, c) \in Seq(Messages)
    BY <1>7, <1>14, <2>1, ConcatEmptySeq, AppendIsConcat, AppendProperties
  <2>3. Append(log, c) \o << CloseMsg >> = Append(Append(log, c), CloseMsg)
    BY <2>1, <2>2, AppendIsConcat
  <2>4. log' = log \o << >> \o << CloseMsg >> \/ log' = log \o << c >> \o << CloseMsg >>
    BY <1>5
  <2> QED
    BY <2>2, <2>3, <2>4
<1> QED
  BY <1>13, <1>15, <1>16

\* Whatever the receiver does, the history of the stream stays.
LEMMA StreamDown ==
  ASSUME StreamTypeOK, NEW h, StreamHistory(h),
         UNCHANGED <<payload, up, upStatus, hashed, log>>,
         downStatus' \in Statuses, read' \in Nat, read' <= Len(log),
         answer' = "Completed" <=> downStatus' = "Completed",
         DownAt(h)'
  PROVE  StreamInv'
<1>1. StreamTypeOK'
  BY DEF StreamTypeOK
<1>2. UpAt(h)' /\ CutsEnd(h)'
  BY DEF StreamHistory, UpAt, CutsEnd
<1>3. StreamHistory(h)'
  BY <1>2 DEF StreamHistory
<1> QED
  BY <1>1, <1>3 DEF StreamInv

LEMMA StreamDownFailure ==
  ASSUME StreamInv, NEW m, DownFailure(m), read' \in Nat, read' <= Len(log),
         UNCHANGED <<payload, up, upStatus, hashed, log>>
  PROVE  StreamInv'
<1>1. PICK h : StreamHistory(h)
  BY DEF StreamInv
<1>2. downStatus' = "Error" /\ answer' = "Error"
  BY DEF DownFailure
<1>3. DownAt(h)'
  BY <1>2 DEF DownAt
<1> QED
  BY <1>1, <1>2, <1>3, StreamDown DEF StreamInv, Statuses

\* What the receiver knows of the message it is about to take.
LEMMA StreamIncoming ==
  ASSUME StreamTypeOK, NEW h, StreamHistory(h), NEW kind \in {"Chunk", "Checksums"},
         downStatus = "Transfering", read < Len(log), Incoming.kind = kind
  PROVE  /\ IsPayload(payload) /\ read + 1 \in Nat /\ read + 1 <= Len(log)
         /\ read + 1 \in 1 .. Len(log)
         /\ Receiver(payload, down, h[read], hashed, got)
         /\ Incoming.kind = kind
         /\ Link(payload, hashed, Incoming, h[read], h[read + 1])
         /\ h[read + 1] \in Positions(payload)
<1>1. IsPayload(payload) /\ Len(log) \in Nat /\ read \in Nat
  BY PayloadsAssumption, LenProperties DEF StreamTypeOK
<1>2. read + 1 \in 1 .. Len(log) /\ (read + 1) - 1 = read /\ read + 1 \in 0 .. Len(log)
  BY <1>1
<1>3. ~Misled
  BY DEF Misled, Incoming
<1>4. Receiver(payload, down, h[read], hashed, got)
  BY <1>3 DEF StreamHistory, DownAt
<1>5. /\ Link(payload, hashed, log[read + 1], h[read], h[read + 1])
      /\ h[read + 1] \in Positions(payload)
  BY <1>2 DEF StreamHistory, History
<1> QED
  BY <1>1, <1>2, <1>4, <1>5 DEF Incoming

LEMMA StreamReceiveChunk == StreamInv /\ ReceiveChunk => StreamInv'
<1> SUFFICES ASSUME StreamInv, ReceiveChunk
             PROVE  StreamInv'
  OBVIOUS
<1>1. PICK h : StreamHistory(h)
  BY DEF StreamInv
<1>2. /\ StreamTypeOK /\ downStatus = "Transfering" /\ read < Len(log)
      /\ Incoming.kind = "Chunk" /\ read' = read + 1
      /\ UNCHANGED <<payload, up, upStatus, changed, hashed, log>>
  BY DEF StreamInv, ReceiveChunk, Expecting
<1>3. /\ IsPayload(payload) /\ read + 1 \in Nat /\ read + 1 <= Len(log)
      /\ read + 1 \in 1 .. Len(log)
      /\ Receiver(payload, down, h[read], hashed, got)
      /\ Link(payload, hashed, Incoming, h[read], h[read + 1])
      /\ h[read + 1] \in Positions(payload)
  BY <1>1, <1>2, StreamIncoming
<1>4. PICK m \in Received(payload, down, Len(Incoming.data), TRUE) :
        /\ got' = Extend(got, down.total, m.total - down.total, Incoming.data)
        /\ \/ /\ m.error
              /\ DownFailure(m)
           \/ /\ ~m.error
              /\ down' = m
              /\ UNCHANGED <<downStatus, answer>>
  BY DEF ReceiveChunk
<1>5. ASSUME ~m.error
      PROVE  /\ m.mode = "Receiving"
             /\ IsWhole(Incoming, h[read]) => Receiver(payload, m, h[read + 1], hashed, got')
  <2>1. PICK p, d, x, y, c, g, msg, longer, unreliable :
        /\ unreliable = TRUE /\ p = payload /\ d = down /\ x = h[read] /\ y = h[read + 1] /\ c = hashed
        /\ g = got /\ msg = Incoming /\ longer = got'
    OBVIOUS
  <2>2. /\ IsPayload(p) /\ Receiver(p, d, x, c, g) /\ y \in Positions(p)
        /\ msg.kind = "Chunk" /\ Link(p, c, msg, x, y)
        /\ m \in Received(p, d, Len(msg.data), unreliable)
        /\ longer = Extend(g, d.total, m.total - d.total, msg.data)
    BY <1>2, <1>3, <1>4, <2>1
  <2>3. m.mode = "Receiving"
    <3>1. m.error \/ m.mode = d.mode
      BY <2>2, ReceivedMode
    <3>2. d.mode = "Receiving"
      BY <2>2 DEF Receiver
    <3> QED
      BY <1>5, <3>1, <3>2
  <2>4. ASSUME IsWhole(msg, x)
        PROVE  Receiver(p, m, y, c, longer)
    BY <1>5, <2>2, <2>4, ReceiverTakesChunk
  <2> QED
    BY <2>1, <2>3, <2>4
<1>6. CASE DownFailure(m)
  BY <1>2, <1>3, <1>6, StreamDownFailure
<1>7. CASE ~m.error /\ down' = m /\ UNCHANGED <<downStatus, answer>>
  <2>1. CASE IsWhole(Incoming, h[read])
    <3>1. Receiver(payload, m, h[read + 1], hashed, got')
      BY <1>5, <1>7, <2>1
    <3>2. DownAt(h)'
      BY <1>2, <1>7, <3>1 DEF DownAt
    <3> QED
      BY <1>1, <1>2, <1>3, <1>7, <3>2, StreamDown DEF StreamTypeOK
  <2>2. CASE ~IsWhole(Incoming, h[read])
    <3>1. (read + 1) - 1 = read /\ Len(log) \in Nat
      BY <1>2, LenProperties DEF StreamTypeOK
    <3>2. IsCut(log[read + 1], h[(read + 1) - 1])
      BY <1>2, <2>2, <3>1 DEF IsCut, Incoming
    <3>3. read + 1 < Len(log)
      BY <1>1, <1>3, <3>2 DEF StreamHistory, CutsEnd
    <3>4. read + 1 \in 1 .. Len(log) - 1 /\ (read + 1) + 1 \in 1 .. Len(log)
      BY <1>3, <3>1, <3>3
    <3>5. log[(read + 1) + 1].kind \in EndKinds
      BY <1>1, <3>2, <3>4 DEF StreamHistory, History
    <3>6. log[(read + 1) + 1].kind = "Close"
      BY <1>2, <3>4, <3>5 DEF StreamTypeOK, EndKinds
    <3>7. Misled'
      BY <1>2, <1>5, <1>7, <3>3, <3>6 DEF Misled
    <3>8. DownAt(h)'
      BY <1>2, <1>7, <3>7 DEF DownAt
    <3> QED
      BY <1>1, <1>2, <1>3, <1>7, <3>8, StreamDown DEF StreamTypeOK
  <2> QED
    BY <2>1, <2>2
<1> QED
  BY <1>4, <1>6, <1>7

LEMMA StreamReceiveChecksums == StreamInv /\ ReceiveChecksums => StreamInv'
<1> SUFFICES ASSUME StreamInv, ReceiveChecksums
             PROVE  StreamInv'
  OBVIOUS
<1>1. PICK h : StreamHistory(h)
  BY DEF StreamInv
<1>2. /\ StreamTypeOK /\ downStatus = "Transfering" /\ read < Len(log)
      /\ Incoming.kind = "Checksums" /\ read' = read + 1 /\ got' = got
      /\ UNCHANGED <<payload, up, upStatus, changed, hashed, log>>
  BY DEF StreamInv, ReceiveChecksums, Expecting
<1>3. /\ IsPayload(payload) /\ read + 1 \in Nat /\ read + 1 <= Len(log)
      /\ read + 1 \in 1 .. Len(log)
      /\ Receiver(payload, down, h[read], hashed, got)
      /\ Link(payload, hashed, Incoming, h[read], h[read + 1])
      /\ h[read + 1] \in Positions(payload)
  BY <1>1, <1>2, StreamIncoming
<1>4. PICK m \in TestChecksums(payload, down, got, Incoming.sums) :
       \/ /\ m.error
          /\ DownFailure(m)
       \/ /\ ~m.error /\ IsTransferComplete(payload, m)
          /\ down' = m
          /\ downStatus' = "Completed" /\ answer' = "Completed"
       \/ /\ ~m.error /\ ~IsTransferComplete(payload, m)
          /\ down' = m
          /\ UNCHANGED <<downStatus, answer>>
  BY DEF ReceiveChecksums
<1> PICK x, y : x = h[read] /\ y = h[read + 1]
  OBVIOUS
<1>5. ASSUME ~m.error
      PROVE  Receiver(payload, m, y, hashed, got) \/ Finished(payload, m, y, hashed, got)
  <2>1. PICK p, d, c, g, msg :
        p = payload /\ d = down /\ c = hashed /\ g = got /\ msg = Incoming
    OBVIOUS
  <2>2. /\ IsPayload(p) /\ Receiver(p, d, x, c, g)
        /\ msg.kind = "Checksums" /\ Link(p, c, msg, x, y)
        /\ m \in TestChecksums(p, d, g, msg.sums)
    BY <1>2, <1>3, <1>4, <2>1
  <2>3. Receiver(p, m, y, c, g) \/ Finished(p, m, y, c, g)
    BY <1>5, <2>2, ReceiverTakesChecksums
  <2> QED
    BY <2>1, <2>3
<1>6. CASE DownFailure(m)
  BY <1>2, <1>3, <1>6, StreamDownFailure
<1>7. CASE ~m.error /\ IsTransferComplete(payload, m) /\ down' = m
           /\ downStatus' = "Completed" /\ answer' = "Completed"
  <2>9. Finished(payload, m, y, hashed, got)
    BY <1>5, <1>7 DEF Receiver, IsTransferComplete
  <2>1. /\ y.next = End(payload) /\ y.current = End(payload) /\ y.total = TotalSize(payload)
        /\ m.done = payload.nb /\ m.total = TotalSize(payload)
        /\ got = [k \in 1 .. TotalSize(payload) |-> k]
        /\ \A f \in Files(payload) :
              FileBytes(payload, hashed, f)
                = FileBytes(payload, [k \in 1 .. TotalSize(payload) |-> k], f)
    BY <2>9 DEF Finished
  <2>2. y = EndPosition(payload)
    <3>1. y = [current |-> y.current, next |-> y.next, total |-> y.total]
      BY <1>3 DEF Positions
    <3> QED
      BY <2>1, <3>1 DEF EndPosition
  <2>3. Len(hashed) = TotalSize(payload)
    <3>1. y.total <= Len(hashed)
      BY <1>1, <1>3 DEF StreamHistory, History
    <3>2. Len(hashed) \in Nat /\ TotalSize(payload) \in Nat /\ Len(hashed) <= TotalSize(payload)
      BY <1>2, <1>3, PayloadFacts, LenProperties DEF StreamTypeOK
    <3> QED
      BY <2>1, <3>1, <3>2
  <2>4. hashed = [k \in 1 .. TotalSize(payload) |-> k]
    BY <1>2, <1>3, <2>1, <2>3, SameFiles DEF StreamTypeOK
  <2>5. DownAt(h)'
    BY <1>2, <1>7, <2>1, <2>2, <2>4 DEF DownAt
  <2> QED
    BY <1>1, <1>2, <1>3, <1>7, <2>5, StreamDown DEF Statuses
<1>8. CASE ~m.error /\ ~IsTransferComplete(payload, m) /\ down' = m
           /\ UNCHANGED <<downStatus, answer>>
  <2>1. Receiver(payload, m, y, hashed, got)
    BY <1>5, <1>8 DEF Finished
  <2>2. DownAt(h)'
    BY <1>2, <1>8, <2>1 DEF DownAt
  <2> QED
    BY <1>1, <1>2, <1>3, <1>8, <2>2, StreamDown DEF StreamTypeOK
<1> QED
  BY <1>4, <1>6, <1>7, <1>8

LEMMA StreamStep == StreamInv /\ [Next]_vars => StreamInv'
<1> SUFFICES ASSUME StreamInv, [Next]_vars
             PROVE  StreamInv'
  OBVIOUS
<1>1. PICK h : StreamHistory(h)
  BY DEF StreamInv
<1>2. StreamTypeOK /\ Len(log) \in Nat /\ read \in Nat /\ read <= Len(log)
  BY LenProperties DEF StreamInv, StreamTypeOK
<1>3. CASE Send
  BY <1>3, StreamSendChunk, StreamSendFails DEF Send
<1>4. CASE ReceiveChunk
  BY <1>4, StreamReceiveChunk
<1>5. CASE ReceiveChecksums
  BY <1>5, StreamReceiveChecksums
<1>6. CASE SenderClosed
  <2>1. /\ DownFailure(down) /\ read' = read + 1 /\ read < Len(log)
        /\ UNCHANGED <<payload, up, upStatus, hashed, log>>
    BY <1>6 DEF SenderClosed, Expecting
  <2>2. read' \in Nat /\ read' <= Len(log)
    BY <1>2, <2>1
  <2> QED
    BY <2>1, <2>2, StreamDownFailure
<1>7. CASE ReceiveCompleted
  <2>1. CASE UpFailure
    BY <1>7, <2>1, StreamUpFailure DEF ReceiveCompleted
  <2>2. CASE upStatus' = "Completed" /\ UNCHANGED <<up, log>>
    <3>1. /\ UNCHANGED <<payload, up, down, downStatus, hashed, got, log, read, answer>>
          /\ upStatus = "Transfering" /\ upStatus' = "Completed"
      BY <1>7, <2>2 DEF ReceiveCompleted
    <3>2. StreamTypeOK'
      BY <1>2, <3>1 DEF StreamTypeOK, Statuses
    <3>3. UpAt(h)' /\ CutsEnd(h)' /\ DownAt(h)' /\ History(payload, hashed, log, h)'
      BY <1>1, <3>1 DEF StreamHistory, UpAt, CutsEnd, DownAt, Misled
    <3>4. StreamHistory(h)'
      BY <3>3 DEF StreamHistory
    <3> QED
      BY <3>2, <3>4 DEF StreamInv
  <2> QED
    BY <1>7, <2>1, <2>2 DEF ReceiveCompleted
<1>8. CASE ReceiverGone \/ UpConnectionLost
  BY <1>8, StreamUpFailure DEF ReceiverGone, UpConnectionLost
<1>9. CASE DownConnectionLost
  BY <1>2, <1>9, StreamDownFailure DEF DownConnectionLost
<1>10. CASE (\E f \in Files(payload) : ChangeFile(f)) \/ UNCHANGED vars
  <2>1. UNCHANGED <<payload, up, down, upStatus, downStatus, hashed, got, log, read, answer>>
    BY <1>10 DEF ChangeFile, vars
  <2>2. StreamTypeOK'
    BY <1>2, <2>1 DEF StreamTypeOK
  <2>3. UpAt(h)' /\ CutsEnd(h)' /\ DownAt(h)' /\ History(payload, hashed, log, h)'
    BY <1>1, <2>1 DEF StreamHistory, UpAt, CutsEnd, DownAt, Misled
  <2>4. StreamHistory(h)'
    BY <2>3 DEF StreamHistory
  <2> QED
    BY <2>2, <2>4 DEF StreamInv
<1> QED
  BY <1>3, <1>4, <1>5, <1>6, <1>7, <1>8, <1>9, <1>10 DEF Next, Receive, ReceiveAnswer

LEMMA StreamInvariance == Spec => []StreamInv
BY StreamInit, StreamStep, PTL DEF Spec

----------------------------------------------------------------------------
(* What it implies. *)

(* A download that reports Completed holds every byte of every payload, in   *)
(* place, as the sender hashed it, and has tested the checksum of every      *)
(* file: whatever files changed, were torn or could not be opened or created *)
(* on the way, and wherever the connection broke (on_receive_checksums).     *)
THEOREM IntactWhenCompleted == Spec => []CompletedIsIntact
<1>1. StreamInv => CompletedIsIntact
  BY DEF StreamInv, StreamHistory, DownAt, CompletedIsIntact
<1> QED
  BY <1>1, StreamInvariance, PTL

(* The next chunk of the stream always fits, and the next checksums are of   *)
(* files the receiver has whole: "Chunk goes past the end of transfer" and   *)
(* "Received checksum of incomplete file." are never shown between two ends  *)
(* that run this code (receive_chunk and test_checksums).                    *)
THEOREM StreamIsExpected == Spec => []NothingUnexpected
<1>1. StreamInv => NothingUnexpected
  <2> SUFFICES ASSUME StreamInv, downStatus = "Transfering", read < Len(log)
               PROVE  /\ Incoming.kind = "Chunk" =>
                           ChunkFits(payload, down, Len(Incoming.data))
                      /\ Incoming.kind = "Checksums" =>
                           Len(Incoming.sums) <= PendingChecksums(down)
    BY DEF NothingUnexpected
  <2>1. PICK h : StreamHistory(h)
    BY DEF StreamInv
  <2>2. StreamTypeOK
    BY DEF StreamInv
  <2>3. ASSUME Incoming.kind = "Chunk"
        PROVE  ChunkFits(payload, down, Len(Incoming.data))
    <3>1. Link(payload, hashed, Incoming, h[read], h[read + 1])
          /\ Receiver(payload, down, h[read], hashed, got) /\ IsPayload(payload)
      BY <2>1, <2>2, <2>3, StreamIncoming
    <3>2. Len(Incoming.data) \in 1 .. TotalSize(payload) - down.total
      BY <2>3, <3>1 DEF Link, Receiver, Position
    <3>3. down.total \in Nat /\ TotalSize(payload) \in Nat
      BY <3>1, PayloadFacts DEF Receiver, Managers
    <3> QED
      BY <3>2, <3>3 DEF ChunkFits, Remaining
  <2>4. ASSUME Incoming.kind = "Checksums"
        PROVE  Len(Incoming.sums) <= PendingChecksums(down)
    <3>1. Link(payload, hashed, Incoming, h[read], h[read + 1])
          /\ Receiver(payload, down, h[read], hashed, got) /\ IsPayload(payload)
      BY <2>1, <2>2, <2>4, StreamIncoming
    <3>2. /\ Incoming.sums = ChecksumsAt(payload, hashed, h[read])
          /\ h[read] \in Positions(payload) /\ h[read] = Position(down)
      BY <2>4, <3>1 DEF Link, Receiver
    <3>3. Len(Incoming.sums) = h[read].current - h[read].next
      BY <3>1, <3>2, LenOfChecksums
    <3>4. Len(Incoming.sums) = PendingChecksums(down) /\ PendingChecksums(down) \in Int
      BY <3>1, <3>2, <3>3, PayloadFacts DEF PendingChecksums, Position, Positions
    <3> QED
      BY <3>4
  <2> QED
    BY <2>3, <2>4
<1> QED
  BY <1>1, StreamInvariance, PTL

(* The receiver's Completed never finds the upload unfinished: nothing is    *)
(* left to send, and the sender's own manager has closed                     *)
(* ("Transfer not complete on sender" of on_receive_completed).              *)
THEOREM CompletedFindsSender == Spec => []CompletedFindsSenderDone
<1>1. StreamInv => CompletedFindsSenderDone
  <2> SUFFICES ASSUME StreamInv, upStatus = "Transfering", answer = "Completed"
               PROVE  IsTransferComplete(payload, up)
    BY DEF CompletedFindsSenderDone
  <2>1. PICK h : StreamHistory(h)
    BY DEF StreamInv
  <2>2. StreamTypeOK /\ downStatus = "Completed"
    BY DEF StreamInv, StreamTypeOK
  <2>3. Position(up) = EndPosition(payload)
    BY <2>1, <2>2, DoneIsEnd
  <2>4. Sender(payload, up, hashed)
    BY <2>1 DEF StreamHistory, UpAt
  <2> QED
    BY <2>3, <2>4 DEF Sender, Position, EndPosition, IsTransferComplete
<1> QED
  BY <1>1, StreamInvariance, PTL

(* A manager that closes by itself has handled the checksum of every file    *)
(* and moved every byte, empty files included (the Q_ASSERTs that end        *)
(* take_pending_checksums and test_checksums).                               *)
THEOREM ClosedIsFull == Spec => []ClosesOnlyWhenFull
<1>1. StreamInv => ClosesOnlyWhenFull
  <2> SUFFICES ASSUME StreamInv
               PROVE  ClosesOnlyWhenFull
    OBVIOUS
  <2>1. PICK h : StreamHistory(h)
    BY DEF StreamInv
  <2>2. StreamTypeOK /\ IsPayload(payload)
    BY PayloadsAssumption DEF StreamInv, StreamTypeOK
  <2>3. ASSUME upStatus = "Transfering", up.mode = "Closed"
        PROVE  up.done = payload.nb /\ up.total = TotalSize(payload)
    <3>1. Sender(payload, up, hashed)
      BY <2>1, <2>3 DEF StreamHistory, UpAt
    <3>2. up.next = End(payload) /\ up.done = up.next - 1
          /\ Position(up) \in Positions(payload)
      BY <2>3, <3>1 DEF Sender
    <3>3. Position(up).current = End(payload) /\ Position(up).total = up.total
      BY <2>2, <3>2, PayloadFacts DEF Position, Positions
    <3> QED
      BY <2>2, <3>2, <3>3, EndIsFull, PayloadFacts
  <2>4. ASSUME downStatus # "Error", down.mode = "Closed"
        PROVE  down.done = payload.nb /\ down.total = TotalSize(payload)
    <3>1. downStatus # "Transfering"
      BY <2>1, <2>4 DEF StreamHistory, DownAt, Receiver, Misled
    <3>2. downStatus = "Completed"
      BY <2>2, <2>4, <3>1 DEF StreamTypeOK, Statuses
    <3> QED
      BY <2>1, <3>2 DEF StreamHistory, DownAt
  <2> QED
    BY <2>3, <2>4 DEF ClosesOnlyWhenFull
<1> QED
  BY <1>1, StreamInvariance, PTL
----------------------------------------------------------------------------
(* The stream ends: it takes a bounded number of steps, and when no side has *)
(* anything to do both have left the status Transfering.                     *)

\* What the messages and the answer say of how the two sides ended.
EndInv ==
  /\ answer \in {"None", "Completed", "Error"}
  /\ answer = "Error" <=> downStatus = "Error"
  /\ upStatus = "Completed" => downStatus = "Completed"
  /\ upStatus = "Error" => Len(log) > 0 /\ log[Len(log)].kind = "Close"
  /\ \A i \in 1 .. read : log[i].kind = "Close" => downStatus # "Transfering"
  /\ up.total \in 0 .. TotalSize(payload)
  /\ upStatus = "Transfering" =>
       up.total = 0 \/ (up.next = up.current /\ StopsAt(payload, up.current, up.total))

\* The sender adds to the stream, and the receiver waits.
SenderAdds ==
  /\ log' \in Seq(Messages) /\ Len(log) <= Len(log') /\ \A i \in 1 .. Len(log) : log'[i] = log[i]
  /\ UNCHANGED <<payload, downStatus, read, answer>>
  /\ up'.total \in up.total .. TotalSize(payload)

\* The connection of the sender breaks.
SenderBreaks ==
  /\ SenderAdds
  /\ upStatus = "Transfering" /\ upStatus' = "Error"
  /\ Len(log') > Len(log) /\ Len(log') <= Len(log) + 2 /\ log'[Len(log')].kind = "Close"

LEMMA EndUpFailure ==
  ASSUME StreamTypeOK, EndInv, UpFailure, upStatus = "Transfering",
         UNCHANGED <<payload, downStatus, read, answer>>
  PROVE  SenderBreaks
<1>1. log' = Append(log, CloseMsg) /\ upStatus' = "Error" /\ up'.total = up.total
  BY DEF UpFailure, StopTransfer
<1>2. CloseMsg \in Messages /\ CloseMsg.kind = "Close" /\ log \in Seq(Messages)
  BY DEF CloseMsg, Messages, StreamTypeOK
<1>3. /\ log' \in Seq(Messages) /\ Len(log') = Len(log) + 1 /\ Len(log) \in Nat
      /\ log'[Len(log) + 1] = CloseMsg /\ \A i \in 1 .. Len(log) : log'[i] = log[i]
  BY <1>1, <1>2, AppendProperties, LenProperties
<1>4. up'.total \in up.total .. TotalSize(payload)
  <2>1. IsPayload(payload)
    BY PayloadsAssumption DEF StreamTypeOK
  <2>2. TotalSize(payload) \in Nat
    BY <2>1, PayloadFacts
  <2> QED
    BY <1>1, <2>2 DEF EndInv
<1>5. SenderAdds
  BY <1>3, <1>4 DEF SenderAdds
<1> QED
  BY <1>1, <1>2, <1>3, <1>5 DEF SenderBreaks

LEMMA EndSendFails ==
  ASSUME StreamInv, EndInv, SendFails
  PROVE  SenderBreaks
<1>1. StreamTypeOK /\ IsPayload(payload) /\ upStatus = "Transfering" /\ upStatus' = "Error"
      /\ up.total < TotalSize(payload)
  BY PayloadsAssumption DEF StreamInv, StreamTypeOK, SendFails, MayRefill
<1>2. PICK h : StreamHistory(h)
  BY DEF StreamInv
<1>3. up \in Managers(payload)
  BY <1>1, <1>2 DEF StreamHistory, UpAt, Sender
<1>4. PICK n : n = NextChunkSize(payload, up)
  OBVIOUS
<1>5. PICK f \in Opens(payload, up, n) :
        /\ up' = OpenFails(payload, up, f)
        /\ \E frame \in
             {<< >>,
              << ChunkMsg(Span(up.total, n, payload.start[f] + 1 .. up.total + n)) >>} :
             log' = log \o frame \o << CloseMsg >>
  BY <1>4 DEF SendFails
<1>6. f \in 1 .. End(payload) /\ up.total <= payload.start[f]
  BY <1>1, <1>3, <1>5, PayloadFacts DEF Opens, Managers
<1>7. /\ up.total \in Nat /\ payload.start[f] \in Nat /\ TotalSize(payload) \in Nat
      /\ payload.start[f] <= TotalSize(payload)
  BY <1>1, <1>3, <1>6, PayloadFacts DEF Managers
<1>8. up'.total = payload.start[f]
  <2>1. up'.total = up.total + (payload.start[f] - up.total)
    BY <1>5 DEF OpenFails, TransferError, StopTransfer, WithError, Advanced
  <2> QED
    BY <1>7, <2>1
<1>9. n \in Nat
  <2>1. n \in 1 .. Remaining(payload, up)
    BY <1>1, <1>3, <1>4, NextChunk
  <2> QED
    BY <1>7, <2>1 DEF Remaining
<1>10. PICK c : c = ChunkMsg(Span(up.total, n, payload.start[f] + 1 .. up.total + n))
  OBVIOUS
<1>11. c \in Messages /\ CloseMsg \in Messages /\ CloseMsg.kind = "Close"
  <2>1. Span(up.total, n, payload.start[f] + 1 .. up.total + n) \in Seq(Nat)
    BY <1>7, <1>9, SpanFacts
  <2> QED
    BY <1>10, <2>1 DEF ChunkMsg, CloseMsg, Messages
<1>12. log \in Seq(Messages) /\ Len(log) \in Nat
  BY <1>1, LenProperties DEF StreamTypeOK
<1>13. /\ log' \in Seq(Messages) /\ Len(log') \in {Len(log) + 1, Len(log) + 2}
       /\ log'[Len(log')] = CloseMsg /\ \A i \in 1 .. Len(log) : log'[i] = log[i]
  <2>1. CASE log' = log \o << >> \o << CloseMsg >>
    <3>1. log' = Append(log, CloseMsg)
      BY <1>11, <1>12, <2>1
    <3> QED
      BY <1>11, <1>12, <3>1, AppendProperties
  <2>2. CASE log' = log \o << c >> \o << CloseMsg >>
    <3>1. PICK s : s = Append(log, c)
      OBVIOUS
    <3>2. /\ s \in Seq(Messages) /\ Len(s) = Len(log) + 1
          /\ \A i \in 1 .. Len(log) : s[i] = log[i]
      BY <1>11, <1>12, <3>1, AppendProperties
    <3>3. log' = Append(s, CloseMsg)
      BY <1>11, <1>12, <2>2, <3>1
    <3>4. /\ log' \in Seq(Messages) /\ Len(log') = Len(s) + 1
          /\ log'[Len(s) + 1] = CloseMsg /\ \A i \in 1 .. Len(s) : log'[i] = s[i]
      BY <1>11, <3>2, <3>3, AppendProperties
    <3> QED
      BY <1>12, <3>2, <3>4
  <2> QED
    BY <1>5, <1>10, <2>1, <2>2
<1>14. UNCHANGED <<payload, downStatus, read, answer>>
  BY DEF SendFails
<1>15. Len(log) <= Len(log') /\ Len(log') > Len(log) /\ Len(log') <= Len(log) + 2
  BY <1>12, <1>13
<1>16. up'.total \in up.total .. TotalSize(payload)
  BY <1>6, <1>7, <1>8
<1>17. SenderAdds
  BY <1>13, <1>14, <1>15, <1>16 DEF SenderAdds
<1> QED
  BY <1>1, <1>11, <1>13, <1>15, <1>17 DEF SenderBreaks

\* The chunk that is sent: where it leaves the sender, and what it adds.
LEMMA EndSendChunk ==
  ASSUME StreamInv, EndInv, SendChunk
  PROVE  /\ SenderAdds
         /\ up'.total > up.total /\ Len(log') <= Len(log) + 2
         /\ up'.next = up'.current /\ StopsAt(payload, up'.current, up'.total)
<1>1. StreamTypeOK /\ IsPayload(payload) /\ upStatus = "Transfering" /\ up.total < TotalSize(payload)
  BY PayloadsAssumption DEF StreamInv, StreamTypeOK, SendChunk, MayRefill
<1>2. PICK h : StreamHistory(h)
  BY DEF StreamInv
<1>3. Sender(payload, up, hashed) /\ up \in Managers(payload) /\ Position(up) \in Positions(payload)
  BY <1>1, <1>2 DEF StreamHistory, UpAt, Sender
<1>4. PICK n : n = NextChunkSize(payload, up)
  OBVIOUS
<1>5. n \in 1 .. Remaining(payload, up)
  BY <1>1, <1>3, <1>4, NextChunk
<1>6. /\ up.total \in Nat /\ TotalSize(payload) \in Nat /\ n \in Nat /\ n > 0
      /\ up.total + n <= TotalSize(payload)
  BY <1>1, <1>3, <1>5, PayloadFacts DEF Managers, Remaining
<1>7. PICK after \in Moved(payload, up, n) :
        /\ up' = TakePendingChecksums(payload, after)
        /\ log' = log \o << ChunkMsg(Span(up.total, n, {})) >>
                      \o PendingMsgs(payload, after, hashed')
  BY <1>4 DEF SendChunk
<1>8. /\ after \in Managers(payload) /\ after.total = up.total + n
      /\ Position(after) \in Positions(payload)
      /\ AfterChunk(payload, Position(up), n, Position(after))
  BY <1>1, <1>3, <1>5, <1>7, MovedPosition
<1>9. Position(up') = AfterChecksums(Position(after)) /\ up'.total = after.total
  BY <1>1, <1>7, <1>8, ChecksummedPosition DEF TakePendingChecksums
<1>10. /\ up'.next = after.current /\ up'.current = after.current
       /\ StopsAt(payload, after.current, after.total)
  BY <1>8, <1>9 DEF Position, AfterChecksums, AfterChunk
<1>11. log \in Seq(Messages) /\ Len(log) \in Nat
  BY <1>1, LenProperties DEF StreamTypeOK
<1>12. StreamInv'
  BY StreamSendChunk
<1>13. log' \in Seq(Messages)
  BY <1>12 DEF StreamInv, StreamTypeOK
<1>14. PICK c, d : /\ c = ChunkMsg(Span(up.total, n, {}))
                   /\ d = ChecksumsMsg(ChecksumList(payload, after, hashed'))
  OBVIOUS
<1>15. log' = log \o << c >> \/ log' = log \o << c >> \o << d >>
  <2>1. PendingMsgs(payload, after, hashed') \in {<< >>, << d >>}
    BY <1>14 DEF PendingMsgs
  <2>2. log \o << c >> \o << >> = log \o << c >>
    BY <1>11, AppendProperties
  <2> QED
    BY <1>7, <1>14, <2>1, <2>2
<1>16. /\ Len(log') \in {Len(log) + 1, Len(log) + 2}
       /\ \A i \in 1 .. Len(log) : log'[i] = log[i]
  BY <1>11, <1>15
<1>17. UNCHANGED <<payload, downStatus, read, answer>>
  BY DEF SendChunk
<1>18. Len(log) <= Len(log') /\ Len(log') <= Len(log) + 2
  BY <1>11, <1>16
<1>19. up'.total \in up.total .. TotalSize(payload) /\ up'.total > up.total
  BY <1>6, <1>8, <1>9
<1>20. SenderAdds
  BY <1>13, <1>16, <1>17, <1>18, <1>19 DEF SenderAdds
<1> QED
  BY <1>9, <1>10, <1>18, <1>19, <1>20

LEMMA EndInit == Init => EndInv
<1> SUFFICES ASSUME Init
             PROVE  EndInv
  OBVIOUS
<1>1. IsPayload(payload)
  BY PayloadsAssumption DEF Init
<1>2. up.total = 0 /\ TotalSize(payload) \in Nat
  BY <1>1, PayloadFacts DEF Init, StartTransfer
<1> QED
  BY <1>2 DEF Init, EndInv

LEMMA EndSender ==
  ASSUME StreamTypeOK, EndInv, SenderAdds,
         upStatus' = "Completed" => downStatus = "Completed",
         upStatus' = "Error" => Len(log') > 0 /\ log'[Len(log')].kind = "Close",
         upStatus' = "Transfering" =>
           up'.total = 0 \/ (up'.next = up'.current /\ StopsAt(payload, up'.current, up'.total))
  PROVE  EndInv'
<1>1. /\ \A i \in 1 .. read : log[i].kind = "Close" => downStatus # "Transfering"
      /\ up.total \in 0 .. TotalSize(payload) /\ TotalSize(payload) \in Int
      /\ read \in Nat /\ read <= Len(log) /\ Len(log) \in Nat
  <2>1. TotalSize(payload) \in Int
    BY PayloadsAssumption, PayloadFacts DEF StreamTypeOK
  <2> QED
    BY <2>1, LenProperties DEF EndInv, StreamTypeOK
<1>2. /\ \A i \in 1 .. Len(log) : log'[i] = log[i]
      /\ UNCHANGED <<payload, downStatus, read, answer>>
      /\ up'.total \in up.total .. TotalSize(payload)
  BY DEF SenderAdds
<1>3. \A i \in 1 .. read' : log'[i].kind = "Close" => downStatus' # "Transfering"
  BY <1>1, <1>2
<1>4. up'.total \in 0 .. TotalSize(payload)'
  BY <1>1, <1>2
<1> QED
  BY <1>2, <1>3, <1>4 DEF EndInv

\* The receiver takes at most one message, and ends if that is the last.
ReceiverTakes ==
  /\ UNCHANGED <<payload, up, upStatus, log>>
  /\ downStatus = "Transfering"
  /\ \/ read' = read + 1 /\ read < Len(log)
     \/ read' = read /\ downStatus' # "Transfering"
  /\ \/ UNCHANGED <<downStatus, answer>> /\ log[read + 1].kind # "Close"
     \/ downStatus' = "Error" /\ answer' = "Error"
     \/ downStatus' = "Completed" /\ answer' = "Completed"

LEMMA TakesOne ==
  ASSUME Receive \/ DownConnectionLost
  PROVE  ReceiverTakes
<1>1. CASE ReceiveChunk
  BY <1>1 DEF ReceiveChunk, Expecting, Incoming, DownFailure, ReceiverTakes
<1>2. CASE ReceiveChecksums
  BY <1>2 DEF ReceiveChecksums, Expecting, Incoming, DownFailure, ReceiverTakes
<1>3. CASE SenderClosed
  BY <1>3 DEF SenderClosed, Expecting, Incoming, DownFailure, ReceiverTakes
<1>4. CASE DownConnectionLost
  BY <1>4 DEF DownConnectionLost, DownFailure, ReceiverTakes
<1> QED
  BY <1>1, <1>2, <1>3, <1>4 DEF Receive

LEMMA EndReceiver ==
  ASSUME StreamTypeOK, EndInv, ReceiverTakes
  PROVE  EndInv'
<1>1. /\ downStatus = "Transfering" /\ UNCHANGED <<payload, up, upStatus, log>>
      /\ read \in Nat
  BY DEF ReceiverTakes, StreamTypeOK
<1>2. upStatus # "Completed"
  BY <1>1 DEF EndInv
<1>3. ASSUME downStatus' = "Transfering", NEW i \in 1 .. read'
      PROVE  log[i].kind # "Close"
  <2>1. /\ UNCHANGED <<downStatus, answer>> /\ log[read + 1].kind # "Close"
        /\ read' = read + 1
    BY <1>3 DEF ReceiverTakes
  <2>2. i = read + 1 \/ i \in 1 .. read
    BY <1>1, <2>1
  <2> QED
    BY <1>1, <2>1, <2>2 DEF EndInv
<1>4. answer' \in {"None", "Completed", "Error"} /\ (answer' = "Error" <=> downStatus' = "Error")
  BY DEF ReceiverTakes, EndInv
<1> QED
  BY <1>1, <1>2, <1>3, <1>4 DEF EndInv

\* The answer of the receiver ends the sender.
LEMMA AnswerEnds ==
  ASSUME StreamTypeOK, EndInv, ReceiveAnswer \/ UpConnectionLost
  PROVE  \/ SenderBreaks
         \/ /\ upStatus = "Transfering" /\ upStatus' = "Completed" /\ downStatus = "Completed"
            /\ UNCHANGED <<payload, up, down, downStatus, changed, hashed, got, log, read, answer>>
<1>1. CASE UpFailure
  BY <1>1, EndUpFailure DEF ReceiveAnswer, ReceiveCompleted, ReceiverGone, UpConnectionLost
<1>2. CASE ~UpFailure
  BY <1>2 DEF ReceiveAnswer, ReceiveCompleted, ReceiverGone, UpConnectionLost, StreamTypeOK
<1> QED
  BY <1>1, <1>2

LEMMA EndStep == StreamInv /\ EndInv /\ [Next]_vars => EndInv'
<1> SUFFICES ASSUME StreamInv, EndInv, [Next]_vars
             PROVE  EndInv'
  OBVIOUS
<1>1. StreamTypeOK
  BY DEF StreamInv
<1>2. ASSUME SenderBreaks
      PROVE  EndInv'
  <2>1. Len(log') > 0
    BY <1>1, <1>2, LenProperties DEF SenderBreaks, StreamTypeOK
  <2> QED
    BY <1>1, <1>2, <2>1, EndSender DEF SenderBreaks
<1>3. CASE SendChunk
  <2>1. upStatus' = "Transfering"
    BY <1>3 DEF SendChunk, MayRefill
  <2> QED
    BY <1>1, <1>3, <2>1, EndSendChunk, EndSender
<1>4. CASE SendFails
  BY <1>2, <1>4, EndSendFails
<1>5. CASE ReceiveAnswer \/ UpConnectionLost
  <2>1. CASE /\ upStatus' = "Completed" /\ downStatus = "Completed"
             /\ UNCHANGED <<payload, up, down, downStatus, changed, hashed, got, log, read, answer>>
    BY <2>1 DEF EndInv
  <2> QED
    BY <1>1, <1>2, <1>5, <2>1, AnswerEnds
<1>6. CASE Receive \/ DownConnectionLost
  BY <1>1, <1>6, TakesOne, EndReceiver
<1>7. CASE (\E f \in Files(payload) : ChangeFile(f)) \/ UNCHANGED vars
  <2>1. UNCHANGED <<payload, up, down, upStatus, downStatus, hashed, got, log, read, answer>>
    BY <1>7 DEF ChangeFile, vars
  <2> QED
    BY <2>1 DEF EndInv
<1> QED
  BY <1>3, <1>4, <1>5, <1>6, <1>7 DEF Next, Send

\* No handler has anything to do: no bytes to send, no message, no answer.
Quiet ==
  /\ ~MayRefill
  /\ ~(downStatus = "Transfering" /\ read < Len(log))
  /\ ~(upStatus = "Transfering" /\ answer # "None")

BothEnded == upStatus # "Transfering" /\ downStatus # "Transfering"

(* Nobody waits for ever: when neither side has bytes to send, a message to  *)
(* handle or an answer to read, both have left the status Transfering,       *)
(* whatever failed on the way; unless an empty file ends the payload, which  *)
(* is the finding payload_trailing_empty (send_next_chunk and the handlers   *)
(* of Base).                                                                 *)
THEOREM NobodyWaits ==
  ASSUME \A p \in Payloads : p.start[p.nb] < TotalSize(p)
  PROVE  Spec => [](Quiet => BothEnded)
<1>1. ASSUME StreamInv, EndInv, Quiet
      PROVE  BothEnded
  <2>1. /\ StreamTypeOK /\ IsPayload(payload) /\ payload.start[payload.nb] < TotalSize(payload)
        /\ read \in Nat /\ Len(log) \in Nat /\ read <= Len(log)
    BY <1>1, PayloadsAssumption, LenProperties DEF StreamInv, StreamTypeOK
  <2>2. PICK h : StreamHistory(h)
    BY <1>1 DEF StreamInv
  <2>3. ASSUME upStatus # "Transfering", downStatus = "Transfering"
        PROVE  FALSE
    <3>1. upStatus = "Error"
      BY <1>1, <2>1, <2>3 DEF EndInv, StreamTypeOK, Statuses
    <3>2. read = Len(log)
      BY <1>1, <2>1, <2>3 DEF Quiet
    <3> QED
      BY <1>1, <2>1, <2>3, <3>1, <3>2 DEF EndInv
  <2>4. ASSUME upStatus = "Transfering"
        PROVE  FALSE
    <3>1. answer = "None" /\ downStatus = "Transfering"
      BY <1>1, <2>1, <2>4 DEF Quiet, EndInv, StreamTypeOK, Statuses
    <3>2. read = Len(log)
      BY <1>1, <2>1, <3>1 DEF Quiet
    <3>3. Receiver(payload, down, Position(up), hashed, got) /\ Sender(payload, up, hashed)
      BY <2>1, <2>2, <2>4, <3>1, <3>2 DEF StreamHistory, UpAt, DownAt, Misled
    <3>4. /\ TotalSize(payload) \in Nat /\ payload.nb \in Nat \ {0}
          /\ payload.start[payload.nb] \in Nat /\ End(payload) = payload.nb + 1
      <4>1. TotalSize(payload) \in Nat /\ payload.nb \in Nat \ {0} /\ End(payload) = payload.nb + 1
        BY <2>1, PayloadFacts
      <4>2. payload.nb \in 1 .. End(payload)
        BY <4>1
      <4> QED
        BY <2>1, <4>1, <4>2, PayloadFacts
    <3>5. up.total = TotalSize(payload) /\ up.total # 0
      BY <1>1, <2>1, <2>4, <3>4 DEF Quiet, MayRefill, EndInv
    <3>6. up.next = up.current /\ StopsAt(payload, up.current, TotalSize(payload))
          /\ up.current \in 1 .. End(payload)
      BY <1>1, <2>4, <3>3, <3>5 DEF EndInv, Sender, Managers
    <3>7. up.current = End(payload)
      <4> SUFFICES ASSUME up.current \in 1 .. payload.nb
                   PROVE  FALSE
        BY <3>4, <3>6
      <4>1. /\ payload.start[up.current] <= payload.start[payload.nb]
            /\ payload.start[up.current] \in Nat
            /\ payload.start[up.current + 1] <= TotalSize(payload)
        <5>1. /\ up.current \in 1 .. End(payload) /\ payload.nb \in 1 .. End(payload)
              /\ up.current + 1 \in 1 .. End(payload) /\ up.current <= payload.nb
          BY <3>4
        <5> QED
          BY <2>1, <5>1, PayloadFacts
      <4>2. Passed(payload, up.current, TotalSize(payload))
        <5>1. PICK a, b, t : /\ a = payload.start[up.current] /\ b = payload.start[payload.nb]
                             /\ t = TotalSize(payload)
          OBVIOUS
        <5>2. a <= b /\ a \in Nat
          BY <4>1, <5>1
        <5>3. b < t /\ b \in Nat /\ t \in Nat
          BY <2>1, <3>4, <5>1
        <5>4. a < t
          BY <5>2, <5>3
        <5> QED
          BY <4>1, <5>1, <5>4 DEF Passed
      <4> QED
        BY <3>6, <4>2 DEF StopsAt, Files
    <3>8. down.next = End(payload) /\ down.next # End(payload)
      BY <3>3, <3>6, <3>7 DEF Receiver, Position
    <3> QED
      BY <3>8
  <2> QED
    BY <2>3, <2>4 DEF BothEnded
<1>2. StreamInv /\ EndInv => (Quiet => BothEnded)
  BY <1>1
<1> QED
  BY <1>2, EndInit, EndStep, StreamInvariance, PTL DEF Spec

\* What each part of the stream has left: bytes to send, messages to read, a
\* side to end (the sender's failure adds two messages), files to change.
ToSend == TotalSize(payload) - up.total
ToRead == Len(log) - read
ToChange == Cardinality(Files(payload) \ changed)
UpSteps == IF upStatus = "Transfering" THEN 3 ELSE 0
DownSteps == IF downStatus = "Transfering" THEN 1 ELSE 0

\* A bound on the steps that are left: a chunk adds at most two messages, and
\* so does a failure.
StepsLeft == 3 * ToSend + ToRead + UpSteps + DownSteps + ToChange

\* StepsLeft and its parts are natural numbers.
LEMMA StepsLeftType ==
  ASSUME StreamTypeOK, EndInv
  PROVE  /\ TotalSize(payload) \in Nat /\ up.total \in 0 .. TotalSize(payload)
         /\ Len(log) \in Nat /\ read \in 0 .. Len(log)
         /\ IsFiniteSet(Files(payload) \ changed)
         /\ ToSend \in Nat /\ ToRead \in Nat /\ ToChange \in Nat
         /\ UpSteps \in {0, 3} /\ DownSteps \in {0, 1}
         /\ StepsLeft \in Nat
<1>1. IsPayload(payload)
  BY PayloadsAssumption DEF StreamTypeOK
<1>2. TotalSize(payload) \in Nat /\ payload.nb \in Nat
  BY <1>1, PayloadFacts
<1>3. Len(log) \in Nat /\ read \in 0 .. Len(log) /\ up.total \in 0 .. TotalSize(payload)
  BY <1>2, LenProperties DEF StreamTypeOK, EndInv
<1>4. IsFiniteSet(Files(payload) \ changed)
  <2>1. PICK n \in Int : n = payload.nb
    BY <1>2
  <2>3. IsFiniteSet(1 .. n)
    BY FS_Interval
  <2>2. IsFiniteSet(Files(payload))
    BY <2>1, <2>3 DEF Files
  <2> QED
    BY <2>2, FS_Subset
<1>5. ToChange \in Nat
  BY <1>4, FS_CardinalityType DEF ToChange
<1>6. ToSend \in Nat /\ ToRead \in Nat /\ UpSteps \in {0, 3} /\ DownSteps \in {0, 1}
  BY <1>2, <1>3 DEF ToSend, ToRead, UpSteps, DownSteps
<1>7. StepsLeft \in Nat
  BY <1>5, <1>6 DEF StepsLeft
<1> QED
  BY <1>2, <1>3, <1>4, <1>5, <1>6, <1>7

\* The three ways a step lowers the bound: the sender moves on, the sender
\* ends, the receiver takes a message.
LEMMA Falls ==
  ASSUME ToSend \in Nat, ToRead \in Nat, UpSteps \in Nat, DownSteps \in Nat, ToChange \in Nat,
         ToSend' \in Int, ToRead' \in Int, UpSteps' \in Int, DownSteps' \in Int,
         ToChange' = ToChange,
         \/ /\ ToSend' < ToSend /\ ToRead' <= ToRead + 2
            /\ UpSteps' = UpSteps /\ DownSteps' = DownSteps
         \/ /\ ToSend' <= ToSend /\ ToRead' <= ToRead + 2
            /\ UpSteps' = UpSteps - 3 /\ DownSteps' = DownSteps
         \/ /\ ToSend' = ToSend /\ UpSteps' = UpSteps
            /\ ToRead' + DownSteps' < ToRead + DownSteps
  PROVE  StepsLeft' < StepsLeft
<1>1. PICK a, b, c, d, e, a1, b1, c1, d1 :
        /\ a = ToSend /\ b = ToRead /\ c = UpSteps /\ d = DownSteps /\ e = ToChange
        /\ a1 = ToSend' /\ b1 = ToRead' /\ c1 = UpSteps' /\ d1 = DownSteps'
  OBVIOUS
<1>2. StepsLeft = 3 * a + b + c + d + e /\ StepsLeft' = 3 * a1 + b1 + c1 + d1 + e
  BY <1>1 DEF StepsLeft
<1>3. /\ a \in Nat /\ b \in Nat /\ c \in Nat /\ d \in Nat /\ e \in Nat
      /\ a1 \in Int /\ b1 \in Int /\ c1 \in Int /\ d1 \in Int
      /\ \/ a1 < a /\ b1 <= b + 2 /\ c1 = c /\ d1 = d
         \/ a1 <= a /\ b1 <= b + 2 /\ c1 = c - 3 /\ d1 = d
         \/ a1 = a /\ c1 = c /\ b1 + d1 < b + d
  BY <1>1
<1>4. 3 * a1 + b1 + c1 + d1 + e < 3 * a + b + c + d + e
  BY <1>3
<1> QED
  BY <1>2, <1>4

(* Every transfer takes a bounded number of steps, failures and changes of   *)
(* files included: three for each byte, at most, and a few to end.  With     *)
(* NobodyWaits and handlers that are always defined (HandlersAreDefined),    *)
(* it can only end with both sides out of Transfering (Terminates).          *)
THEOREM StreamIsBounded == Spec => [](StepsLeft \in Nat) /\ [][StepsLeft' < StepsLeft]_vars
<1>1. ASSUME StreamInv, EndInv, StreamInv', EndInv', Next
      PROVE  StepsLeft' < StepsLeft
  <2>1. StreamTypeOK /\ StreamTypeOK'
    BY <1>1 DEF StreamInv
  <2>2. /\ TotalSize(payload) \in Nat /\ up.total \in 0 .. TotalSize(payload)
        /\ Len(log) \in Nat /\ read \in 0 .. Len(log)
        /\ IsFiniteSet(Files(payload) \ changed)
        /\ ToSend \in Nat /\ ToRead \in Nat /\ ToChange \in Nat
        /\ UpSteps \in {0, 3} /\ DownSteps \in {0, 1}
    BY <1>1, <2>1, StepsLeftType
  <2>3. Len(log') \in Nat
    BY <2>1, LenProperties DEF StreamTypeOK
  <2>4. ASSUME SenderAdds, UNCHANGED changed, Len(log') <= Len(log) + 2
        PROVE  /\ ToSend' \in Nat /\ ToSend' <= ToSend
               /\ up'.total > up.total => ToSend' < ToSend
               /\ ToRead' \in Int /\ ToRead' <= ToRead + 2
               /\ DownSteps' = DownSteps /\ ToChange' = ToChange
    <3>1. /\ up'.total \in up.total .. TotalSize(payload)
          /\ UNCHANGED <<payload, downStatus, read, changed>>
      BY <2>4 DEF SenderAdds
    <3>2. ToSend' = TotalSize(payload) - up'.total
      BY <3>1 DEF ToSend
    <3>3. ToRead' = Len(log') - read
      BY <3>1 DEF ToRead
    <3>4. DownSteps' = DownSteps /\ ToChange' = ToChange
      BY <3>1 DEF DownSteps, ToChange
    <3>5. /\ ToSend' \in Nat /\ ToSend' <= ToSend
          /\ up'.total > up.total => ToSend' < ToSend
      <4>1. PICK t, a, b : t = TotalSize(payload) /\ a = up.total /\ b = up'.total
        OBVIOUS
      <4>2. t \in Nat /\ a \in 0 .. t /\ b \in a .. t /\ ToSend = t - a /\ ToSend' = t - b
        BY <2>2, <3>1, <3>2, <4>1 DEF ToSend
      <4> QED
        BY <4>1, <4>2
    <3>6. ToRead' \in Int /\ ToRead' <= ToRead + 2
      BY <2>2, <2>3, <2>4, <3>3 DEF ToRead
    <3> QED
      BY <3>4, <3>5, <3>6
  <2>5. CASE SendChunk
    <3>1. SenderAdds /\ up'.total > up.total /\ Len(log') <= Len(log) + 2
      BY <1>1, <2>5, EndSendChunk
    <3>2. UNCHANGED <<upStatus, changed>>
      BY <2>5 DEF SendChunk
    <3>3. UpSteps' = UpSteps
      BY <3>2 DEF UpSteps
    <3>4. /\ ToSend' \in Nat /\ ToSend' < ToSend /\ ToRead' \in Int /\ ToRead' <= ToRead + 2
          /\ UpSteps' = UpSteps /\ DownSteps' = DownSteps /\ ToChange' = ToChange
      BY <2>4, <3>1, <3>2, <3>3
    <3> QED
      <4>1. /\ ToSend \in Nat /\ ToRead \in Nat /\ UpSteps \in Nat /\ DownSteps \in Nat
            /\ ToChange \in Nat /\ ToSend' \in Int /\ UpSteps' \in Int /\ DownSteps' \in Int
        BY <2>2, <3>4
      <4> QED
        BY <3>4, <4>1, Falls
  <2>6. ASSUME SenderBreaks, UNCHANGED changed
        PROVE  StepsLeft' < StepsLeft
    <3>1. SenderAdds /\ Len(log') <= Len(log) + 2
      BY <2>6 DEF SenderBreaks
    <3>2. UpSteps = 3 /\ UpSteps' = 0
      BY <2>6 DEF SenderBreaks, UpSteps
    <3>3. /\ ToSend' \in Nat /\ ToSend' <= ToSend /\ ToRead' \in Int /\ ToRead' <= ToRead + 2
          /\ UpSteps' = UpSteps - 3 /\ DownSteps' = DownSteps /\ ToChange' = ToChange
      BY <2>4, <2>6, <3>1, <3>2
    <3> QED
      <4>1. /\ ToSend \in Nat /\ ToRead \in Nat /\ UpSteps \in Nat /\ DownSteps \in Nat
            /\ ToChange \in Nat /\ ToSend' \in Int /\ UpSteps' \in Int /\ DownSteps' \in Int
        BY <2>2, <3>3
      <4> QED
        BY <3>3, <4>1, Falls
  <2>7. CASE SendFails
    <3>1. UNCHANGED changed
      BY <2>7 DEF SendFails
    <3> QED
      BY <1>1, <2>6, <2>7, <3>1, EndSendFails
  <2>8. CASE ReceiveAnswer \/ UpConnectionLost
    <3>1. UNCHANGED changed
      BY <2>8 DEF ReceiveAnswer, ReceiveCompleted, ReceiverGone, UpConnectionLost
    <3>2. CASE /\ upStatus = "Transfering" /\ upStatus' = "Completed"
               /\ UNCHANGED <<payload, up, down, downStatus, changed, hashed, got, log, read, answer>>
      <4>1. ToSend' = ToSend /\ ToRead' = ToRead /\ DownSteps' = DownSteps /\ ToChange' = ToChange
        BY <3>2 DEF ToSend, ToRead, DownSteps, ToChange
      <4>2. UpSteps = 3 /\ UpSteps' = 0
        BY <3>2 DEF UpSteps
      <4> QED
        BY <2>2, <4>1, <4>2 DEF StepsLeft
    <3> QED
      BY <1>1, <2>1, <2>6, <2>8, <3>1, <3>2, AnswerEnds
  <2>9. CASE Receive \/ DownConnectionLost
    <3>1. UNCHANGED changed
      BY <2>9 DEF Receive, ReceiveChunk, ReceiveChecksums, SenderClosed, Expecting,
                  DownConnectionLost
    <3>2. /\ UNCHANGED <<payload, up, upStatus, log>> /\ downStatus = "Transfering"
          /\ \/ read' = read + 1
             \/ read' = read /\ downStatus' # "Transfering"
      BY <2>9, TakesOne DEF ReceiverTakes
    <3>3. ToSend' = ToSend /\ UpSteps' = UpSteps /\ ToChange' = ToChange
      BY <3>1, <3>2 DEF ToSend, UpSteps, ToChange
    <3>4. DownSteps = 1 /\ DownSteps' \in {0, 1}
      BY <3>2 DEF DownSteps
    <3>5. \/ ToRead' = ToRead - 1
          \/ ToRead' = ToRead /\ DownSteps' = 0
      BY <2>2, <3>2 DEF ToRead, DownSteps
    <3> QED
      BY <2>2, <3>3, <3>4, <3>5, Falls
  <2>10. ASSUME NEW f \in Files(payload), ChangeFile(f)
         PROVE  StepsLeft' < StepsLeft
    <3>1. /\ UNCHANGED <<payload, up, upStatus, downStatus, log, read>>
          /\ f \notin changed /\ changed' = changed \cup {f}
      BY <2>10 DEF ChangeFile
    <3>2. PICK S : S = Files(payload) \ changed
      OBVIOUS
    <3>3. Files(payload) \ changed' = S \ {f} /\ f \in S
      BY <2>10, <3>1, <3>2
    <3>4. Cardinality(S \ {f}) = Cardinality(S) - 1
      BY <2>2, <3>2, <3>3, FS_RemoveElement
    <3>5. ToChange' = ToChange - 1
      BY <3>1, <3>2, <3>3, <3>4 DEF ToChange
    <3>6. ToSend' = ToSend /\ ToRead' = ToRead /\ UpSteps' = UpSteps /\ DownSteps' = DownSteps
      BY <3>1 DEF ToSend, ToRead, UpSteps, DownSteps
    <3> QED
      BY <2>2, <3>5, <3>6 DEF StepsLeft
  <2> QED
    BY <1>1, <2>5, <2>7, <2>8, <2>9, <2>10 DEF Next, Send
<1>2. StreamInv /\ EndInv => StepsLeft \in Nat
  BY StepsLeftType DEF StreamInv
<1>3. /\ StreamInv /\ EndInv /\ StreamInv' /\ EndInv'
      /\ [Next]_vars
      => [StepsLeft' < StepsLeft]_vars
  BY <1>1
<1>4. Spec => []EndInv
  BY EndInit, EndStep, StreamInvariance, PTL DEF Spec
<1> QED
  BY <1>2, <1>3, <1>4, StreamInvariance, PTL DEF Spec

\* What Send and Receive choose from when they have something to do: where the
\* loop over the files stops, and what test_checksums comes to.
HandlersDefined ==
  /\ MayRefill =>
       Moved(payload, up, NextChunkSize(payload, up)) # {}
  /\ downStatus = "Transfering" /\ read < Len(log) =>
       \/ Incoming.kind = "Close"
       \/ /\ Incoming.kind = "Chunk"
          /\ Received(payload, down, Len(Incoming.data), FALSE) # {}
       \/ /\ Incoming.kind = "Checksums"
          /\ TestChecksums(payload, down, got, Incoming.sums) # {}

(* A handler that has something to do does it, and always finds a step: the  *)
(* loop over the files stops somewhere, a message that is there is a chunk,  *)
(* checksums or the end of the connection, and test_checksums comes to a     *)
(* result (send_next_chunk, receive_chunk, test_checksums).                  *)
THEOREM HandlersAreDefined == Spec => []HandlersDefined
<1>1. ASSUME StreamInv, MayRefill
      PROVE  Moved(payload, up, NextChunkSize(payload, up)) # {}
  <2>1. IsPayload(payload)
    BY <1>1, PayloadsAssumption DEF StreamInv, StreamTypeOK
  <2>2. up \in Managers(payload) /\ Position(up) \in Positions(payload) /\ up.total < TotalSize(payload)
    BY <1>1 DEF StreamInv, StreamHistory, UpAt, Sender, MayRefill
  <2> QED
    BY <2>1, <2>2, NextChunk, MovedExists
<1>2. ASSUME StreamInv, downStatus = "Transfering", read < Len(log)
      PROVE  \/ Incoming.kind = "Close"
             \/ /\ Incoming.kind = "Chunk"
                /\ Received(payload, down, Len(Incoming.data), FALSE) # {}
             \/ /\ Incoming.kind = "Checksums"
                /\ TestChecksums(payload, down, got, Incoming.sums) # {}
  <2>1. PICK h : StreamHistory(h)
    BY <1>2 DEF StreamInv
  <2>2. StreamTypeOK /\ Len(log) \in Nat /\ read \in Nat
    BY <1>2, LenProperties DEF StreamInv, StreamTypeOK
  <2>3. read + 1 \in 1 .. Len(log)
    BY <1>2, <2>2
  <2>4. Incoming.kind \in {"Chunk", "Checksums", "Close"}
    BY <2>2, <2>3 DEF StreamTypeOK, Incoming
  <2>5. ASSUME Incoming.kind = "Chunk"
        PROVE  Received(payload, down, Len(Incoming.data), FALSE) # {}
    <3>1. /\ Link(payload, hashed, Incoming, h[read], h[read + 1])
          /\ Receiver(payload, down, h[read], hashed, got) /\ IsPayload(payload)
      BY <1>2, <2>1, <2>2, <2>5, StreamIncoming
    <3>2. /\ down \in Managers(payload) /\ Position(down) \in Positions(payload)
          /\ h[read].total = down.total
      BY <3>1 DEF Receiver, Position
    <3>3. Len(Incoming.data) \in 1 .. Remaining(payload, down)
      BY <2>5, <3>1, <3>2 DEF Link, Remaining
    <3>4. Moved(payload, down, Len(Incoming.data)) # {}
      BY <3>1, <3>2, <3>3, MovedExists
    <3> QED
      BY <3>4 DEF Received
  <2>6. ASSUME Incoming.kind = "Checksums"
        PROVE  TestChecksums(payload, down, got, Incoming.sums) # {}
    <3>1. /\ Link(payload, hashed, Incoming, h[read], h[read + 1])
          /\ Receiver(payload, down, h[read], hashed, got) /\ IsPayload(payload)
      BY <1>2, <2>1, <2>2, <2>6, StreamIncoming
    <3>2. Incoming.sums = ChecksumsAt(payload, hashed, h[read]) /\ h[read] \in Positions(payload)
      BY <2>6, <3>1 DEF Link, Receiver
    <3>3. Len(Incoming.sums) = h[read].current - h[read].next
      BY <3>1, <3>2, LenOfChecksums
    <3>4. Len(Incoming.sums) \in Nat
      BY <3>1, <3>2, <3>3, PayloadFacts DEF Positions
    <3> QED
      BY <3>4, TestEnds
  <2> QED
    BY <2>4, <2>5, <2>6
<1>3. StreamInv => HandlersDefined
  BY <1>1, <1>2 DEF HandlersDefined
<1> QED
  BY <1>3, StreamInvariance, PTL
=============================================================================
