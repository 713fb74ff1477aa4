--------------------------- MODULE Payload_proofs ---------------------------
(***************************************************************************)
(* Facts about the operators of Payload, and what the messages on their    *)
(* way say of where the sender and the receiver are.                       *)
(*                                                                         *)
(* A message does not carry its position: the history of a stream gives    *)
(* one to each message, the manager's position before and after it.  It is *)
(* what the invariants of PayloadStream and of Transfer relate the two     *)
(* managers by: the sender is at its end, the receiver at its beginning.   *)
(***************************************************************************)
EXTENDS Payload, SequenceTheorems, WellFoundedInduction, TLAPS

Position(m) == [current |-> m.current, next |-> m.next, total |-> m.total]

\* The positions of a manager between two messages.
Positions(p) ==
  {x \in [current : 1 .. End(p), next : 1 .. End(p), total : Nat] :
     x.next <= x.current /\ p.start[x.current] <= x.total /\ x.total <= TotalSize(p)}

StartPosition == [current |-> 1, next |-> 1, total |-> 0]

AfterChunk(p, x, n, y) ==
  /\ y.total = x.total + n /\ y.next = x.next
  /\ x.current <= y.current /\ StopsAt(p, y.current, y.total)

AfterChecksums(x) == [current |-> x.current, next |-> x.current, total |-> x.total]

\* The checksums sent from position x.
ChecksumsAt(p, content, x) ==
  [k \in 1 .. x.current - x.next |-> FileBytes(p, content, x.next + k - 1)]

\* A chunk that carries the bytes of the files; one that was cut short holds
\* something else.
IsWhole(msg, x) == msg.data = Span(x.total, Len(msg.data), {})

\* Everything that goes on a stream.
Messages ==
  [kind : {"Chunk"}, data : Seq(Nat)] \cup [kind : {"Checksums"}, sums : Seq(Seq(Nat))]
    \cup [kind : {"Offer", "Accept", "Reject", "Completed", "Error"}]
    \cup [kind : {"Close", "Garbage", "Incomplete"}] \cup [kind : {"Handshake"}, version : Nat]

\* What follows a chunk that was cut short.
EndKinds == {"Close", "Garbage"}

\* A message sent at position x leads to position y.
Link(p, content, msg, x, y) ==
  /\ msg.kind = "Chunk" =>
       /\ Len(msg.data) \in 1 .. TotalSize(p) - x.total
       /\ IsWhole(msg, x) => AfterChunk(p, x, Len(msg.data), y)
  /\ msg.kind = "Checksums" =>
       /\ x.next < x.current
       /\ msg.sums = ChecksumsAt(p, content, x)
       /\ y = AfterChecksums(x)
  /\ msg.kind \in {"Garbage", "Incomplete"} => x.total < TotalSize(p)
  /\ msg.kind \notin {"Chunk", "Checksums"} => y = x

IsCut(msg, x) == msg.kind = "Chunk" /\ ~IsWhole(msg, x)

\* h[i] is the position after i messages of s, the hashes of the sender having
\* been fed content.
History(p, content, s, h) ==
  /\ h \in [0 .. Len(s) -> Positions(p)]
  /\ \A i \in 0 .. Len(s) : h[i].total <= Len(content)
  /\ \A i \in 1 .. Len(s) : Link(p, content, s[i], h[i - 1], h[i])
  /\ \A i \in 1 .. Len(s) - 1 : IsCut(s[i], h[i - 1]) => s[i + 1].kind \in EndKinds

----------------------------------------------------------------------------
(* Payloads. *)

\* A nonempty set of natural numbers has a smallest element.
LEMMA Smallest ==
  ASSUME NEW T \in SUBSET Nat, T # {}
  PROVE  \E x \in T : \A y \in T : x <= y
<1>1. IsWellFoundedOn(OpToRel(<,Nat), Nat)
  BY NatLessThanWellFounded
<1>2. PICK x \in T : \A y \in T : ~ (<<y, x>> \in OpToRel(<,Nat))
  BY <1>1, WFMin
<1>3. \A y \in T : ~(y < x)
  BY <1>2 DEF OpToRel
<1> QED
  BY <1>3

LEMMA PayloadFacts ==
  ASSUME NEW p, IsPayload(p)
  PROVE  /\ p.nb \in Nat /\ p.nb > 0
         /\ End(p) = p.nb + 1 /\ End(p) \in Nat
         /\ p.start \in [1 .. End(p) -> Nat]
         /\ p.start[1] = 0
         /\ \A i, j \in 1 .. End(p) : i <= j => p.start[i] <= p.start[j]
         /\ TotalSize(p) \in Nat /\ TotalSize(p) = p.start[End(p)]
         /\ \A i \in 1 .. End(p) : p.start[i] \in Nat /\ p.start[i] <= TotalSize(p)
<1>1. /\ p.nb \in Nat /\ p.nb > 0 /\ End(p) = p.nb + 1
      /\ p.start \in [1 .. End(p) -> Nat] /\ p.start[1] = 0
      /\ \A i, j \in 1 .. End(p) : i <= j => p.start[i] <= p.start[j]
  BY DEF IsPayload, End
<1>2. TotalSize(p) = p.start[End(p)] /\ End(p) \in 1 .. End(p)
  BY <1>1 DEF TotalSize
<1>3. \A i \in 1 .. End(p) : i <= End(p) /\ p.start[i] \in Nat
  BY <1>1
<1> QED
  BY <1>1, <1>2, <1>3

\* Every byte of a payload belongs to a file.
LEMMA EveryByteInAFile ==
  ASSUME NEW p, IsPayload(p), NEW k \in 1 .. TotalSize(p)
  PROVE  \E f \in Files(p) : p.start[f] < k /\ k <= p.start[f + 1]
<1> DEFINE T == {f \in 1 .. p.nb : k <= p.start[f + 1]}
<1>1. p.nb \in T /\ T \in SUBSET Nat
  BY PayloadFacts
<1>2. PICK f \in T : \A g \in T : f <= g
  BY <1>1, Smallest
<1>3. f \in 1 .. p.nb /\ k <= p.start[f + 1]
  BY <1>2
<1>4. CASE f = 1
  BY <1>3, <1>4, PayloadFacts DEF Files
<1>5. CASE f > 1
  <2>1. f - 1 \in 1 .. p.nb /\ f - 1 \notin T
    BY <1>2, <1>3, <1>5, PayloadFacts
  <2>2. p.start[f] < k
    <3>1. ~(k <= p.start[(f - 1) + 1])
      BY <2>1
    <3>2. (f - 1) + 1 = f
      BY <1>3
    <3>3. p.start[f] \in Nat
      BY <1>3, PayloadFacts
    <3> QED
      BY <3>1, <3>2, <3>3
  <2> QED
    BY <1>3, <2>2 DEF Files
<1> QED
  BY <1>3, <1>4, <1>5

\* The loop of a chunk stops at one file.
LEMMA StopsOnce ==
  ASSUME NEW p, IsPayload(p), NEW c \in 1 .. End(p), NEW d \in 1 .. End(p), NEW t,
         StopsAt(p, c, t), StopsAt(p, d, t)
  PROVE  c = d
<1>1. ASSUME NEW x \in 1 .. End(p), NEW y \in 1 .. End(p), x < y,
             StopsAt(p, x, t), StopsAt(p, y, t)
      PROVE  FALSE
  <2>1. x \in 1 .. y - 1 /\ x \in Files(p)
    BY <1>1, PayloadFacts DEF Files
  <2> QED
    BY <1>1, <2>1 DEF StopsAt
<1> QED
  BY <1>1, PayloadFacts

\* The end of the files is the end of the bytes.
LEMMA EndIsFull ==
  ASSUME NEW p, IsPayload(p), NEW x \in Positions(p), x.current = End(p)
  PROVE  x.total = TotalSize(p)
BY PayloadFacts DEF Positions

----------------------------------------------------------------------------
(* Chunks. *)

\* What the loop leaves of a manager (LoopMoves of PayloadLoop): its position.
LEMMA MovedPosition ==
  ASSUME NEW p, IsPayload(p), NEW m \in Managers(p), Position(m) \in Positions(p),
         NEW n \in 1 .. Remaining(p, m), NEW after \in Moved(p, m, n)
  PROVE  /\ after \in Managers(p)
         /\ after.mode = m.mode /\ after.next = m.next
         /\ after.done = m.done /\ after.error = m.error
         /\ after.total = m.total + n
         /\ Position(after) \in Positions(p)
         /\ AfterChunk(p, Position(m), n, Position(after))
<1>1. PICK c \in m.current .. End(p) : StopsAt(p, c, m.total + n) /\ after = Advanced(m, c, n)
  BY DEF Moved
<1>2. /\ m.total \in Nat /\ m.current \in 1 .. End(p) /\ m.next \in 1 .. End(p)
      /\ m.next <= m.current /\ m.total <= TotalSize(p) /\ m.total + n <= TotalSize(p)
      /\ m.mode \in Modes /\ m.done \in Nat /\ m.error \in BOOLEAN
  BY PayloadFacts DEF Managers, Position, Positions, Remaining
<1>3. c \in 1 .. End(p) /\ m.next <= c /\ n \in Nat
  BY <1>1, <1>2, PayloadFacts DEF Remaining
<1>4. p.start[c] <= m.total + n
  <2>1. CASE c = 1
    BY <2>1, <1>2, <1>3, PayloadFacts
  <2>2. CASE c > 1
    <3>1. c - 1 \in 1 .. c - 1
      BY <1>3, <2>2, PayloadFacts
    <3>2. Passed(p, c - 1, m.total + n)
      BY <1>1, <3>1 DEF StopsAt
    <3>3. (c - 1) + 1 = c
      BY <1>3
    <3> QED
      BY <3>2, <3>3 DEF Passed
  <2> QED
    BY <1>3, <2>1, <2>2, PayloadFacts
<1>5. after = [mode |-> m.mode, current |-> c, next |-> m.next,
               total |-> m.total + n, done |-> m.done, error |-> m.error]
  BY <1>1 DEF Advanced
<1>6. after \in Managers(p)
  BY <1>2, <1>3, <1>5 DEF Managers
<1>7. Position(after) = [current |-> c, next |-> m.next, total |-> m.total + n]
  BY <1>5 DEF Position
<1>8. Position(after) \in Positions(p)
  BY <1>2, <1>3, <1>4, <1>7 DEF Positions
<1>9. AfterChunk(p, Position(m), n, Position(after))
  BY <1>1, <1>2, <1>3, <1>7, PayloadFacts DEF AfterChunk, Position
<1> QED
  BY <1>5, <1>6, <1>8, <1>9

\* A chunk that fits is received whole, or a file cannot be opened.
LEMMA ReceivedChunk ==
  ASSUME NEW p, NEW m \in Managers(p), NEW n \in Nat, n <= Remaining(p, m),
         NEW unreliable, NEW r \in Received(p, m, n, unreliable)
  PROVE  r \in Moved(p, m, n) \/ (r.error /\ r.done = m.done)
<1>1. CASE r \in Moved(p, m, n)
  BY <1>1
<1>2. ASSUME NEW f, r = OpenFails(p, m, f)
      PROVE  r.error /\ r.done = m.done
  BY <1>2 DEF OpenFails, TransferError, StopTransfer, WithError, Advanced
<1> QED
  BY <1>1, <1>2 DEF Received, ChunkFits

----------------------------------------------------------------------------
(* Checksums. *)

LEMMA LenOfFunction ==
  ASSUME NEW S, NEW n \in Nat, NEW f \in [1 .. n -> S]
  PROVE  f \in Seq(S) /\ Len(f) = n
<1>1. f \in Seq(S)
  BY SeqDef
<1>2. Len(f) \in Nat /\ DOMAIN f = 1 .. Len(f)
  BY <1>1, LenProperties
<1>3. 1 .. n = 1 .. Len(f)
  BY <1>2
<1> QED
  BY <1>1, <1>2, <1>3

LEMMA LenOfChecksums ==
  ASSUME NEW p, IsPayload(p), NEW x \in Positions(p), NEW content
  PROVE  Len(ChecksumsAt(p, content, x)) = x.current - x.next
<1>1. x.current - x.next \in Nat
  BY PayloadFacts DEF Positions
<1> DEFINE S == {FileBytes(p, content, x.next + k - 1) : k \in 1 .. x.current - x.next}
<1>2. ChecksumsAt(p, content, x) \in [1 .. x.current - x.next -> S]
  BY DEF ChecksumsAt
<1> QED
  BY <1>1, <1>2, LenOfFunction

\* take_pending_checksums when there are some.
LEMMA ChecksummedPosition ==
  ASSUME NEW p, IsPayload(p), NEW m \in Managers(p), Position(m) \in Positions(p),
         NEW r, r = Checksummed(p, m, PendingChecksums(m))
  PROVE  /\ r \in Managers(p)
         /\ Position(r) = AfterChecksums(Position(m)) /\ Position(r) \in Positions(p)
         /\ r.total = m.total /\ r.error = m.error
         /\ r.done = m.done + (m.current - m.next)
         /\ r.mode = IF m.current = End(p) THEN "Closed" ELSE m.mode
<1>1. /\ m.total \in Nat /\ m.current \in 1 .. End(p) /\ m.next \in 1 .. End(p)
      /\ m.next <= m.current /\ m.done \in Nat /\ m.mode \in Modes /\ m.error \in BOOLEAN
      /\ p.start[m.current] <= m.total /\ m.total <= TotalSize(p) /\ End(p) \in Nat
  BY PayloadFacts DEF Managers, Position, Positions
<1>2. m.next + PendingChecksums(m) = m.current
  BY <1>1 DEF PendingChecksums
<1>3. r = [mode |-> IF m.current = End(p) THEN "Closed" ELSE m.mode,
           current |-> m.current, next |-> m.current, total |-> m.total,
           done |-> m.done + (m.current - m.next), error |-> m.error]
  <2>1. CASE m.current = End(p)
    BY <1>1, <1>2, <2>1 DEF Checksummed, Seen, StopTransfer, PendingChecksums
  <2>2. CASE m.current # End(p)
    BY <1>1, <1>2, <2>2 DEF Checksummed, Seen, PendingChecksums
  <2> QED
    BY <2>1, <2>2
<1>4. r \in Managers(p)
  BY <1>1, <1>3 DEF Managers, Modes
<1>5. Position(r) = AfterChecksums(Position(m))
  BY <1>3 DEF Position, AfterChecksums
<1>6. Position(r) \in Positions(p)
  BY <1>1, <1>3 DEF Position, Positions
<1> QED
  BY <1>3, <1>4, <1>5, <1>6

\* test_checksums on the checksums of all the files passed: they all match, or
\* an error is set.
LEMMA TestedChecksums ==
  ASSUME NEW p, IsPayload(p), NEW m \in Managers(p), Position(m) \in Positions(p),
         ~m.error, m.next < m.current, NEW content, NEW got,
         NEW sums, sums = ChecksumsAt(p, content, Position(m)),
         NEW r \in TestChecksums(p, m, got, sums)
  PROVE  \/ /\ r = Checksummed(p, m, PendingChecksums(m))
            /\ \A f \in m.next .. m.current - 1 :
                 FileBytes(p, content, f) = FileBytes(p, got, f)
         \/ r.error /\ r.done \in Nat /\ r.done < m.done + (m.current - m.next)
<1>1. /\ m.current \in Nat /\ m.next \in Nat /\ m.done \in Nat
      /\ Position(m).current = m.current /\ Position(m).next = m.next
  BY PayloadFacts DEF Managers, Position
<1>2. Len(sums) = PendingChecksums(m) /\ PendingChecksums(m) = m.current - m.next
  BY <1>1, LenOfChecksums DEF PendingChecksums
<1>3. CASE Matching(p, m, got, sums, Len(sums))
  <2>1. r = Checksummed(p, m, PendingChecksums(m))
    BY <1>2, <1>3 DEF TestChecksums
  <2>2. ASSUME NEW f \in m.next .. m.current - 1
        PROVE  FileBytes(p, content, f) = FileBytes(p, got, f)
    <3> DEFINE k == f - m.next + 1
    <3>1. k \in 1 .. Len(sums) /\ m.next + k - 1 = f
      BY <1>1, <1>2, SMTT(30)
    <3>2. sums[k] = FileBytes(p, got, f)
      BY <1>3, <3>1 DEF Matching
    <3>3. sums[k] = FileBytes(p, content, f)
      BY <1>1, <1>2, <3>1 DEF ChecksumsAt
    <3> QED
      BY <3>2, <3>3
  <2> QED
    BY <2>1, <2>2
<1>4. CASE ~Matching(p, m, got, sums, Len(sums))
  <2>1. PICK k \in 0 .. Len(sums) - 1 : r = Refused(p, m, k)
    BY <1>4 DEF TestChecksums
  <2>2. r.error /\ r.done = m.done + k
    BY <2>1 DEF Refused, TransferError, StopTransfer, WithError, Seen
  <2> QED
    BY <1>1, <1>2, <2>1, <2>2
<1> QED
  BY <1>3, <1>4

----------------------------------------------------------------------------
(* Histories. *)

\* The files before position x, and the checksums sent there, are the same in
\* a content that goes further.
LEMMA SameChecksums ==
  ASSUME NEW p, IsPayload(p), NEW x \in Positions(p), NEW content, NEW longer,
         Len(content) \in Nat, x.total <= Len(content),
         \A k \in 1 .. Len(content) : longer[k] = content[k]
  PROVE  ChecksumsAt(p, longer, x) = ChecksumsAt(p, content, x)
<1>1. ASSUME NEW k \in 1 .. x.current - x.next
      PROVE  FileBytes(p, longer, x.next + k - 1) = FileBytes(p, content, x.next + k - 1)
  <2> DEFINE f == x.next + k - 1
  <2>1. /\ x.current \in 1 .. End(p) /\ x.next \in 1 .. End(p) /\ x.total \in Nat
        /\ End(p) \in Nat /\ p.start[x.current] <= x.total
    BY PayloadFacts DEF Positions
  <2>2. /\ f \in 1 .. End(p) /\ f + 1 \in 1 .. End(p) /\ f + 1 <= x.current
    BY <2>1
  <2>3. /\ p.start[f] \in Nat /\ p.start[f + 1] \in Nat /\ p.start[x.current] \in Nat
        /\ p.start[f + 1] <= p.start[x.current]
    BY <2>1, <2>2, PayloadFacts
  <2> HIDE DEF f
  <2>4. ASSUME NEW j \in 1 .. FileSize(p, f)
        PROVE  p.start[f] + j \in 1 .. Len(content)
    <3>1. FileSize(p, f) = p.start[f + 1] - p.start[f]
      BY DEF FileSize
    <3>2. p.start[f + 1] <= Len(content)
      BY <2>1, <2>3
    <3> QED
      BY <2>3, <3>1, <3>2
  <2>5. FileBytes(p, longer, f) = FileBytes(p, content, f)
    BY <2>4 DEF FileBytes
  <2> QED
    BY <2>5 DEF f
<1> QED
  BY <1>1 DEF ChecksumsAt

LEMMA HistoryGrows ==
  ASSUME NEW p, IsPayload(p), NEW S, NEW s \in Seq(S), NEW content, NEW longer, NEW h,
         History(p, content, s, h),
         Len(content) \in Nat, Len(longer) \in Nat, Len(content) <= Len(longer),
         \A k \in 1 .. Len(content) : longer[k] = content[k]
  PROVE  History(p, longer, s, h)
<1>1. Len(s) \in Nat
  BY LenProperties
<1>2. \A i \in 0 .. Len(s) : h[i] \in Positions(p) /\ h[i].total \in Nat
  BY DEF History, Positions
<1>3. \A i \in 0 .. Len(s) : h[i].total <= Len(longer)
  BY <1>2 DEF History
<1>4. ASSUME NEW i \in 1 .. Len(s)
      PROVE  Link(p, longer, s[i], h[i - 1], h[i])
  <2>1. i - 1 \in 0 .. Len(s)
    BY <1>1
  <2>2. ChecksumsAt(p, longer, h[i - 1]) = ChecksumsAt(p, content, h[i - 1])
    BY <1>2, <2>1, SameChecksums DEF History
  <2>3. Link(p, content, s[i], h[i - 1], h[i])
    BY DEF History
  <2> QED
    BY <2>2, <2>3 DEF Link
<1> QED
  BY <1>3, <1>4 DEF History

Longer(s, h, y) == [i \in 0 .. Len(s) + 1 |-> IF i <= Len(s) THEN h[i] ELSE y]

\* A message more at the end.
LEMMA HistoryAppend ==
  ASSUME NEW p, NEW S, NEW s \in Seq(S), NEW msg \in S, NEW content, NEW h, NEW y,
         History(p, content, s, h),
         y \in Positions(p), y.total <= Len(content),
         Link(p, content, msg, h[Len(s)], y),
         s # << >> => ~IsCut(s[Len(s)], h[Len(s) - 1]) \/ msg.kind \in EndKinds
  PROVE  /\ History(p, content, Append(s, msg), Longer(s, h, y))
         /\ Longer(s, h, y)[0] = h[0] /\ Longer(s, h, y)[Len(s) + 1] = y
<1> DEFINE t == Append(s, msg)
           g == Longer(s, h, y)
<1>1. /\ Len(s) \in Nat /\ Len(t) = Len(s) + 1 /\ t[Len(s) + 1] = msg
      /\ \A i \in 1 .. Len(s) : t[i] = s[i]
  BY AppendProperties, LenProperties
<1>2. /\ g[Len(s) + 1] = y
      /\ \A i \in 0 .. Len(s) : g[i] = h[i] /\ h[i] \in Positions(p)
  BY <1>1, SMTT(30) DEF Longer, History
<1>3. g \in [0 .. Len(t) -> Positions(p)]
  <2>1. \A i \in 0 .. Len(s) + 1 : g[i] \in Positions(p)
    BY <1>1, <1>2
  <2>2. g = [i \in 0 .. Len(s) + 1 |-> g[i]]
    BY DEF Longer
  <2> HIDE DEF t, g
  <2> QED
    BY <1>1, <2>1, <2>2
<1> HIDE DEF t, g
<1>4. \A i \in 0 .. Len(t) : g[i].total <= Len(content)
  BY <1>1, <1>2 DEF History
<1>5. ASSUME NEW i \in 1 .. Len(t)
      PROVE  Link(p, content, t[i], g[i - 1], g[i])
  <2>1. CASE i \in 1 .. Len(s)
    <3>1. t[i] = s[i] /\ g[i - 1] = h[i - 1] /\ g[i] = h[i]
      BY <1>1, <1>2, <2>1
    <3> QED
      BY <2>1, <3>1 DEF History
  <2>2. CASE i = Len(s) + 1
    <3>1. t[i] = msg /\ g[i - 1] = h[Len(s)] /\ g[i] = y
      BY <1>1, <1>2, <2>2
    <3> QED
      BY <3>1
  <2> QED
    BY <1>1, <2>1, <2>2
<1>6. ASSUME NEW i \in 1 .. Len(t) - 1, IsCut(t[i], g[i - 1])
      PROVE  t[i + 1].kind \in EndKinds
  <2>1. t[i] = s[i] /\ g[i - 1] = h[i - 1] /\ i \in 1 .. Len(s)
    BY <1>1, <1>2
  <2>2. CASE i \in 1 .. Len(s) - 1
    <3>1. t[i + 1] = s[i + 1]
      BY <1>1, <2>2
    <3> QED
      BY <1>6, <2>1, <2>2, <3>1 DEF History
  <2>3. CASE i = Len(s)
    <3>1. t[i + 1] = msg /\ s # << >>
      BY <1>1, <2>1, <2>3
    <3> QED
      BY <1>6, <2>1, <2>3, <3>1
  <2> QED
    BY <1>1, <2>1, <2>2, <2>3
<1>7. History(p, content, t, g)
  BY <1>3, <1>4, <1>5, <1>6 DEF History
<1> QED
  BY <1>1, <1>2, <1>7 DEF t, g

\* A message less at the beginning.
LEMMA HistoryTail ==
  ASSUME NEW p, NEW S, NEW s \in Seq(S), s # << >>, NEW content, NEW h,
         History(p, content, s, h)
  PROVE  /\ History(p, content, Tail(s), [i \in 0 .. Len(s) - 1 |-> h[i + 1]])
         /\ Link(p, content, Head(s), h[0], h[1])
         /\ Tail(s) # << >> /\ IsCut(Head(s), h[0]) => Head(Tail(s)).kind \in EndKinds
<1> DEFINE t == Tail(s)
           g == [i \in 0 .. Len(s) - 1 |-> h[i + 1]]
<1>1. /\ Len(s) \in Nat \ {0} /\ t \in Seq(S) /\ Len(t) = Len(s) - 1
      /\ \A i \in 1 .. Len(t) : t[i] = s[i + 1]
      /\ Head(s) = s[1]
  BY HeadTailProperties, LenProperties, EmptySeq
<1>2. \A i \in 0 .. Len(t) : g[i] = h[i + 1] /\ h[i + 1] \in Positions(p)
  BY <1>1 DEF History
<1>3. g \in [0 .. Len(t) -> Positions(p)]
  BY <1>1, <1>2
<1> HIDE DEF t, g
<1>4. \A i \in 0 .. Len(t) : g[i].total <= Len(content)
  BY <1>1, <1>2 DEF History
<1>5. ASSUME NEW i \in 1 .. Len(t)
      PROVE  Link(p, content, t[i], g[i - 1], g[i])
  <2>1. /\ t[i] = s[i + 1] /\ g[i - 1] = h[(i + 1) - 1] /\ g[i] = h[i + 1]
        /\ i + 1 \in 1 .. Len(s)
    BY <1>1, <1>2
  <2> QED
    BY <2>1 DEF History
<1>6. ASSUME NEW i \in 1 .. Len(t) - 1, IsCut(t[i], g[i - 1])
      PROVE  t[i + 1].kind \in EndKinds
  <2>1. /\ t[i] = s[i + 1] /\ t[i + 1] = s[(i + 1) + 1] /\ g[i - 1] = h[(i + 1) - 1]
        /\ i + 1 \in 1 .. Len(s) - 1
    BY <1>1, <1>2
  <2> QED
    BY <1>6, <2>1 DEF History
<1>7. History(p, content, t, g)
  BY <1>3, <1>4, <1>5, <1>6 DEF History
<1>8. Link(p, content, Head(s), h[0], h[1])
  <2>1. 1 \in 1 .. Len(s) /\ 1 - 1 = 0
    BY <1>1
  <2> QED
    BY <1>1, <2>1 DEF History
<1>9. ASSUME t # << >>, IsCut(Head(s), h[0])
      PROVE  Head(t).kind \in EndKinds
  <2>1. Len(t) \in Nat \ {0} /\ Head(t) = t[1]
    BY <1>1, <1>9, EmptySeq
  <2>2. Head(t) = s[1 + 1] /\ 1 \in 1 .. Len(s) - 1 /\ 1 - 1 = 0
    BY <1>1, <2>1
  <2> QED
    BY <1>1, <1>9, <2>2 DEF History
<1> QED
  BY <1>7, <1>8, <1>9 DEF t, g

----------------------------------------------------------------------------
(* Sending. *)

LEMMA SpanFacts ==
  ASSUME NEW total \in Nat, NEW n \in Nat, NEW odd
  PROVE  /\ Span(total, n, odd) \in Seq(Nat) /\ Len(Span(total, n, odd)) = n
         /\ \A k \in 1 .. n :
              Span(total, n, odd)[k] = IF total + k \in odd THEN 0 ELSE total + k
<1>1. Span(total, n, odd) \in [1 .. n -> Nat]
  BY DEF Span
<1> QED
  BY <1>1, LenOfFunction DEF Span

\* A chunk cut at one byte or more does not pass for a whole one.
LEMMA CutSpan ==
  ASSUME NEW x, x.total \in Nat, NEW n \in Nat, NEW k \in 1 .. n,
         NEW odd, x.total + k \in odd
  PROVE  IsCut(ChunkMsg(Span(x.total, n, odd)), x)
<1>1. Span(x.total, n, odd)[k] = 0 /\ Len(Span(x.total, n, odd)) = n
  BY SpanFacts
<1>2. Span(x.total, n, {})[k] = x.total + k
  BY SpanFacts
<1>3. Span(x.total, n, odd) # Span(x.total, n, {})
  BY <1>1, <1>2
<1> QED
  BY <1>1, <1>3 DEF IsCut, IsWhole, ChunkMsg

LEMMA ExtendFacts ==
  ASSUME NEW content \in Seq(Nat), NEW n \in Nat,
         NEW values, \A k \in 1 .. n : values[k] \in Nat,
         NEW longer, longer = Extend(content, Len(content), n, values)
  PROVE  /\ longer \in Seq(Nat) /\ Len(longer) = Len(content) + n
         /\ Len(content) \in Nat
         /\ \A k \in 1 .. Len(content) : longer[k] = content[k]
         /\ \A k \in 1 .. n : longer[Len(content) + k] = values[k]
<1>1. Len(content) \in Nat /\ \A k \in 1 .. Len(content) : content[k] \in Nat
  BY LenProperties
<1>2. longer = [k \in 1 .. Len(content) + n |->
                  IF k <= Len(content) THEN content[k] ELSE values[k - Len(content)]]
  BY DEF Extend
<1>3. \A k \in 1 .. Len(content) + n :
        (IF k <= Len(content) THEN content[k] ELSE values[k - Len(content)]) \in Nat
  BY <1>1
<1>4. longer \in [1 .. Len(content) + n -> Nat]
  BY <1>2, <1>3
<1>5. longer \in Seq(Nat) /\ Len(longer) = Len(content) + n
  <2>1. Len(content) + n \in Nat
    BY <1>1
  <2> HIDE DEF Extend
  <2> QED
    BY <1>4, <2>1, LenOfFunction
<1> QED
  BY <1>1, <1>2, <1>5

LEMMA ChecksumsType ==
  ASSUME NEW p, IsPayload(p), NEW x \in Positions(p),
         NEW content \in Seq(Nat), x.total <= Len(content)
  PROVE  ChecksumsAt(p, content, x) \in Seq(Seq(Nat))
<1>1. /\ x.current \in 1 .. End(p) /\ x.next \in 1 .. End(p) /\ x.next <= x.current
      /\ x.total \in Nat /\ End(p) \in Nat /\ p.start[x.current] <= x.total
      /\ Len(content) \in Nat /\ x.current - x.next \in Nat
  BY PayloadFacts, LenProperties DEF Positions
<1>2. ASSUME NEW f \in x.next .. x.current - 1
      PROVE  FileBytes(p, content, f) \in Seq(Nat)
  <2>1. f \in 1 .. End(p) /\ f + 1 \in 1 .. End(p) /\ f + 1 <= x.current
    BY <1>1
  <2>2. /\ p.start[f] \in Nat /\ p.start[f + 1] \in Nat /\ p.start[x.current] \in Nat
        /\ p.start[f] <= p.start[f + 1] /\ p.start[f + 1] <= p.start[x.current]
    BY <1>1, <2>1, PayloadFacts, SMTT(30)
  <2>3. FileSize(p, f) = p.start[f + 1] - p.start[f] /\ FileSize(p, f) \in Nat
    BY <2>2 DEF FileSize
  <2>4. ASSUME NEW j \in 1 .. FileSize(p, f)
        PROVE  content[p.start[f] + j] \in Nat
    <3>1. p.start[f] + j \in 1 .. p.start[f + 1]
      BY <2>2, <2>3
    <3>2. p.start[f + 1] <= Len(content)
      BY <1>1, <2>2, SMTT(30)
    <3>3. p.start[f] + j \in 1 .. Len(content)
      BY <1>1, <2>2, <3>1, <3>2, SMTT(30)
    <3> QED
      BY <3>3, ElementOfSeq
  <2>5. FileBytes(p, content, f) \in [1 .. FileSize(p, f) -> Nat]
    BY <2>4 DEF FileBytes
  <2> QED
    BY <2>3, <2>5, LenOfFunction
<1>3. ASSUME NEW k \in 1 .. x.current - x.next
      PROVE  FileBytes(p, content, x.next + k - 1) \in Seq(Nat)
  <2>1. x.next + k - 1 \in x.next .. x.current - 1
    BY <1>1
  <2> QED
    BY <1>2, <2>1
<1>4. ChecksumsAt(p, content, x) \in [1 .. x.current - x.next -> Seq(Nat)]
  BY <1>3 DEF ChecksumsAt
<1> QED
  BY <1>1, <1>4, LenOfFunction

\* The size of the next chunk.
LEMMA NextChunk ==
  ASSUME NEW p, IsPayload(p), NEW m \in Managers(p), m.total < TotalSize(p)
  PROVE  NextChunkSize(p, m) \in 1 .. Remaining(p, m)
<1>1. m.total \in Nat /\ TotalSize(p) \in Nat
  BY PayloadFacts DEF Managers
<1>2. Remaining(p, m) \in Nat \ {0}
  BY <1>1 DEF Remaining
<1> QED
  BY <1>2, ChunkSizeAssumption DEF NextChunkSize

\* What send_next_chunk feeds to the hashes.
LEMMA HashedBytes ==
  ASSUME NEW content \in Seq(Nat), NEW total, total = Len(content), NEW n \in Nat,
         NEW torn, NEW longer, longer = Extend(content, total, n, Span(total, n, torn))
  PROVE  /\ longer \in Seq(Nat) /\ Len(longer) = total + n
         /\ \A k \in 1 .. Len(content) : longer[k] = content[k]
<1> DEFINE values == Span(total, n, torn)
<1>1. total \in Nat
  BY LenProperties
<1>2. \A k \in 1 .. n : values[k] = IF total + k \in torn THEN 0 ELSE total + k
  BY <1>1, SpanFacts
<1> HIDE DEF values
<1>3. \A k \in 1 .. n : values[k] \in Nat
  BY <1>1, <1>2
<1>4. longer = Extend(content, Len(content), n, values)
  BY DEF values
<1> QED
  BY <1>3, <1>4, ExtendFacts

\* Stream u goes on with stream s, of history h, up to position y, by whole
\* chunks and their checksums.
Continues(p, content, s, h, u, y) ==
  /\ u \in Seq(Messages) /\ Len(s) <= Len(u)
  /\ \A i \in 1 .. Len(s) : u[i] = s[i]
  /\ \A i \in Len(s) + 1 .. Len(u) : u[i].kind \in {"Chunk", "Checksums"}
  /\ \E g : /\ History(p, content, u, g) /\ g[Len(u)] = y
            /\ \A i \in 0 .. Len(s) : g[i] = h[i]
            /\ \A i \in Len(s) + 1 .. Len(u) : ~IsCut(u[i], g[i - 1])
            /\ u # << >> => ~IsCut(u[Len(u)], g[Len(u) - 1])

LEMMA ContinuesItself ==
  ASSUME NEW p, NEW content, NEW s \in Seq(Messages), NEW h, History(p, content, s, h),
         s # << >> => ~IsCut(s[Len(s)], h[Len(s) - 1])
  PROVE  Continues(p, content, s, h, s, h[Len(s)])
<1>1. Len(s) \in Nat
  BY LenProperties
<1> QED
  BY <1>1 DEF Continues

LEMMA ContinuesOn ==
  ASSUME NEW p, NEW content, NEW s \in Seq(Messages), NEW h, NEW u, NEW y, NEW z,
         Continues(p, content, s, h, u, y),
         NEW msg \in Messages, msg.kind \in {"Chunk", "Checksums"},
         Link(p, content, msg, y, z), z \in Positions(p), z.total <= Len(content),
         ~IsCut(msg, y)
  PROVE  Continues(p, content, s, h, Append(u, msg), z)
<1>1. PICK g : /\ History(p, content, u, g) /\ g[Len(u)] = y
               /\ \A i \in 0 .. Len(s) : g[i] = h[i]
               /\ \A i \in Len(s) + 1 .. Len(u) : ~IsCut(u[i], g[i - 1])
               /\ u # << >> => ~IsCut(u[Len(u)], g[Len(u) - 1])
  BY DEF Continues
<1> DEFINE v == Append(u, msg)
           k == Longer(u, g, z)
<1>2. /\ u \in Seq(Messages) /\ Len(u) \in Nat /\ Len(s) \in Nat /\ Len(s) <= Len(u)
      /\ \A i \in 1 .. Len(s) : u[i] = s[i]
      /\ \A i \in Len(s) + 1 .. Len(u) : u[i].kind \in {"Chunk", "Checksums"}
  BY LenProperties DEF Continues
<1>3. History(p, content, v, k) /\ k[Len(u) + 1] = z
  BY <1>1, <1>2, HistoryAppend
<1>4. \A i \in 0 .. Len(u) : k[i] = g[i]
  BY <1>2 DEF Longer
<1>5. /\ v \in Seq(Messages) /\ Len(v) = Len(u) + 1 /\ v[Len(u) + 1] = msg
      /\ \A i \in 1 .. Len(u) : v[i] = u[i]
  BY <1>2, AppendProperties
<1> HIDE DEF v, k
<1>6. Len(s) <= Len(v) /\ \A i \in 1 .. Len(s) : v[i] = s[i]
  BY <1>2, <1>5
<1>7. \A i \in 0 .. Len(s) : k[i] = h[i]
  BY <1>1, <1>2, <1>4
<1>8. ASSUME NEW i \in Len(s) + 1 .. Len(v)
      PROVE  ~IsCut(v[i], k[i - 1]) /\ v[i].kind \in {"Chunk", "Checksums"}
  <2>1. CASE i = Len(u) + 1
    <3>1. i - 1 = Len(u) /\ v[i] = msg /\ k[i - 1] = y
      BY <1>1, <1>2, <1>4, <1>5, <2>1
    <3> QED
      BY <3>1
  <2>2. CASE i # Len(u) + 1
    <3>1. i \in Len(s) + 1 .. Len(u) /\ v[i] = u[i] /\ k[i - 1] = g[i - 1]
      BY <1>2, <1>4, <1>5, <2>2
    <3> QED
      BY <1>1, <1>2, <3>1
  <2> QED
    BY <2>1, <2>2
<1>9. ~IsCut(v[Len(v)], k[Len(v) - 1])
  BY <1>2, <1>5, <1>8
<1>10. k[Len(v)] = z
  BY <1>3, <1>5
<1>11. \E q : /\ History(p, content, v, q) /\ q[Len(v)] = z
              /\ \A i \in 0 .. Len(s) : q[i] = h[i]
              /\ \A i \in Len(s) + 1 .. Len(v) : ~IsCut(v[i], q[i - 1])
              /\ v # << >> => ~IsCut(v[Len(v)], q[Len(v) - 1])
  BY <1>3, <1>7, <1>8, <1>9, <1>10
<1>12. Continues(p, content, s, h, v, z)
  BY <1>5, <1>6, <1>8, <1>11 DEF Continues
<1> QED
  BY <1>12 DEF v

\* The manager of a sender between two chunks; content is what its hashes were
\* fed.
Sender(p, m, content) ==
  /\ m \in Managers(p) /\ Position(m) \in Positions(p)
  /\ ~m.error /\ m.done = m.next - 1
  /\ m.mode = IF m.next = End(p) THEN "Closed" ELSE "Sending"
  /\ content \in Seq(Nat) /\ Len(content) = m.total

\* The manager send_next_chunk leaves is one between two chunks.
LEMMA SenderStep ==
  ASSUME NEW p, IsPayload(p), NEW m, NEW content, Sender(p, m, content),
         NEW n \in 1 .. Remaining(p, m), NEW after \in Moved(p, m, n),
         NEW longer \in Seq(Nat), Len(longer) = m.total + n
  PROVE  /\ after \in Managers(p) /\ Position(after) \in Positions(p)
         /\ AfterChunk(p, Position(m), n, Position(after))
         /\ after.total = m.total + n
         /\ Sender(p, TakePendingChecksums(p, after), longer)
         /\ Position(TakePendingChecksums(p, after)) = AfterChecksums(Position(after))
         /\ Position(TakePendingChecksums(p, after)) \in Positions(p)
<1> DEFINE r == TakePendingChecksums(p, after)
           y == Position(after)
<1>1. /\ after \in Managers(p) /\ y \in Positions(p)
      /\ after.mode = m.mode /\ after.next = m.next /\ after.done = m.done
      /\ after.error = m.error /\ after.total = m.total + n
      /\ AfterChunk(p, Position(m), n, y)
  BY MovedPosition DEF Sender
<1>2. /\ r \in Managers(p) /\ Position(r) = AfterChecksums(y) /\ Position(r) \in Positions(p)
      /\ r.total = after.total /\ r.error = after.error
      /\ r.done = after.done + (after.current - after.next)
      /\ r.mode = IF after.current = End(p) THEN "Closed" ELSE after.mode
  BY <1>1, ChecksummedPosition DEF TakePendingChecksums
<1>3. r.next = after.current
  BY <1>2 DEF Position, AfterChecksums
<1>4. after.next \in Nat /\ after.current \in Nat /\ after.next \in 1 .. End(p)
      /\ after.current \in 1 .. End(p) /\ after.next <= after.current /\ End(p) \in Nat
  BY <1>1, PayloadFacts DEF Managers, Positions, Position
<1> HIDE DEF r, y
<1>5. r.done = r.next - 1
  BY <1>1, <1>2, <1>3, <1>4 DEF Sender
<1>6. r.mode = IF r.next = End(p) THEN "Closed" ELSE "Sending"
  <2>1. after.current # End(p) => after.next # End(p)
    BY <1>4
  <2> QED
    BY <1>1, <1>2, <1>3, <2>1 DEF Sender
<1>7. ~r.error /\ r.total = Len(longer)
  BY <1>1, <1>2 DEF Sender
<1>8. Sender(p, r, longer)
  BY <1>2, <1>5, <1>6, <1>7 DEF Sender
<1> QED
  BY <1>1, <1>2, <1>8 DEF r, y

\* send_next_chunk: a whole chunk, the checksums of the files it ends, and the
\* history that goes on with them.
LEMMA SentChunk ==
  ASSUME NEW p, IsPayload(p), NEW m, NEW content, Sender(p, m, content),
         NEW n \in 1 .. Remaining(p, m), NEW after \in Moved(p, m, n),
         NEW longer \in Seq(Nat), Len(longer) = m.total + n,
         \A k \in 1 .. Len(content) : longer[k] = content[k],
         NEW s \in Seq(Messages), NEW h, History(p, content, s, h),
         h[Len(s)] = Position(m),
         s # << >> => ~IsCut(s[Len(s)], h[Len(s) - 1]),
         NEW t, t = s \o << ChunkMsg(Span(m.total, n, {})) >> \o PendingMsgs(p, after, longer)
  PROVE  Continues(p, longer, s, h, t, Position(TakePendingChecksums(p, after)))
<1> DEFINE chunk == ChunkMsg(Span(m.total, n, {}))
           x == Position(m)
           y == Position(after)
           z == Position(TakePendingChecksums(p, after))
           u == Append(s, chunk)
<1>1. /\ x \in Positions(p) /\ m.total \in Nat /\ x.total = m.total
      /\ n \in Nat /\ n \in 1 .. TotalSize(p) - x.total
      /\ content \in Seq(Nat) /\ Len(content) = m.total /\ Len(content) <= Len(longer)
  BY PayloadFacts, LenProperties DEF Sender, Managers, Position, Remaining
<1>2. /\ y \in Positions(p) /\ AfterChunk(p, x, n, y) /\ y.total = Len(longer)
      /\ z = AfterChecksums(y) /\ z \in Positions(p) /\ z.total = Len(longer)
  <2>1. /\ after \in Managers(p) /\ y \in Positions(p) /\ AfterChunk(p, x, n, y)
        /\ after.total = Len(longer) /\ z = AfterChecksums(y) /\ z \in Positions(p)
    BY SenderStep
  <2> QED
    BY <2>1 DEF Position, AfterChecksums
<1>3. /\ chunk \in Messages /\ chunk.kind = "Chunk" /\ Len(chunk.data) = n
      /\ IsWhole(chunk, x)
  <2>1. /\ Len(Span(m.total, n, {})) = n /\ Span(m.total, n, {}) \in Seq(Nat)
    BY <1>1, SpanFacts
  <2> QED
    BY <1>1, <2>1 DEF ChunkMsg, Messages, IsWhole
<1>4. s \o << chunk >> = u
  BY <1>3, AppendIsConcat
<1> HIDE DEF x, y, z, chunk
<1>5. Continues(p, longer, s, h, s, x)
  <2>1. History(p, longer, s, h)
    BY <1>1, HistoryGrows
  <2> QED
    BY <2>1, ContinuesItself DEF x
<1>6. Link(p, longer, chunk, x, y) /\ ~IsCut(chunk, x)
  BY <1>1, <1>2, <1>3 DEF Link, IsCut
<1>7. Continues(p, longer, s, h, u, y)
  <2>1. y.total <= Len(longer)
    BY <1>1, <1>2
  <2> QED
    BY <1>2, <1>3, <1>5, <1>6, <2>1, ContinuesOn
<1>8. CASE PendingChecksums(after) = 0
  <2>1. t = u
    <3>1. PendingMsgs(p, after, longer) = << >>
      BY <1>8 DEF PendingMsgs
    <3>2. u \in Seq(Messages)
      BY <1>3, AppendProperties
    <3> HIDE DEF u
    <3>3. t = u \o << >>
      BY <1>4, <3>1 DEF chunk
    <3> QED
      BY <3>2, <3>3, ConcatEmptySeq
  <2>2. z = y
    <3>1. /\ y.current = after.current /\ y.next = after.next
      BY DEF y, Position
    <3>2. y.current \in Nat /\ y.next \in Nat
      BY <1>2, PayloadFacts, SMTT(30) DEF Positions
    <3>3. y.current = y.next
      BY <1>8, <3>1, <3>2 DEF PendingChecksums
    <3>4. y = [current |-> y.current, next |-> y.next, total |-> y.total]
      BY DEF y, Position
    <3> QED
      BY <1>2, <3>3, <3>4 DEF AfterChecksums
  <2> QED
    BY <1>7, <2>1, <2>2 DEF z
<1>9. CASE PendingChecksums(after) # 0
  <2> DEFINE sums == ChecksumsMsg(ChecksumList(p, after, longer))
  <2>1. ChecksumList(p, after, longer) = ChecksumsAt(p, longer, y)
    BY DEF ChecksumList, ChecksumsAt, PendingChecksums, Position, y
  <2>2. ChecksumsAt(p, longer, y) \in Seq(Seq(Nat))
    BY <1>1, <1>2, ChecksumsType
  <2>3. y.next < y.current
    <3>1. y.current = after.current /\ y.next = after.next
      BY DEF y, Position
    <3>2. y.current \in Nat /\ y.next \in Nat /\ y.next <= y.current
      BY <1>2, PayloadFacts, SMTT(30) DEF Positions
    <3>3. y.current # y.next
      BY <1>9, <3>1, <3>2 DEF PendingChecksums
    <3> QED
      BY <3>2, <3>3
  <2>4. sums.kind = "Checksums" /\ sums.sums = ChecksumsAt(p, longer, y) /\ sums \in Messages
    BY <2>1, <2>2 DEF ChecksumsMsg, Messages
  <2>5. PendingMsgs(p, after, longer) = << sums >>
    BY <1>9 DEF PendingMsgs
  <2> HIDE DEF sums
  <2>6. t = Append(u, sums)
    <3>1. t = u \o << sums >>
      BY <1>4, <2>5 DEF chunk
    <3>2. u \in Seq(Messages)
      BY <1>3, AppendProperties
    <3> HIDE DEF u
    <3> QED
      BY <2>4, <3>1, <3>2, AppendIsConcat
  <2>7. Link(p, longer, sums, y, z) /\ ~IsCut(sums, y)
    BY <1>2, <2>3, <2>4 DEF Link, IsCut
  <2>8. z.total <= Len(longer)
    BY <1>1, <1>2
  <2> HIDE DEF u
  <2>9. Continues(p, longer, s, h, Append(u, sums), z)
    BY <1>2, <1>7, <2>4, <2>7, <2>8, ContinuesOn
  <2> QED
    BY <2>6, <2>9 DEF z
<1> QED
  BY <1>8, <1>9

----------------------------------------------------------------------------
(* Receiving. *)

\* The manager of a receiver that handled the messages up to position x;
\* content is what the sender's hashes were fed, got what the files contain.
Receiver(p, m, x, content, got) ==
  /\ m \in Managers(p) /\ Position(m) = x /\ x \in Positions(p)
  /\ ~m.error /\ m.done = m.next - 1
  /\ m.mode = "Receiving" /\ m.next # End(p)
  /\ got = [k \in 1 .. m.total |-> k]
  /\ \A f \in 1 .. m.next - 1 : FileBytes(p, content, f) = FileBytes(p, got, f)

\* Files that end before total are the same when the content grows.
LEMMA SameBytes ==
  ASSUME NEW p, IsPayload(p), NEW c \in 1 .. End(p), NEW total \in Nat,
         p.start[c] <= total, NEW content, NEW longer,
         \A k \in 1 .. total : longer[k] = content[k],
         NEW f \in 1 .. c - 1
  PROVE  FileBytes(p, longer, f) = FileBytes(p, content, f)
<1>1. /\ f \in 1 .. End(p) /\ f + 1 \in 1 .. End(p) /\ f + 1 <= c
  BY PayloadFacts
<1>2. /\ p.start[f] \in Nat /\ p.start[f + 1] \in Nat /\ p.start[c] \in Nat
      /\ p.start[f + 1] <= p.start[c]
  BY <1>1, PayloadFacts
<1>3. ASSUME NEW j \in 1 .. FileSize(p, f)
      PROVE  p.start[f] + j \in 1 .. total
  <2>1. FileSize(p, f) = p.start[f + 1] - p.start[f]
    BY DEF FileSize
  <2> QED
    BY <1>2, <2>1
<1> QED
  BY <1>3 DEF FileBytes

\* Two contents whose files are the same are the same.
LEMMA SameFiles ==
  ASSUME NEW p, IsPayload(p), NEW content \in Seq(Nat), Len(content) = TotalSize(p),
         \A f \in Files(p) :
           FileBytes(p, content, f) = FileBytes(p, [k \in 1 .. TotalSize(p) |-> k], f)
  PROVE  content = [k \in 1 .. TotalSize(p) |-> k]
<1> DEFINE got == [k \in 1 .. TotalSize(p) |-> k]
<1>1. content \in [1 .. TotalSize(p) -> Nat]
  BY LenProperties
<1>2. ASSUME NEW k \in 1 .. TotalSize(p)
      PROVE  content[k] = k
  <2>1. PICK f \in Files(p) : p.start[f] < k /\ k <= p.start[f + 1]
    BY EveryByteInAFile
  <2>2. f \in 1 .. End(p) /\ f + 1 \in 1 .. End(p)
    BY PayloadFacts DEF Files
  <2>3. p.start[f] \in Nat /\ p.start[f + 1] \in Nat /\ TotalSize(p) \in Nat
    BY <2>2, PayloadFacts
  <2> DEFINE j == k - p.start[f]
  <2>4. FileSize(p, f) = p.start[f + 1] - p.start[f]
    BY DEF FileSize
  <2>5. j \in 1 .. FileSize(p, f) /\ p.start[f] + j = k
    BY <2>1, <2>3, <2>4, SMTT(30)
  <2> HIDE DEF j, got
  <2>6. FileBytes(p, content, f)[j] = content[k] /\ FileBytes(p, got, f)[j] = got[k]
    BY <2>5 DEF FileBytes
  <2>7. FileBytes(p, content, f) = FileBytes(p, got, f)
    BY DEF got
  <2>8. got[k] = k
    BY DEF got
  <2> QED
    BY <2>6, <2>7, <2>8
<1> QED
  BY <1>1, <1>2

\* A chunk leads from a position to one position.
LEMMA SamePosition ==
  ASSUME NEW p, IsPayload(p), NEW x, NEW n, NEW y \in Positions(p), NEW z \in Positions(p),
         AfterChunk(p, x, n, y), AfterChunk(p, x, n, z)
  PROVE  y = z
<1>1. y.total = z.total /\ y.next = z.next
  BY DEF AfterChunk
<1>2. y.current \in 1 .. End(p) /\ z.current \in 1 .. End(p)
  BY DEF Positions
<1>3. StopsAt(p, y.current, y.total) /\ StopsAt(p, z.current, y.total)
  BY <1>1 DEF AfterChunk
<1>4. y.current = z.current
  BY <1>2, <1>3, StopsOnce
<1> QED
  BY <1>1, <1>4 DEF Positions

LEMMA ReceivedMode ==
  ASSUME NEW p, NEW m, NEW n, NEW unreliable, NEW r \in Received(p, m, n, unreliable)
  PROVE  r.error \/ r.mode = m.mode
<1>1. CASE r \in Moved(p, m, n)
  BY <1>1 DEF Moved, Advanced
<1>2. ASSUME NEW f, r = OpenFails(p, m, f)
      PROVE  r.error
  BY <1>2 DEF OpenFails, TransferError, StopTransfer, WithError
<1>3. CASE r = TransferError(p, m)
  BY <1>3 DEF TransferError, StopTransfer, WithError
<1> QED
  BY <1>1, <1>2, <1>3 DEF Received

\* receive_chunk fails, or it follows the sender's stream.
LEMMA ReceiverTakesChunk ==
  ASSUME NEW p, IsPayload(p), NEW m, NEW x, NEW y, NEW content, NEW got,
         Receiver(p, m, x, content, got),
         y \in Positions(p),
         NEW msg, msg.kind = "Chunk", Link(p, content, msg, x, y),
         NEW unreliable, NEW after \in Received(p, m, Len(msg.data), unreliable),
         NEW longer, longer = Extend(got, m.total, after.total - m.total, msg.data)
  PROVE  /\ ChunkFits(p, m, Len(msg.data))
         /\ after.done = m.done
         /\ \/ after.error
            \/ /\ ~after.error /\ after.mode = "Receiving"
               /\ IsWhole(msg, x) => Receiver(p, after, y, content, longer)
<1> DEFINE n == Len(msg.data)
<1>1. /\ m \in Managers(p) /\ x \in Positions(p) /\ Position(m) = x /\ m.total \in Nat
      /\ x.total = m.total /\ n \in 1 .. Remaining(p, m) /\ n \in Nat
      /\ m.total <= TotalSize(p) /\ TotalSize(p) \in Nat
      /\ p.start[m.current] <= m.total /\ m.current \in 1 .. End(p)
      /\ m.next \in 1 .. End(p) /\ m.next <= m.current /\ End(p) \in Nat
  BY PayloadFacts DEF Receiver, Managers, Position, Positions, Remaining, Link
<1> HIDE DEF n
<1>2. n <= Remaining(p, m)
  BY <1>1, PayloadFacts DEF Remaining
<1>3. after \in Moved(p, m, n) \/ (after.error /\ after.done = m.done)
  BY <1>1, <1>2, ReceivedChunk DEF n
<1>4. CASE after \in Moved(p, m, n)
  <2>1. /\ after \in Managers(p)
        /\ after.mode = m.mode /\ after.next = m.next
        /\ after.done = m.done /\ after.error = m.error
        /\ after.total = m.total + n
        /\ Position(after) \in Positions(p)
        /\ AfterChunk(p, x, n, Position(after))
    BY <1>1, <1>4, MovedPosition
  <2>2. ~after.error /\ after.mode = "Receiving"
    BY <2>1 DEF Receiver
  <2>3. ASSUME IsWhole(msg, x)
        PROVE  Receiver(p, after, y, content, longer)
    <3>1. AfterChunk(p, x, n, y)
      BY <2>3 DEF Link, n
    <3>2. Position(after) = y
      BY <1>1, <2>1, <3>1, SamePosition
    <3>3. longer = [k \in 1 .. after.total |-> k]
      <4>1. after.total - m.total = n
        BY <1>1, <2>1
      <4>2. longer = Extend(got, m.total, n, Span(m.total, n, {}))
        <5>1. msg.data = Span(m.total, n, {})
          BY <1>1, <2>3 DEF IsWhole, n
        <5> QED
          BY <4>1, <5>1
      <4>3. got = [k \in 1 .. m.total |-> k]
        BY DEF Receiver
      <4>4. longer = [k \in 1 .. m.total + n |->
                        IF k <= m.total THEN got[k] ELSE Span(m.total, n, {})[k - m.total]]
        BY <4>2 DEF Extend
      <4>5. ASSUME NEW k \in 1 .. m.total + n
            PROVE  (IF k <= m.total THEN got[k] ELSE Span(m.total, n, {})[k - m.total]) = k
        <5>1. CASE k <= m.total
          BY <1>1, <4>3, <5>1
        <5>2. CASE ~(k <= m.total)
          <6>1. k - m.total \in 1 .. n
            BY <1>1, <5>2
          <6>2. Span(m.total, n, {})[k - m.total] = m.total + (k - m.total)
            BY <6>1 DEF Span
          <6> QED
            BY <1>1, <5>2, <6>2
        <5> QED
          BY <5>1, <5>2
      <4> QED
        BY <2>1, <4>4, <4>5
    <3>4. ASSUME NEW f \in 1 .. after.next - 1
          PROVE  FileBytes(p, content, f) = FileBytes(p, longer, f)
      <4>1. f \in 1 .. m.next - 1 /\ f \in 1 .. m.current - 1
        BY <1>1, <2>1
      <4>2. \A k \in 1 .. m.total : longer[k] = got[k]
        <5>1. got = [k \in 1 .. m.total |-> k]
          BY DEF Receiver
        <5>2. \A k \in 1 .. m.total : k \in 1 .. after.total
          BY <1>1, <2>1
        <5> QED
          BY <3>3, <5>1, <5>2
      <4>3. FileBytes(p, longer, f) = FileBytes(p, got, f)
        <5>1. /\ m.current \in 1 .. End(p) /\ m.total \in Nat
              /\ p.start[m.current] <= m.total
          BY <1>1
        <5> QED
          BY <4>1, <4>2, <5>1, SameBytes, ZenonT(60)
      <4>4. \A g \in 1 .. m.next - 1 : FileBytes(p, content, g) = FileBytes(p, got, g)
        BY DEF Receiver
      <4> QED
        BY <4>1, <4>3, <4>4
    <3> QED
      BY <2>1, <2>2, <3>2, <3>3, <3>4 DEF Receiver
  <2> QED
    BY <1>2, <2>1, <2>2, <2>3 DEF ChunkFits, n
<1> QED
  BY <1>2, <1>3, <1>4 DEF ChunkFits, n

\* The manager of a receiver that has tested its last checksum, at position x.
Finished(p, m, x, content, got) ==
  /\ ~m.error /\ IsTransferComplete(p, m) /\ Position(m) = x
  /\ x.next = End(p) /\ x.current = End(p) /\ x.total = TotalSize(p)
  /\ m.done = p.nb /\ m.total = TotalSize(p)
  /\ got = [k \in 1 .. TotalSize(p) |-> k]
  /\ \A f \in Files(p) :
       FileBytes(p, content, f) = FileBytes(p, [k \in 1 .. TotalSize(p) |-> k], f)

\* test_checksums fails, or it follows the sender's stream, and closes the
\* transfer with the last checksum.
LEMMA ReceiverTakesChecksums ==
  ASSUME NEW p, IsPayload(p), NEW m, NEW x, NEW y, NEW content, NEW got,
         Receiver(p, m, x, content, got),
         NEW msg, msg.kind = "Checksums", Link(p, content, msg, x, y),
         NEW r \in TestChecksums(p, m, got, msg.sums)
  PROVE  /\ Len(msg.sums) <= PendingChecksums(m)
         /\ \/ r.error /\ r.done < p.nb
            \/ Receiver(p, r, y, content, got)
            \/ Finished(p, r, y, content, got)
<1>1. /\ m \in Managers(p) /\ x \in Positions(p) /\ Position(m) = x /\ m.total \in Nat
      /\ x.total = m.total /\ x.current = m.current /\ x.next = m.next
      /\ m.total <= TotalSize(p) /\ TotalSize(p) \in Nat
      /\ p.start[m.current] <= m.total /\ m.current \in 1 .. End(p)
      /\ m.next \in 1 .. End(p) /\ m.next <= m.current /\ End(p) \in Nat
      /\ End(p) = p.nb + 1 /\ p.nb \in Nat
      /\ ~m.error /\ m.done = m.next - 1 /\ m.mode = "Receiving"
  BY PayloadFacts DEF Receiver, Managers, Position, Positions
<1>2. m.next < m.current /\ msg.sums = ChecksumsAt(p, content, x) /\ y = AfterChecksums(x)
  BY <1>1 DEF Link
<1>3. Len(msg.sums) <= PendingChecksums(m)
  <2>1. Len(msg.sums) = m.current - m.next
    BY <1>1, <1>2, LenOfChecksums
  <2> QED
    BY <1>1, <2>1 DEF PendingChecksums
<1>4. \/ /\ r = Checksummed(p, m, PendingChecksums(m))
         /\ \A f \in m.next .. m.current - 1 :
              FileBytes(p, content, f) = FileBytes(p, got, f)
      \/ r.error /\ r.done \in Nat /\ r.done < m.done + (m.current - m.next)
  BY <1>1, <1>2, TestedChecksums
<1>5. CASE r.error /\ r.done \in Nat /\ r.done < m.done + (m.current - m.next)
  <2>1. r.done < p.nb
    BY <1>1, <1>5
  <2> QED
    BY <1>3, <1>5, <2>1
<1>6. CASE /\ r = Checksummed(p, m, PendingChecksums(m))
           /\ \A f \in m.next .. m.current - 1 :
                FileBytes(p, content, f) = FileBytes(p, got, f)
  <2>1. /\ r \in Managers(p)
        /\ Position(r) = y /\ y \in Positions(p)
        /\ r.total = m.total /\ r.error = m.error
        /\ r.done = m.done + (m.current - m.next)
        /\ r.mode = IF m.current = End(p) THEN "Closed" ELSE m.mode
    BY <1>1, <1>2, <1>6, ChecksummedPosition
  <2>2. r.next = m.current /\ y.next = m.current /\ y.current = m.current /\ r.done = m.current - 1
    BY <1>1, <1>2, <2>1 DEF Position, AfterChecksums
  <2>3. \A f \in 1 .. m.current - 1 : FileBytes(p, content, f) = FileBytes(p, got, f)
    <3>1. \A f \in 1 .. m.next - 1 : FileBytes(p, content, f) = FileBytes(p, got, f)
      BY DEF Receiver
    <3> QED
      BY <1>1, <1>6, <3>1
  <2>4. got = [k \in 1 .. m.total |-> k]
    BY DEF Receiver
  <2>5. CASE m.current # End(p)
    <3>1. r.mode = "Receiving" /\ ~r.error
      BY <1>1, <2>1, <2>5
    <3>2. Receiver(p, r, y, content, got)
      BY <1>1, <2>1, <2>2, <2>3, <2>4, <2>5, <3>1 DEF Receiver
    <3> QED
      BY <1>3, <3>2
  <2>6. CASE m.current = End(p)
    <3>1. m.total = TotalSize(p)
      BY <1>1, <2>6, PayloadFacts
    <3>2. IsTransferComplete(p, r) /\ ~r.error /\ r.done = p.nb
      BY <1>1, <2>1, <2>2, <2>6, <3>1 DEF IsTransferComplete
    <3>3. y.total = TotalSize(p)
      BY <1>1, <1>2, <3>1 DEF AfterChecksums
    <3>4. Files(p) = 1 .. m.current - 1
      BY <1>1, <2>6 DEF Files
    <3>5. got = [k \in 1 .. TotalSize(p) |-> k]
      BY <2>4, <3>1
    <3>6. \A f \in Files(p) :
            FileBytes(p, content, f) = FileBytes(p, [k \in 1 .. TotalSize(p) |-> k], f)
      BY <2>3, <3>4, <3>5
    <3>7. Finished(p, r, y, content, got)
      BY <2>1, <2>2, <2>6, <3>1, <3>2, <3>3, <3>5, <3>6 DEF Finished
    <3> QED
      BY <1>3, <3>7
  <2> QED
    BY <2>5, <2>6
<1> QED
  BY <1>4, <1>5, <1>6

\* What the sender hashes next does not concern what the receiver has tested.
LEMMA ReceiverWaits ==
  ASSUME NEW p, IsPayload(p), NEW m, NEW x, NEW content, NEW got,
         Receiver(p, m, x, content, got), Len(content) \in Nat, x.total <= Len(content),
         NEW longer, \A k \in 1 .. Len(content) : longer[k] = content[k]
  PROVE  Receiver(p, m, x, longer, got)
<1>1. /\ m \in Managers(p) /\ x \in Positions(p) /\ Position(m) = x
      /\ \A f \in 1 .. m.next - 1 : FileBytes(p, content, f) = FileBytes(p, got, f)
  BY DEF Receiver
<1>2. /\ x.total \in Nat /\ x.next = m.next /\ x.current \in 1 .. End(p)
      /\ x.next \in 1 .. End(p) /\ x.next <= x.current /\ End(p) \in Nat
      /\ p.start[x.current] <= x.total
  BY <1>1, PayloadFacts DEF Position, Positions
<1>3. ASSUME NEW f \in 1 .. m.next - 1
      PROVE  FileBytes(p, longer, f) = FileBytes(p, got, f)
  <2>1. f \in 1 .. x.current - 1
    BY <1>2
  <2>2. \A k \in 1 .. x.total : longer[k] = content[k]
    BY <1>2
  <2>3. FileBytes(p, longer, f) = FileBytes(p, content, f)
    <3>1. PICK c \in 1 .. End(p), total \in Nat : c = x.current /\ total = x.total
      BY <1>2
    <3>2. /\ f \in 1 .. c - 1 /\ p.start[c] <= total
          /\ \A k \in 1 .. total : longer[k] = content[k]
      BY <1>2, <2>1, <2>2, <3>1
    <3> QED
      BY <3>2, SameBytes
  <2> QED
    BY <1>1, <2>3
<1> QED
  BY <1>3 DEF Receiver
----------------------------------------------------------------------------
(* What a handler does is always defined. *)

\* The loop of a chunk always stops somewhere.
LEMMA MovedExists ==
  ASSUME NEW p, IsPayload(p), NEW m \in Managers(p), Position(m) \in Positions(p),
         NEW n \in 1 .. Remaining(p, m)
  PROVE  Moved(p, m, n) # {}
<1>1. /\ m.total \in Nat /\ m.current \in 1 .. End(p) /\ End(p) \in Nat /\ n \in Nat /\ n > 0
      /\ p.start[m.current] <= m.total
  BY PayloadFacts DEF Managers, Position, Positions, Remaining
<1>2. PICK t \in Nat : t = m.total + n
  BY <1>1
<1> DEFINE T == {d \in m.current .. End(p) : d = End(p) \/ ~Passed(p, d, t)}
<1>3. End(p) \in T /\ T \in SUBSET Nat
  BY <1>1
<1>4. PICK c \in T : \A d \in T : c <= d
  BY <1>3, Smallest
<1>5. c \in m.current .. End(p) /\ (c = End(p) \/ ~Passed(p, c, t))
  BY <1>4
<1>6. ASSUME NEW i \in 1 .. c - 1
      PROVE  Passed(p, i, t)
  <2>1. i \in 1 .. End(p) /\ i + 1 \in 1 .. End(p) /\ i < c
    <3>1. c \in Nat /\ c <= End(p)
      BY <1>1, <1>5
    <3> HIDE DEF T
    <3> QED
      BY <1>1, <3>1
  <2>2. CASE i < m.current
    <3>1. /\ p.start[i] \in Nat /\ p.start[i + 1] \in Nat /\ p.start[m.current] \in Nat
          /\ p.start[i] <= p.start[m.current] /\ p.start[i + 1] <= p.start[m.current]
      <4>1. i <= m.current /\ i + 1 <= m.current
        BY <1>1, <2>1, <2>2
      <4> HIDE DEF T
      <4> QED
        BY <1>1, <2>1, <4>1, PayloadFacts
    <3> QED
      BY <1>1, <1>2, <3>1 DEF Passed
  <2>3. CASE i >= m.current
    <3>1. i \in m.current .. End(p) /\ i \notin T
      BY <1>1, <1>4, <1>5, <2>1, <2>3
    <3> QED
      BY <3>1
  <2> QED
    BY <1>1, <2>1, <2>2, <2>3
<1>7. c \in Files(p) => ~Passed(p, c, t)
  BY <1>1, <1>5, PayloadFacts DEF Files
<1>8. StopsAt(p, c, m.total + n)
  BY <1>2, <1>6, <1>7 DEF StopsAt
<1>9. c \in {d \in m.current .. End(p) : StopsAt(p, d, m.total + n)}
  BY <1>5, <1>8
<1> HIDE DEF T
<1> QED
  BY <1>9 DEF Moved

\* test_checksums accepts them all, or stops at the first that differs.
LEMMA TestEnds ==
  ASSUME NEW p, NEW m, NEW content, NEW sums, Len(sums) \in Nat
  PROVE  TestChecksums(p, m, content, sums) # {}
<1>1. CASE Matching(p, m, content, sums, Len(sums))
  BY <1>1 DEF TestChecksums
<1>2. CASE ~Matching(p, m, content, sums, Len(sums))
  <2> DEFINE T == {k \in 0 .. Len(sums) : ~Matching(p, m, content, sums, k)}
  <2>1. Len(sums) \in T /\ T \in SUBSET Nat
    BY <1>2
  <2>2. PICK k \in T : \A j \in T : k <= j
    BY <2>1, Smallest
  <2>3. k \in 0 .. Len(sums) /\ ~Matching(p, m, content, sums, k)
    BY <2>2
  <2>4. Matching(p, m, content, sums, 0)
    BY DEF Matching
  <2>5. k # 0
    BY <2>3, <2>4
  <2>6. k - 1 \in 0 .. Len(sums) - 1 /\ (k - 1) + 1 = k /\ k - 1 \in 0 .. Len(sums)
    BY <2>3, <2>5
  <2>7. Matching(p, m, content, sums, k - 1)
    <3>1. k - 1 \notin T
      BY <2>2, <2>6
    <3> QED
      BY <2>6, <3>1
  <2> HIDE DEF T
  <2>8. k - 1 \in {i \in 0 .. Len(sums) - 1 :
                     /\ Matching(p, m, content, sums, i)
                     /\ ~Matching(p, m, content, sums, i + 1)}
    BY <2>3, <2>6, <2>7
  <2> QED
    BY <1>2, <2>8 DEF TestChecksums
<1> QED
  BY <1>1, <1>2
=============================================================================
