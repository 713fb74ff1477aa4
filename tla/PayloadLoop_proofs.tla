------------------------- MODULE PayloadLoop_proofs -------------------------
(* Proofs about PayloadLoop: for every payload and every chunk size, the   *)
(* loop of send_next_chunk and receive_chunk does what Moved, Opens and    *)
(* OpenFails say.                                                          *)
EXTENDS PayloadLoop, TLAPS

Inv == TypeOK /\ LoopInv

(* What a payload guarantees about two of its offsets. *)
LEMMA PayloadFacts ==
  ASSUME payload \in Payloads
  PROVE  /\ payload.nb \in Nat /\ payload.nb > 0
         /\ End(payload) \in 1 .. payload.nb + 1
         /\ payload.start \in [1 .. payload.nb + 1 -> Nat]
         /\ payload.start[1] = 0
         /\ \A i, j \in 1 .. payload.nb + 1 :
              i <= j => payload.start[i] <= payload.start[j]
         /\ TotalSize(payload) \in Nat
         /\ \A i \in 1 .. payload.nb + 1 : payload.start[i] <= TotalSize(payload)
  BY PayloadsAssumption DEF IsPayload, End, TotalSize

(* The manager and the loop's variables are in a correct initial state. *)
LEMMA InitInv == Init => Inv
  <1> SUFFICES ASSUME Init PROVE Inv
    OBVIOUS
  <1>1. payload \in Payloads /\ before = m /\ left = 0 /\ size = 0
        /\ isOpen = FALSE /\ pos = 0 /\ opened = {}
    BY DEF Init
  <1>2. PICK mode \in {"Sending", "Receiving"} : m = StartTransfer(NewManager(payload), mode)
    BY DEF Init
  <1>3. m = [mode |-> mode, current |-> 1, next |-> 1, total |-> 0, done |-> 0,
             error |-> FALSE]
    BY <1>2 DEF StartTransfer, NewManager
  <1>4. TypeOK
    <2>1. m \in Managers(payload)
      BY <1>1, <1>3, PayloadFacts DEF Managers, Modes, End
    <2> QED
      BY <1>1, <2>1 DEF TypeOK
  <1>5. LoopInv
    <2>1. m = Advanced(before, m.current, size - left)
      BY <1>1, <1>3 DEF Advanced
    <2>2. m.current = 1 /\ m.total = 0
      BY <1>3
    <2> QED
      BY <1>1, <2>1, <2>2, PayloadFacts DEF LoopInv
  <1> QED
    BY <1>4, <1>5 DEF Inv

(* Begin starts a chunk where the previous one ended. *)
LEMMA BeginInv == Inv /\ Begin => Inv'
  <1> SUFFICES ASSUME Inv, Begin PROVE Inv'
    OBVIOUS
  <1>1. PICK n \in ChunkSizes : n > 0 /\ left' = n /\ size' = n
    BY DEF Begin
  <1>2. payload \in Payloads /\ m \in Managers(payload) /\ left = 0
    BY DEF Inv, TypeOK, Begin
  <1>3. /\ before' = m /\ opened' = {} /\ m' = m /\ payload' = payload
        /\ isOpen' = isOpen /\ pos' = pos
    BY DEF Begin
  <1>4. m.total \in Nat /\ m.current \in 1 .. payload.nb + 1
    BY <1>2 DEF Managers, End
  <1>5. m.total <= TotalSize(payload)
    <2>1. m.total + left <= TotalSize(payload)
      BY DEF Inv, LoopInv
    <2> QED
      BY <1>2, <1>4, <2>1, PayloadFacts
  <1>6. n \in Nat /\ m.total + n <= TotalSize(payload)
    BY <1>2, <1>4, <1>5, PayloadFacts, ChunkSizeAssumption
    DEF ChunkSizes, NextChunkSize, Remaining, ChunkFits
  <1>7. TypeOK'
    BY <1>1, <1>2, <1>3, <1>6 DEF Inv, TypeOK
  <1>8. (m = Advanced(before, m.current, size - left))'
    BY <1>1, <1>2, <1>3, <1>4, <1>6 DEF Managers, Advanced
  <1>9. \A i \in 1 .. m.current - 1 :
          payload.start[i] < m.total + n /\ payload.start[i + 1] <= m.total
    <2> SUFFICES ASSUME NEW i \in 1 .. m.current - 1
                 PROVE  payload.start[i] < m.total + n /\ payload.start[i + 1] <= m.total
      OBVIOUS
    <2>1. payload.start[i] < m.total + left /\ payload.start[i + 1] <= m.total
      BY DEF Inv, LoopInv
    <2>2. payload.start[i] \in Nat
      BY <1>2, <1>4, PayloadFacts
    <2> QED
      BY <1>1, <1>2, <1>4, <1>6, <2>1, <2>2
  <1>10. isOpen => m.total > payload.start[m.current]
    BY <1>2, <1>4, PayloadFacts, SMTT(60) DEF Inv, LoopInv, TypeOK
  <1>11. opened' = {f \in m.current .. payload.nb :
                      /\ m.total <= payload.start[f]
                      /\ f < m.current \/ (f = m.current /\ isOpen)}
    <2> SUFFICES ASSUME NEW f \in m.current .. payload.nb,
                        m.total <= payload.start[f], f = m.current, isOpen
                 PROVE  FALSE
      BY <1>3, <1>4
    <2> QED
      BY <1>2, <1>4, <1>10, PayloadFacts
  <1>12. LoopInv'
    BY <1>1, <1>2, <1>3, <1>4, <1>6, <1>8, <1>9, <1>11 DEF Inv, LoopInv, TypeOK
  <1> QED
    BY <1>7, <1>12 DEF Inv

(* One iteration of the loop. *)
LEMMA IterateInv == Inv /\ Iterate => Inv'
  <1> SUFFICES ASSUME Inv, Iterate PROVE Inv'
    OBVIOUS
  <1> DEFINE q == IF isOpen THEN pos ELSE 0
             n == MovedBytes(q)
             cur == m.current
             first == payload.start[cur]
             last == payload.start[cur + 1]
             atEnd == q + n = FileSize(payload, cur)
             next == IF atEnd THEN cur + 1 ELSE cur
  <1>1. /\ payload \in Payloads /\ m \in Managers(payload)
        /\ before \in Managers(payload)
        /\ isOpen \in BOOLEAN /\ pos \in Nat /\ left \in Nat /\ size \in Nat
        /\ left > 0
    BY DEF Inv, TypeOK, Iterate
  <1>2. /\ cur \in 1 .. payload.nb
        /\ opened' = IF isOpen THEN opened ELSE opened \cup {cur}
        /\ pos' = q + n /\ left' = left - n
        /\ isOpen' = ~atEnd
        /\ m' = Advanced(m, next, n)
        /\ payload' = payload /\ before' = before /\ size' = size
    BY DEF Iterate, Files
  <1>3. /\ first \in Nat /\ last \in Nat /\ first <= last
        /\ payload.nb \in Nat /\ cur \in Nat
        /\ FileSize(payload, cur) = last - first
        /\ m.total \in Nat /\ before.total \in Nat /\ before.current \in Nat
    <2>1. payload.nb \in Nat /\ cur \in 1 .. payload.nb + 1 /\ cur + 1 \in 1 .. payload.nb + 1
      BY <1>1, <1>2, PayloadFacts
    <2>2. first \in Nat /\ last \in Nat /\ first <= last
      <3>1. cur <= cur + 1
        BY <2>1
      <3>2. payload.start \in [1 .. payload.nb + 1 -> Nat]
        BY <1>1, PayloadFacts
      <3>3. \A i, j \in 1 .. payload.nb + 1 :
              i <= j => payload.start[i] <= payload.start[j]
        BY <1>1, PayloadFacts
      <3> QED
        BY <2>1, <3>1, <3>2, <3>3
    <2>3. m.total \in Nat /\ before.total \in Nat /\ before.current \in 1 .. payload.nb + 1
      BY <1>1 DEF Managers, End
    <2> QED
      BY <2>1, <2>2, <2>3 DEF FileSize
  <1>4. /\ q \in Nat /\ m.total = first + q /\ q <= last - first
        /\ isOpen => q > 0 /\ left = size
    BY <1>1, <1>3 DEF Inv, LoopInv
  <1>5. /\ n \in Nat /\ n <= left
        /\ n <= (last - first) - q
        /\ n = left \/ n = (last - first) - q
    BY <1>1, <1>3, <1>4 DEF MovedBytes
  <1>6. /\ m'.current = next /\ m'.total = m.total + n
        /\ next \in 1 .. payload.nb + 1
    BY <1>2, <1>3 DEF Advanced
  <1>61. \/ /\ isOpen' = FALSE /\ m'.current = cur + 1
            /\ q + n = last - first
         \/ /\ isOpen' = TRUE /\ m'.current = cur
            /\ q + n < last - first /\ n = left
    <2>1. CASE atEnd
      BY <1>2, <1>3, <1>6, <2>1
    <2>2. CASE ~atEnd
      <3>1. isOpen' = TRUE
        BY <1>2, <2>2
      <3>2. m'.current = cur
        BY <1>6, <2>2
      <3>3. q + n # last - first
        BY <1>3, <2>2
      <3> HIDE DEF q, n
      <3>4. q + n < last - first /\ n = left
        BY <1>1, <1>3, <1>4, <1>5, <3>3
      <3> QED
        BY <3>1, <3>2, <3>4
    <2> QED
      BY <2>1, <2>2
  <1>7. m'.total + left' = m.total + left
    BY <1>1, <1>2, <1>3, <1>5, <1>6
  <1> HIDE DEF n, q
  <1>8. TypeOK'
    <2>1. m' \in Managers(payload)
      BY <1>1, <1>2, <1>3, <1>5, <1>6 DEF Managers, Advanced, End
    <2>2. opened' \subseteq Files(payload)
      BY <1>2 DEF Inv, TypeOK, Files
    <2> QED
      BY <1>1, <1>2, <1>3, <1>4, <1>5, <2>1, <2>2 DEF TypeOK
  <1>9. (m = Advanced(before, m.current, size - left))'
    <2>1. m = Advanced(before, cur, size - left)
      BY DEF Inv, LoopInv
    <2>2. /\ m.mode = before.mode /\ m.next = before.next
          /\ m.total = before.total + (size - left)
          /\ m.done = before.done /\ m.error = before.error
      BY <2>1 DEF Advanced
    <2> QED
      BY <1>1, <1>2, <1>3, <1>5, <2>2 DEF Advanced
  <1>10. ASSUME NEW i \in 1 .. next - 1
         PROVE  payload.start[i] < m'.total + left' /\ payload.start[i + 1] <= m'.total
    <2>1. CASE i \in 1 .. cur - 1
      <3>1. payload.start[i] < m.total + left /\ payload.start[i + 1] <= m.total
        BY <2>1 DEF Inv, LoopInv
      <3>2. i \in 1 .. payload.nb + 1 /\ i + 1 \in 1 .. payload.nb + 1
        BY <1>2, <1>3, <2>1
      <3>3. payload.start[i] \in Nat /\ payload.start[i + 1] \in Nat
        BY <1>1, <3>2, PayloadFacts
      <3> QED
        BY <1>3, <1>5, <1>6, <1>7, <3>1, <3>3
    <2>2. CASE i = cur /\ atEnd
      BY <1>1, <1>3, <1>4, <1>5, <1>6, <1>7, <2>2
    <2> QED
      BY <1>3, <2>1, <2>2
  <1>11. ~isOpen' => m'.total = payload.start[m'.current]
    BY <1>3, <1>4, <1>5, <1>6, <1>61
  <1>12. isOpen' => /\ m'.current \in 1 .. payload.nb
                    /\ m'.total = payload.start[m'.current] + pos'
                    /\ 0 < pos' /\ m'.total < payload.start[m'.current + 1]
                    /\ left' = 0
    BY <1>1, <1>2, <1>3, <1>4, <1>5, <1>6, <1>61
  <1>13. opened' = {f \in before.current .. payload.nb :
                      /\ before.total <= payload.start[f]
                      /\ f < m'.current \/ (f = m'.current /\ isOpen')}
    <2>1. opened = {f \in before.current .. payload.nb :
                      /\ before.total <= payload.start[f]
                      /\ f < cur \/ (f = cur /\ isOpen)}
      BY DEF Inv, LoopInv
    <2>2. before.current <= cur
      BY DEF Inv, LoopInv
    <2>3. m.total = before.total + (size - left) /\ left <= size
      BY <1>3 DEF Inv, LoopInv, Advanced
    <2>4. isOpen => ~(before.total <= first)
      BY <1>1, <1>3, <1>4, <2>3
    <2>5. ~isOpen => before.total <= first
      BY <1>1, <1>3, <1>4, <2>3 DEF q
    <2>6. \A f \in before.current .. payload.nb :
            (f < m'.current \/ (f = m'.current /\ isOpen')) <=> (f < cur \/ f = cur)
      BY <1>3, <1>61
    <2> QED
      BY <1>2, <1>3, <2>1, <2>2, <2>4, <2>5, <2>6
  <1>14. LoopInv'
    <2>1. left' <= size' /\ m'.total + left' <= TotalSize(payload')
      BY <1>1, <1>2, <1>3, <1>5, <1>7 DEF Inv, LoopInv
    <2>2. before'.current <= m'.current
      BY <1>2, <1>3, <1>6 DEF Inv, LoopInv
    <2> QED
      <3>1. m' = Advanced(before', m'.current, size' - left')
        BY <1>9
      <3>2. \A i \in 1 .. m'.current - 1 :
              /\ payload'.start[i] < m'.total + left'
              /\ payload'.start[i + 1] <= m'.total
        BY <1>2, <1>6, <1>10
      <3>3. ~isOpen' => m'.total = payload'.start[m'.current]
        BY <1>2, <1>11
      <3>4. isOpen' =>
              /\ m'.current \in Files(payload')
              /\ m'.total = payload'.start[m'.current] + pos'
              /\ 0 < pos' /\ m'.total < payload'.start[m'.current + 1]
              /\ left' > 0 => left' = size'
        BY <1>2, <1>12 DEF Files
      <3>5. opened' = {f \in before'.current .. payload'.nb :
                         /\ before'.total <= payload'.start[f]
                         /\ f < m'.current \/ (f = m'.current /\ isOpen')}
        BY <1>2, <1>13
      <3> QED
        BY <2>1, <2>2, <3>1, <3>2, <3>3, <3>4, <3>5 DEF LoopInv
  <1> QED
    BY <1>8, <1>14 DEF Inv

(* The invariant of the loop holds for every payload and chunk size. *)
THEOREM LoopInvariant == Spec => []Inv
  <1>1. Inv /\ UNCHANGED vars => Inv'
    BY DEF Inv, TypeOK, LoopInv, vars
  <1>2. Inv /\ [Next]_vars => Inv'
    BY <1>1, BeginInv, IterateInv DEF Next
  <1> QED
    BY <1>2, InitInv, PTL DEF Spec

----------------------------------------------------------------------------
(* What the loop has done when it ends.  Files before the current one are  *)
(* passed; the current one is open, hence not finished, or starts exactly  *)
(* where the chunk ended.                                                  *)
LEMMA InvLoopMoves == Inv => LoopMoves
  <1> SUFFICES ASSUME Inv, left = 0, size > 0
               PROVE  m \in Moved(payload, before, size) /\ opened = Opens(payload, before, size)
    BY DEF LoopMoves
  <1> DEFINE cur == m.current
             t == before.total + size
  <1>1. /\ payload \in Payloads /\ payload.nb \in Nat
        /\ before.total \in Nat /\ size \in Nat /\ isOpen \in BOOLEAN
        /\ cur \in 1 .. payload.nb + 1
        /\ before.current \in 1 .. payload.nb + 1 /\ before.current <= cur
    BY PayloadFacts DEF Inv, TypeOK, LoopInv, Managers, End
  <1>2. m = Advanced(before, cur, size) /\ m.total = t
    BY <1>1 DEF Inv, LoopInv, Advanced
  <1>3. \A i \in 1 .. payload.nb + 1 : payload.start[i] \in Nat
    BY <1>1, PayloadFacts
  <1>4. \A i \in 1 .. cur - 1 : payload.start[i] < t /\ payload.start[i + 1] <= t
    BY <1>1, <1>2, <1>3 DEF Inv, LoopInv
  <1>5. \/ /\ ~isOpen /\ payload.start[cur] = t
        \/ /\ isOpen /\ cur \in 1 .. payload.nb
           /\ payload.start[cur] < t /\ t < payload.start[cur + 1]
    <2>1. CASE ~isOpen
      BY <1>2, <2>1 DEF Inv, LoopInv
    <2>2. CASE isOpen
      <3>1. /\ cur \in 1 .. payload.nb /\ m.total = payload.start[cur] + pos
            /\ 0 < pos /\ m.total < payload.start[cur + 1]
        BY <2>2 DEF Inv, LoopInv, Files
      <3>2. pos \in Nat /\ payload.start[cur] \in Nat
        BY <1>1, <1>3 DEF Inv, TypeOK
      <3> QED
        BY <1>2, <2>2, <3>1, <3>2
    <2> QED
      BY <2>1, <2>2
  <1>6. StopsAt(payload, cur, t)
    <2>1. \A i \in 1 .. cur - 1 : Passed(payload, i, t)
      BY <1>4 DEF Passed
    <2>2. cur \in Files(payload) => ~Passed(payload, cur, t)
      <3> SUFFICES ASSUME cur \in 1 .. payload.nb PROVE ~Passed(payload, cur, t)
        BY DEF Files
      <3>1. payload.start[cur] \in Nat /\ payload.start[cur + 1] \in Nat
        BY <1>1, <1>3
      <3> QED
        BY <1>1, <1>5, <3>1 DEF Passed
    <2> QED
      BY <2>1, <2>2 DEF StopsAt
  <1>7. m \in Moved(payload, before, size)
    BY <1>1, <1>2, <1>6 DEF Moved, End
  <1>8. ASSUME NEW f \in before.current .. payload.nb
        PROVE  payload.start[f] < t <=> (f < cur \/ (f = cur /\ isOpen))
    <2>1. f \in 1 .. payload.nb + 1 /\ payload.start[f] \in Nat /\ t \in Nat
      BY <1>1, <1>3
    <2>2. CASE f < cur
      <3>1. f \in 1 .. cur - 1
        BY <1>1, <2>1, <2>2
      <3> QED
        BY <1>4, <2>2, <3>1
    <2>3. CASE f = cur
      BY <1>5, <2>1, <2>3
    <2>4. CASE f > cur
      <3>1. payload.start[cur] >= t \/ payload.start[cur + 1] >= t
        BY <1>1, <1>3, <1>5, <2>1
      <3>2. cur + 1 \in 1 .. payload.nb + 1 /\ cur <= f /\ cur + 1 <= f
        BY <1>1, <2>1, <2>4
      <3>3. payload.start[f] >= payload.start[cur] /\ payload.start[f] >= payload.start[cur + 1]
        BY <1>1, <2>1, <3>2, PayloadFacts
      <3> QED
        BY <1>1, <1>3, <2>1, <2>4, <3>1, <3>2, <3>3
    <2> QED
      BY <1>1, <2>1, <2>2, <2>3, <2>4
  <1>9. opened = {f \in before.current .. payload.nb :
                    before.total <= payload.start[f]
                    /\ (f < cur \/ (f = cur /\ isOpen))}
    BY DEF Inv, LoopInv
  <1> HIDE DEF cur
  <1>10. opened = Opens(payload, before, size)
    BY <1>8, <1>9 DEF Opens
  <1> QED
    BY <1>7, <1>10

(* For every payload, chunk size and place where a chunk starts, the loop  *)
(* moves the manager as Moved says and opens the files of Opens: the other *)
(* modules may take a chunk in one step (send_next_chunk, receive_chunk).  *)
THEOREM LoopIsMoved == Spec => []LoopMoves
  BY LoopInvariant, InvLoopMoves, PTL

(* The loop never dereferences files.end () while bytes are left: the      *)
(* assertion inside the loops of send_next_chunk and receive_chunk.        *)
THEOREM LoopStaysInside == Spec => []NeverPastTheEnd
  <1>1. ASSUME Inv, left > 0 PROVE m.current \in Files(payload)
    <2>1. /\ payload \in Payloads /\ payload.nb \in Nat /\ left \in Nat
          /\ m.current \in 1 .. payload.nb + 1 /\ m.total \in Nat
          /\ isOpen \in BOOLEAN
      BY <1>1, PayloadFacts DEF Inv, TypeOK, Managers, End
    <2>2. CASE isOpen
      BY <1>1, <2>2 DEF Inv, LoopInv
    <2>3. CASE ~isOpen
      <3>1. m.total = payload.start[m.current]
        BY <1>1, <2>3 DEF Inv, LoopInv
      <3>2. m.total + left <= TotalSize(payload)
        BY <1>1 DEF Inv, LoopInv
      <3>3. m.current # payload.nb + 1
        BY <1>1, <2>1, <3>1, <3>2, PayloadFacts DEF TotalSize, End
      <3> QED
        BY <2>1, <3>3 DEF Files
    <2> QED
      BY <2>1, <2>2, <2>3
  <1>2. Inv => NeverPastTheEnd
    BY <1>1 DEF NeverPastTheEnd
  <1> QED
    BY <1>2, LoopInvariant, PTL

(* A file is opened when everything before it has been processed: what an  *)
(* error of File::open leaves behind, as OpenFails says.                   *)
THEOREM OpensInOrder == Spec => []OpensAtFirstByte
  <1>1. ASSUME Inv, left > 0, ~isOpen, m.current \in Files(payload)
        PROVE  /\ m.current \in Opens(payload, before, size)
               /\ m.total = payload.start[m.current]
    <2>1. m.total = payload.start[m.current]
      BY <1>1 DEF Inv, LoopInv
    <2>2. /\ before.total \in Nat /\ size \in Nat /\ left \in Nat /\ m.total \in Nat
          /\ m.total = before.total + (size - left) /\ left <= size
      BY <1>1 DEF Inv, TypeOK, LoopInv, Managers, Advanced
    <2>3. m.current \in before.current .. payload.nb
      BY <1>1, PayloadFacts DEF Inv, TypeOK, LoopInv, Managers, End, Files
    <2>4. before.total <= m.total /\ m.total < before.total + size
      BY <1>1, <2>2
    <2> QED
      BY <2>1, <2>3, <2>4 DEF Opens
  <1>2. Inv /\ NeverPastTheEnd => OpensAtFirstByte
    BY <1>1 DEF OpensAtFirstByte, NeverPastTheEnd
  <1> QED
    BY <1>2, LoopInvariant, LoopStaysInside, PTL
(* How many iterations the loop may still take: one for each file that is    *)
(* not passed, and one that stops inside a file.                             *)
IterationsLeft == (End(payload) - m.current) + (IF left > 0 THEN 1 ELSE 0)

(* The loops of send_next_chunk and receive_chunk end, also over empty files,*)
(* which move no byte: each iteration leaves fewer to take, and while bytes  *)
(* are left there is a file for the next one (LoopStaysInside).              *)
THEOREM LoopEnds ==
  Spec => [](IterationsLeft \in Nat) /\ [][Iterate => IterationsLeft' < IterationsLeft]_vars
  <1>1. ASSUME Inv
        PROVE  /\ payload.nb \in Nat /\ End(payload) = payload.nb + 1
               /\ m.current \in 1 .. End(payload) /\ left \in Nat
    BY <1>1, PayloadFacts DEF Inv, TypeOK, Managers, End
  <1>2. Inv => IterationsLeft \in Nat
    BY <1>1 DEF IterationsLeft
  <1>3. ASSUME Inv, Inv', Iterate
        PROVE  IterationsLeft' < IterationsLeft
    <2>1. PICK q, n : q = (IF isOpen THEN pos ELSE 0) /\ n = MovedBytes(q)
      OBVIOUS
    <2>2. /\ left > 0 /\ left' = left - n /\ payload' = payload
          /\ m'.current = IF q + n = FileSize(payload, m.current) THEN m.current + 1
                                                                  ELSE m.current
      BY <1>3, <2>1 DEF Iterate, Advanced
    <2>3. /\ payload.nb \in Nat /\ End(payload) = payload.nb + 1
          /\ m.current \in 1 .. End(payload) /\ left \in Nat /\ left' \in Nat
      <3>1. left' \in Nat
        BY <1>3 DEF Inv, TypeOK
      <3> QED
        BY <1>1, <1>3, <3>1
    <2>4. CASE m'.current = m.current + 1
      BY <2>2, <2>3, <2>4 DEF IterationsLeft, End
    <2>5. CASE q + n # FileSize(payload, m.current)
      <3>1. q \in Nat /\ FileSize(payload, m.current) \in Nat
        <4>1. m.current \in 1 .. payload.nb
          BY <1>3 DEF Iterate, Files
        <4>2. payload.start[m.current] <= payload.start[m.current + 1]
              /\ payload.start[m.current] \in Nat /\ payload.start[m.current + 1] \in Nat
          <5>1. payload \in Payloads
            BY <1>3 DEF Inv, TypeOK
          <5>2. /\ m.current \in 1 .. payload.nb + 1 /\ m.current + 1 \in 1 .. payload.nb + 1
                /\ m.current <= m.current + 1
            BY <2>3, <4>1
          <5> QED
            BY <5>1, <5>2, PayloadFacts
        <4> QED
          BY <1>3, <2>1, <4>2 DEF Inv, TypeOK, FileSize
      <3>2. n = IF left < FileSize(payload, m.current) - q
                THEN left ELSE FileSize(payload, m.current) - q
        BY <2>1 DEF MovedBytes
      <3>3. n = left
        BY <2>3, <2>5, <3>1, <3>2
      <3>4. left' = 0 /\ m'.current = m.current
        BY <2>2, <2>3, <2>5, <3>3
      <3> QED
        BY <2>2, <2>3, <3>4 DEF IterationsLeft, End
    <2> QED
      BY <2>2, <2>4, <2>5
  <1>4. Inv /\ Inv' /\ [Next]_vars => [Iterate => IterationsLeft' < IterationsLeft]_vars
    BY <1>3
  <1> QED
    BY <1>2, <1>4, LoopInvariant, PTL DEF Spec
=============================================================================
