-------------------------- MODULE Transfer_proofs --------------------------
(***************************************************************************)
(* Proofs about Transfer, for every payload, every size of chunk and of    *)
(* buffer, and all the faults that Transfer models.                        *)
(***************************************************************************)
EXTENDS Transfer, Payload_proofs

----------------------------------------------------------------------------
(* Streams. *)

\* What e has sent and its peer has not taken, first message first.
Joined(r, n, w) == r \o n \o w

Stream(e) == Joined(rbuf[Peer(e)], net[e], wbuf[e])

BuffersOK ==
  /\ wbuf \in [Sides -> Seq(Messages)]
  /\ net \in [Sides -> Seq(Messages)]
  /\ rbuf \in [Sides -> Seq(Messages)]

\* What a handler of e does to the streams: nothing; it takes a message and
\* sends some; or it loses the beginning of one and the end of the other.
Keeps(e) == Stream(e)' = Stream(e) /\ Stream(Peer(e))' = Stream(Peer(e))

Sends(e, msgs) == Stream(e)' = Stream(e) \o msgs /\ Stream(Peer(e))' = Stream(Peer(e))

Takes(e, msgs) ==
  /\ Stream(Peer(e)) # << >> /\ Head(Stream(Peer(e))) = Incoming(e)
  /\ Stream(Peer(e))' = Tail(Stream(Peer(e)))
  /\ Stream(e)' = Stream(e) \o msgs

Loses(e) ==
  /\ \E k \in 0 .. Len(Stream(e)) :
       Stream(e)' = Prefix(Stream(e), k) /\ (wbuf[e] # << >> => k < Len(Stream(e)))
  /\ \E k \in 0 .. Len(Stream(Peer(e))) : Stream(Peer(e))' = Rest(Stream(Peer(e)), k)

LEMMA Split ==
  ASSUME NEW s \in Seq(Messages), NEW k \in 0 .. Len(s)
  PROVE  /\ Prefix(s, k) \in Seq(Messages) /\ Len(Prefix(s, k)) = k
         /\ Rest(s, k) \in Seq(Messages) /\ Len(Rest(s, k)) = Len(s) - k
         /\ Prefix(s, k) \o Rest(s, k) = s
         /\ \A i \in 1 .. k : Prefix(s, k)[i] = s[i]
         /\ \A i \in 1 .. Len(s) - k : Rest(s, k)[i] = s[k + i]
<1>1. Len(s) \in Nat /\ \A i \in 1 .. Len(s) : s[i] \in Messages
  BY LenProperties, ElementOfSeq
<1>2. /\ SubSeq(s, 1, k) \in Seq(Messages) /\ Len(SubSeq(s, 1, k)) = k
      /\ \A i \in 1 .. k : SubSeq(s, 1, k)[i] = s[i]
  <2>1. 1 \in Int /\ k \in Int /\ \A i \in 1 .. k : s[i] \in Messages
    BY <1>1
  <2>2. /\ SubSeq(s, 1, k) \in Seq(Messages)
        /\ Len(SubSeq(s, 1, k)) = IF 1 <= k THEN k - 1 + 1 ELSE 0
        /\ \A i \in 1 .. k - 1 + 1 : SubSeq(s, 1, k)[i] = s[1 + i - 1]
    BY <2>1, SubSeqProperties
  <2> QED
    BY <1>1, <2>2
<1>3. /\ SubSeq(s, k + 1, Len(s)) \in Seq(Messages)
      /\ Len(SubSeq(s, k + 1, Len(s))) = Len(s) - k
      /\ \A i \in 1 .. Len(s) - k : SubSeq(s, k + 1, Len(s))[i] = s[k + i]
  <2>1. k + 1 \in Int /\ Len(s) \in Int /\ \A i \in k + 1 .. Len(s) : s[i] \in Messages
    BY <1>1
  <2>2. /\ SubSeq(s, k + 1, Len(s)) \in Seq(Messages)
        /\ Len(SubSeq(s, k + 1, Len(s))) =
             IF k + 1 <= Len(s) THEN Len(s) - (k + 1) + 1 ELSE 0
        /\ \A i \in 1 .. Len(s) - (k + 1) + 1 :
             SubSeq(s, k + 1, Len(s))[i] = s[k + 1 + i - 1]
    BY <2>1, SubSeqProperties
  <2> QED
    BY <1>1, <2>2
<1>4. SubSeq(s, 1, k) \o SubSeq(s, k + 1, Len(s)) = s
  <2>1. /\ 1 \in 1 .. Len(s) + 1 /\ k \in 1 - 1 .. Len(s) /\ Len(s) \in k .. Len(s)
    BY <1>1
  <2>2. SubSeq(s, 1, k) \o SubSeq(s, k + 1, Len(s)) = SubSeq(s, 1, Len(s))
    BY <2>1, ConcatAdjacentSubSeq
  <2> QED
    BY <2>2, SubSeqFull
<1> QED
  BY <1>2, <1>3, <1>4 DEF Prefix, Rest

\* The end of the first of three parts lost, and the beginning of the last.
LEMMA LosesEnd ==
  ASSUME NEW s \in Seq(Messages), NEW t \in Seq(Messages)
  PROVE  /\ Len(s) \in 0 .. Len(s \o t) /\ s \o t \in Seq(Messages)
         /\ Prefix(s \o t, Len(s)) = s
         /\ Rest(s \o t, Len(s)) = t
         /\ t # << >> => Len(s) < Len(s \o t)
<1>1. /\ s \o t \in Seq(Messages) /\ Len(s \o t) = Len(s) + Len(t)
      /\ \A i \in 1 .. Len(s) + Len(t) :
           (s \o t)[i] = IF i <= Len(s) THEN s[i] ELSE t[i - Len(s)]
      /\ Len(s) \in Nat /\ Len(t) \in Nat
  BY ConcatProperties, LenProperties
<1> PICK u, k : u = s \o t /\ k = Len(s)
  OBVIOUS
<1>2. u \in Seq(Messages) /\ k \in 0 .. Len(u)
  BY <1>1
<1>3. /\ Prefix(u, k) \in Seq(Messages) /\ Len(Prefix(u, k)) = k
      /\ Rest(u, k) \in Seq(Messages) /\ Len(Rest(u, k)) = Len(u) - k
      /\ \A i \in 1 .. k : Prefix(u, k)[i] = u[i]
      /\ \A i \in 1 .. Len(u) - k : Rest(u, k)[i] = u[k + i]
  BY <1>2, Split
<1>4. Prefix(u, k) = s
  <2>1. \A i \in 1 .. Len(Prefix(u, k)) : Prefix(u, k)[i] = s[i]
    BY <1>1, <1>3
  <2> QED
    BY <1>3, <2>1, SeqEqual
<1>5. Rest(u, k) = t
  <2>1. Len(Rest(u, k)) = Len(t) /\ \A i \in 1 .. Len(Rest(u, k)) : Rest(u, k)[i] = t[i]
    BY <1>1, <1>3
  <2> QED
    BY <1>3, <2>1, SeqEqual
<1>6. t # << >> => Len(t) # 0
  BY EmptySeq
<1> QED
  BY <1>1, <1>2, <1>4, <1>5, <1>6

LEMMA Associative ==
  ASSUME NEW s \in Seq(Messages), NEW t \in Seq(Messages), NEW u \in Seq(Messages)
  PROVE  (s \o t) \o u = s \o (t \o u)
OBVIOUS

\* What moves from one buffer to the next stays on its stream.
LEMMA Moves ==
  ASSUME NEW r \in Seq(Messages), NEW n \in Seq(Messages), NEW w \in Seq(Messages)
  PROVE  /\ Joined(r, n, w) \in Seq(Messages)
         /\ Joined(r, n, w) = r \o (n \o w)
         /\ \A k \in 0 .. Len(w) : Joined(r, n \o Prefix(w, k), Rest(w, k)) = Joined(r, n, w)
         /\ \A k \in 0 .. Len(n) : Joined(r \o Prefix(n, k), Rest(n, k), w) = Joined(r, n, w)
<1> USE DEF Joined
<1>1. ASSUME NEW k \in 0 .. Len(w)
      PROVE  Joined(r, n \o Prefix(w, k), Rest(w, k)) = Joined(r, n, w)
  <2> PICK a, b : a = Prefix(w, k) /\ b = Rest(w, k)
    OBVIOUS
  <2>1. a \in Seq(Messages) /\ b \in Seq(Messages)
    BY Split
  <2>2. r \o (n \o a) = (r \o n) \o a
    BY <2>1, Associative, SMTT(30)
  <2> PICK q : q = r \o n
    OBVIOUS
  <2>3. q \in Seq(Messages)
    BY ConcatProperties
  <2>4. (q \o a) \o b = q \o (a \o b)
    BY <2>1, <2>3, Associative, SMTT(60)
  <2>5. a \o b = w
    BY Split
  <2> QED
    BY <2>2, <2>4, <2>5
<1>2. ASSUME NEW k \in 0 .. Len(n)
      PROVE  Joined(r \o Prefix(n, k), Rest(n, k), w) = Joined(r, n, w)
  <2> PICK a, b : a = Prefix(n, k) /\ b = Rest(n, k)
    OBVIOUS
  <2>1. a \in Seq(Messages) /\ b \in Seq(Messages)
    BY Split
  <2>2. (r \o a) \o b = r \o (a \o b)
    BY <2>1, Associative, SMTT(60)
  <2>3. a \o b = n
    BY Split
  <2> QED
    BY <2>2, <2>3
<1>3. r \o n \o w \in Seq(Messages) /\ r \o n \o w = r \o (n \o w)
  BY ConcatProperties, Associative
<1> QED
  BY <1>1, <1>2, <1>3

LEMMA TakesHead ==
  ASSUME NEW r \in Seq(Messages), NEW n \in Seq(Messages), NEW w \in Seq(Messages),
         r # << >>
  PROVE  /\ Joined(r, n, w) # << >> /\ Head(Joined(r, n, w)) = Head(r)
         /\ Joined(Tail(r), n, w) = Tail(Joined(r, n, w))
         /\ Tail(r) \in Seq(Messages)
<1> PICK t : t = n \o w
  OBVIOUS
<1>1. t \in Seq(Messages) /\ Joined(r, n, w) = r \o t
  BY Moves, ConcatProperties
<1>2. /\ Tail(r) \in Seq(Messages) /\ Len(Tail(r)) = Len(r) - 1
      /\ \A i \in 1 .. Len(Tail(r)) : Tail(r)[i] = r[i + 1]
      /\ Len(r) \in Nat \ {0} /\ Len(t) \in Nat
  BY <1>1, HeadTailProperties, EmptySeq, LenProperties
<1>3. Joined(Tail(r), n, w) = Tail(r) \o t
  BY <1>2, Moves
<1>4. /\ r \o t \in Seq(Messages) /\ Len(r \o t) = Len(r) + Len(t)
      /\ \A i \in 1 .. Len(r) + Len(t) :
           (r \o t)[i] = IF i <= Len(r) THEN r[i] ELSE t[i - Len(r)]
  BY <1>1, ConcatProperties
<1>5. /\ Tail(r) \o t \in Seq(Messages) /\ Len(Tail(r) \o t) = Len(Tail(r)) + Len(t)
      /\ \A i \in 1 .. Len(Tail(r)) + Len(t) :
           (Tail(r) \o t)[i] = IF i <= Len(Tail(r)) THEN Tail(r)[i] ELSE t[i - Len(Tail(r))]
  BY <1>1, <1>2, ConcatProperties
<1>6. r \o t # << >>
  <2>1. Len(r \o t) # 0
    BY <1>2, <1>4
  <2> QED
    BY <2>1, EmptySeq
<1> PICK s : s = r \o t
  OBVIOUS
<1>7. /\ Tail(s) \in Seq(Messages) /\ Len(Tail(s)) = Len(s) - 1
      /\ \A i \in 1 .. Len(Tail(s)) : Tail(s)[i] = s[i + 1]
  BY <1>4, <1>6, HeadTailProperties
<1>8. Tail(r) \o t = Tail(s)
  <2> PICK u, v : u = Tail(r) \o t /\ v = Tail(s)
    OBVIOUS
  <2>1. u \in Seq(Messages) /\ v \in Seq(Messages) /\ Len(u) = Len(v)
    BY <1>2, <1>4, <1>5, <1>7
  <2>2. ASSUME NEW i \in 1 .. Len(u)
        PROVE  u[i] = v[i]
    <3>1. v[i] = s[i + 1] /\ i + 1 \in 1 .. Len(s)
      BY <1>2, <1>4, <1>5, <1>7, <2>1
    <3>2. s[i + 1] = IF i + 1 <= Len(r) THEN r[i + 1] ELSE t[i + 1 - Len(r)]
      BY <1>2, <1>4, <3>1
    <3>3. u[i] = IF i <= Len(Tail(r)) THEN Tail(r)[i] ELSE t[i - Len(Tail(r))]
      BY <1>2, <1>5, <2>1
    <3>4. CASE i <= Len(Tail(r))
      BY <1>2, <3>1, <3>2, <3>3, <3>4
    <3>5. CASE ~(i <= Len(Tail(r)))
      BY <1>2, <3>1, <3>2, <3>3, <3>5
    <3> QED
      BY <3>4, <3>5
  <2> QED
    BY <2>1, <2>2, SeqEqual
<1>9. Head(s) = Head(r)
  <2>1. Head(s) = s[1] /\ Head(r) = r[1]
    BY <1>4, <1>6
  <2>2. s[1] = r[1]
    BY <1>2, <1>4
  <2> QED
    BY <2>1, <2>2
<1> QED
  BY <1>1, <1>2, <1>3, <1>6, <1>8, <1>9

LEMMA Peers ==
  ASSUME NEW e \in Sides
  PROVE  /\ Peer(e) \in Sides /\ Peer(e) # e /\ Peer(Peer(e)) = e
         /\ Peer("up") = "down" /\ Peer("down") = "up"
         /\ \A d \in Sides : d = e \/ d = Peer(e)
BY DEF Sides, Peer

LEMMA StreamType ==
  ASSUME BuffersOK, NEW e \in Sides
  PROVE  Stream(e) \in Seq(Messages)
BY Peers, Moves DEF BuffersOK, Stream

LEMMA BuffersKept ==
  ASSUME BuffersOK, NEW e \in Sides, UNCHANGED <<wbuf, net, rbuf>>
  PROVE  BuffersOK' /\ Keeps(e)
BY DEF BuffersOK, Keeps, Stream

LEMMA BufferSends ==
  ASSUME BuffersOK, NEW e \in Sides, NEW msgs \in Seq(Messages),
         wbuf' = [wbuf EXCEPT ![e] = wbuf[e] \o msgs], UNCHANGED <<net, rbuf>>
  PROVE  BuffersOK' /\ Sends(e, msgs)
<1>1. /\ wbuf[e] \o msgs \in Seq(Messages) /\ wbuf' \in [Sides -> Seq(Messages)]
      /\ wbuf'[e] = wbuf[e] \o msgs /\ wbuf'[Peer(e)] = wbuf[Peer(e)]
  BY Peers, ConcatProperties DEF BuffersOK
<1>2. Stream(e)' = Joined(rbuf[Peer(e)], net[e], wbuf[e] \o msgs)
  BY <1>1 DEF Stream
<1>3. Stream(e)' = Stream(e) \o msgs
  <2>0. PICK r, n, w : r = rbuf[Peer(e)] /\ n = net[e] /\ w = wbuf[e]
    OBVIOUS
  <2>1. r \in Seq(Messages) /\ n \in Seq(Messages) /\ w \in Seq(Messages)
    BY <2>0, Peers DEF BuffersOK
  <2>2. Joined(r, n, w \o msgs) = Joined(r, n, w) \o msgs
    BY <2>1 DEF Joined
  <2> QED
    BY <1>2, <2>0, <2>2 DEF Stream
<1>4. Stream(Peer(e))' = Stream(Peer(e))
  BY <1>1, Peers DEF Stream
<1> QED
  BY <1>1, <1>3, <1>4 DEF BuffersOK, Sends

LEMMA BufferTakes ==
  ASSUME BuffersOK, NEW e \in Sides, NEW msgs \in Seq(Messages), Readable(e),
         rbuf' = [rbuf EXCEPT ![e] = Tail(rbuf[e])],
         wbuf' = [wbuf EXCEPT ![e] = wbuf[e] \o msgs], UNCHANGED net
  PROVE  BuffersOK' /\ Takes(e, msgs)
<1>1. /\ wbuf[e] \o msgs \in Seq(Messages) /\ wbuf' \in [Sides -> Seq(Messages)]
      /\ wbuf'[e] = wbuf[e] \o msgs /\ wbuf'[Peer(e)] = wbuf[Peer(e)]
  BY Peers, ConcatProperties DEF BuffersOK
<1>0. PICK r, n, w : r = rbuf[e] /\ n = net[Peer(e)] /\ w = wbuf[Peer(e)]
  OBVIOUS
<1>2. r \in Seq(Messages) /\ n \in Seq(Messages) /\ w \in Seq(Messages) /\ r # << >>
  BY <1>0, Peers DEF BuffersOK, Readable
<1>3. /\ Joined(r, n, w) # << >> /\ Head(Joined(r, n, w)) = Head(r)
      /\ Joined(Tail(r), n, w) = Tail(Joined(r, n, w))
      /\ Tail(r) \in Seq(Messages)
  BY <1>2, TakesHead
<1>4. rbuf' \in [Sides -> Seq(Messages)] /\ rbuf'[e] = Tail(r) /\ rbuf'[Peer(e)] = rbuf[Peer(e)]
  BY <1>0, <1>3, Peers DEF BuffersOK
<1>5. Stream(Peer(e)) = Joined(r, n, w) /\ Stream(Peer(e))' = Joined(Tail(r), n, w)
  BY <1>0, <1>1, <1>4, Peers DEF Stream
<1>6. Stream(e)' = Joined(rbuf[Peer(e)], net[e], wbuf[e] \o msgs)
  BY <1>1, <1>4 DEF Stream
<1>7. Stream(e)' = Stream(e) \o msgs
  <2>0. PICK a, b, c : a = rbuf[Peer(e)] /\ b = net[e] /\ c = wbuf[e]
    OBVIOUS
  <2>1. a \in Seq(Messages) /\ b \in Seq(Messages) /\ c \in Seq(Messages)
    BY <2>0, Peers DEF BuffersOK
  <2>2. Joined(a, b, c \o msgs) = Joined(a, b, c) \o msgs
    BY <2>1 DEF Joined
  <2> QED
    BY <1>6, <2>0, <2>2 DEF Stream
<1> QED
  BY <1>0, <1>1, <1>3, <1>4, <1>5, <1>7 DEF BuffersOK, Takes, Incoming

LEMMA BufferWrites ==
  ASSUME BuffersOK, NEW e \in Sides, NEW k \in 0 .. Len(wbuf[e]),
         net' = [net EXCEPT ![e] = @ \o Prefix(wbuf[e], k)],
         wbuf' = [wbuf EXCEPT ![e] = Rest(@, k)], UNCHANGED rbuf
  PROVE  BuffersOK' /\ Keeps(e)
<1>1. /\ Prefix(wbuf[e], k) \in Seq(Messages) /\ Rest(wbuf[e], k) \in Seq(Messages)
  BY Split DEF BuffersOK
<1>2. net[e] \o Prefix(wbuf[e], k) \in Seq(Messages)
  BY <1>1, ConcatProperties DEF BuffersOK
<1>3. /\ net'[e] = net[e] \o Prefix(wbuf[e], k) /\ wbuf'[e] = Rest(wbuf[e], k)
      /\ net'[Peer(e)] = net[Peer(e)] /\ wbuf'[Peer(e)] = wbuf[Peer(e)]
      /\ net' \in [Sides -> Seq(Messages)] /\ wbuf' \in [Sides -> Seq(Messages)]
  BY <1>1, <1>2, Peers DEF BuffersOK
<1>4. Stream(e)' = Joined(rbuf[Peer(e)], net[e] \o Prefix(wbuf[e], k), Rest(wbuf[e], k))
  BY <1>3 DEF Stream
<1>5. Stream(e)' = Stream(e)
  <2>0. PICK r, n, w : r = rbuf[Peer(e)] /\ n = net[e] /\ w = wbuf[e]
    OBVIOUS
  <2>1. r \in Seq(Messages) /\ n \in Seq(Messages) /\ w \in Seq(Messages) /\ k \in 0 .. Len(w)
    BY <2>0, Peers DEF BuffersOK
  <2>2. Joined(r, n \o Prefix(w, k), Rest(w, k)) = Joined(r, n, w)
    BY <2>1, Moves
  <2> QED
    BY <1>4, <2>0, <2>2 DEF Stream
<1>6. Stream(Peer(e))' = Stream(Peer(e))
  BY <1>3, Peers DEF Stream
<1> QED
  BY <1>3, <1>5, <1>6 DEF BuffersOK, Keeps

LEMMA BufferArrives ==
  ASSUME BuffersOK, NEW e \in Sides, NEW k \in 0 .. Len(net[Peer(e)]),
         rbuf' = [rbuf EXCEPT ![e] = @ \o Prefix(net[Peer(e)], k)],
         net' = [net EXCEPT ![Peer(e)] = Rest(@, k)], UNCHANGED wbuf
  PROVE  BuffersOK' /\ Keeps(e)
<1>9. PICK d, n : d = Peer(e) /\ n = net[d]
  OBVIOUS
<1>0. d \in Sides /\ d # e /\ Peer(d) = e /\ n \in Seq(Messages) /\ k \in 0 .. Len(n)
  BY <1>9, Peers DEF BuffersOK
<1>1. Prefix(n, k) \in Seq(Messages) /\ Rest(n, k) \in Seq(Messages)
  BY <1>0, Split
<1>2. rbuf[e] \o Prefix(n, k) \in Seq(Messages)
  BY <1>1, ConcatProperties DEF BuffersOK
<1>3. /\ rbuf'[e] = rbuf[e] \o Prefix(n, k) /\ net'[d] = Rest(n, k)
      /\ net'[e] = net[e] /\ rbuf'[d] = rbuf[d]
      /\ net' \in [Sides -> Seq(Messages)] /\ rbuf' \in [Sides -> Seq(Messages)]
  BY <1>0, <1>1, <1>2, <1>9 DEF BuffersOK
<1>4. Stream(d)' = Joined(rbuf[e] \o Prefix(n, k), Rest(n, k), wbuf[d])
  BY <1>0, <1>3 DEF Stream
<1>5. Stream(d)' = Joined(rbuf[e], n, wbuf[d])
  <2>0. PICK r, w : r = rbuf[e] /\ w = wbuf[d]
    OBVIOUS
  <2>1. r \in Seq(Messages) /\ w \in Seq(Messages)
    BY <1>0, <2>0 DEF BuffersOK
  <2>2. Joined(r \o Prefix(n, k), Rest(n, k), w) = Joined(r, n, w)
    BY <1>0, <2>1, Moves
  <2> QED
    BY <1>4, <2>0, <2>2
<1>6. Stream(d)' = Stream(d) /\ Stream(e)' = Stream(e)
  BY <1>0, <1>9, <1>3, <1>5 DEF Stream
<1> QED
  BY <1>3, <1>6, <1>9 DEF BuffersOK, Keeps

\* What is left of a stream when its three parts are cut short.
LEMMA Losses ==
  ASSUME NEW r \in Seq(Messages), NEW n \in Seq(Messages), NEW w \in Seq(Messages)
  PROVE  /\ \E k \in 0 .. Len(Joined(r, n, w)) :
              /\ Joined(r, n, << >>) = Prefix(Joined(r, n, w), k)
              /\ w # << >> => k < Len(Joined(r, n, w))
         /\ \E k \in 0 .. Len(Joined(r, n, w)) :
              Joined(<< >>, n, w) = Rest(Joined(r, n, w), k)
         /\ \E k \in 0 .. Len(Joined(r, n, w)) :
              Joined(<< >>, << >>, << >>) = Rest(Joined(r, n, w), k)
         /\ \E k \in 0 .. Len(Joined(r, n, w)) :
              Joined(r, n, w) = Rest(Joined(r, n, w), k)
         /\ r # << >> => \E k \in 0 .. Len(Joined(r, n, w)) :
              Joined(Tail(r), n, w) = Rest(Joined(r, n, w), k)
<1>1. PICK s : s = Joined(r, n, w)
  OBVIOUS
<1>2. s \in Seq(Messages) /\ Len(s) \in Nat /\ s = (r \o n) \o w /\ s = r \o (n \o w)
      /\ r \o n \in Seq(Messages) /\ n \o w \in Seq(Messages)
  <2>1. s \in Seq(Messages) /\ s = r \o (n \o w)
    BY <1>1, Moves
  <2> QED
    BY <1>1, <2>1, ConcatProperties, LenProperties DEF Joined
<1>3. \E k \in 0 .. Len(s) :
        Joined(r, n, << >>) = Prefix(s, k) /\ (w # << >> => k < Len(s))
  <2>1. Joined(r, n, << >>) = r \o n
    BY <1>2, ConcatEmptySeq DEF Joined
  <2>2. /\ Len(r \o n) \in 0 .. Len((r \o n) \o w)
        /\ Prefix((r \o n) \o w, Len(r \o n)) = r \o n
        /\ w # << >> => Len(r \o n) < Len((r \o n) \o w)
    BY <1>2, LosesEnd
  <2> QED
    BY <1>2, <2>1, <2>2
<1>4. \E k \in 0 .. Len(s) : Joined(<< >>, n, w) = Rest(s, k)
  <2>1. Joined(<< >>, n, w) = n \o w
    BY <1>2, ConcatEmptySeq DEF Joined
  <2>2. /\ Len(r) \in 0 .. Len(r \o (n \o w))
        /\ Rest(r \o (n \o w), Len(r)) = n \o w
    BY <1>2, LosesEnd
  <2> QED
    BY <1>2, <2>1, <2>2
<1>5. \E k \in 0 .. Len(s) : Joined(<< >>, << >>, << >>) = Rest(s, k)
  <2>1. Joined(<< >>, << >>, << >>) = << >>
    BY DEF Joined
  <2>2. Len(s) \in 0 .. Len(s) /\ Rest(s, Len(s)) = << >>
    BY <1>2, SubSeqEmpty DEF Rest
  <2> QED
    BY <2>1, <2>2
<1>6. \E k \in 0 .. Len(s) : s = Rest(s, k)
  <2>1. 0 \in 0 .. Len(s) /\ Rest(s, 0) = s
    BY <1>2, SubSeqFull DEF Rest
  <2> QED
    BY <2>1
<1>7. ASSUME r # << >>
      PROVE  \E k \in 0 .. Len(s) : Joined(Tail(r), n, w) = Rest(s, k)
  <2>1. Joined(r, n, w) # << >> /\ Joined(Tail(r), n, w) = Tail(Joined(r, n, w))
    BY <1>7, TakesHead
  <2>2. s # << >> /\ Tail(s) = SubSeq(s, 2, Len(s)) /\ Joined(Tail(r), n, w) = Tail(s)
    BY <1>1, <1>2, <2>1, TailIsSubSeq
  <2>3. 1 \in 0 .. Len(s)
    BY <1>2, <2>2, EmptySeq
  <2>4. Rest(s, 1) = SubSeq(s, 2, Len(s))
    <3>1. 1 + 1 = 2
      OBVIOUS
    <3> QED
      BY <3>1, Zenon DEF Rest
  <2> QED
    BY <2>2, <2>3, <2>4, Zenon
<1> QED
  BY <1>1, <1>3, <1>4, <1>5, <1>6, <1>7

LEMMA BufferLoses ==
  ASSUME BuffersOK, NEW e \in Sides,
         wbuf' = [wbuf EXCEPT ![e] = << >>],
         \/ /\ rbuf' = rbuf \/ rbuf' = [rbuf EXCEPT ![e] = << >>]
                \/ (rbuf[e] # << >> /\ rbuf' = [rbuf EXCEPT ![e] = Tail(rbuf[e])])
            /\ net' = net
         \/ /\ rbuf' = [rbuf EXCEPT ![e] = << >>]
            /\ net' = [net EXCEPT ![Peer(e)] = << >>] /\ wbuf[Peer(e)] = << >>
  PROVE  BuffersOK' /\ Loses(e)
<1>1. PICK r, n, w : r = rbuf[Peer(e)] /\ n = net[e] /\ w = wbuf[e]
  OBVIOUS
<1>2. PICK a, b, c : a = rbuf[e] /\ b = net[Peer(e)] /\ c = wbuf[Peer(e)]
  OBVIOUS
<1>3. r \in Seq(Messages) /\ n \in Seq(Messages) /\ w \in Seq(Messages)
  BY <1>1, Peers DEF BuffersOK
<1>11. a \in Seq(Messages) /\ b \in Seq(Messages) /\ c \in Seq(Messages)
  BY <1>2, Peers DEF BuffersOK
<1>12. << >> \in Seq(Messages) /\ (a # << >> => Tail(a) \in Seq(Messages))
  BY <1>11, EmptySeq, HeadTailProperties
<1>4. /\ Stream(e) = Joined(r, n, w) /\ Stream(Peer(e)) = Joined(a, b, c)
  BY <1>1, <1>2, Peers DEF Stream
<1>5. /\ wbuf'[e] = << >> /\ wbuf'[Peer(e)] = c /\ net'[e] = n /\ rbuf'[Peer(e)] = r
      /\ BuffersOK'
      /\ \/ net'[Peer(e)] = b /\ rbuf'[e] = a
         \/ net'[Peer(e)] = b /\ rbuf'[e] = << >>
         \/ net'[Peer(e)] = b /\ a # << >> /\ rbuf'[e] = Tail(a)
         \/ net'[Peer(e)] = << >> /\ c = << >> /\ rbuf'[e] = << >>
  <2>1. /\ Peer(e) \in Sides /\ Peer(e) # e
        /\ wbuf \in [Sides -> Seq(Messages)] /\ net \in [Sides -> Seq(Messages)]
        /\ rbuf \in [Sides -> Seq(Messages)]
    BY Peers DEF BuffersOK
  <2>2. wbuf'[e] = << >> /\ wbuf'[Peer(e)] = c /\ wbuf' \in [Sides -> Seq(Messages)]
    BY <1>2, <1>12, <2>1
  <2>3. CASE net' = net
    BY <1>1, <1>2, <1>12, <2>1, <2>2, <2>3 DEF BuffersOK
  <2>4. CASE /\ rbuf' = [rbuf EXCEPT ![e] = << >>]
             /\ net' = [net EXCEPT ![Peer(e)] = << >>] /\ wbuf[Peer(e)] = << >>
    BY <1>1, <1>2, <1>12, <2>1, <2>2, <2>4 DEF BuffersOK
  <2> QED
    BY <2>3, <2>4
<1>6. /\ Stream(e)' = Joined(r, n, << >>)
      /\ \/ Stream(Peer(e))' = Joined(a, b, c)
         \/ Stream(Peer(e))' = Joined(<< >>, b, c)
         \/ a # << >> /\ Stream(Peer(e))' = Joined(Tail(a), b, c)
         \/ Stream(Peer(e))' = Joined(<< >>, << >>, << >>)
  BY <1>5, Peers DEF Stream
<1>7. \E k \in 0 .. Len(Joined(r, n, w)) :
        /\ Joined(r, n, << >>) = Prefix(Joined(r, n, w), k)
        /\ w # << >> => k < Len(Joined(r, n, w))
  BY <1>3, Losses, Zenon
<1>10. /\ \E k \in 0 .. Len(Joined(a, b, c)) :
               Joined(<< >>, b, c) = Rest(Joined(a, b, c), k)
       /\ \E k \in 0 .. Len(Joined(a, b, c)) :
               Joined(<< >>, << >>, << >>) = Rest(Joined(a, b, c), k)
       /\ \E k \in 0 .. Len(Joined(a, b, c)) :
               Joined(a, b, c) = Rest(Joined(a, b, c), k)
       /\ a # << >> => \E k \in 0 .. Len(Joined(a, b, c)) :
               Joined(Tail(a), b, c) = Rest(Joined(a, b, c), k)
  BY <1>11, Losses, ZenonT(60)
<1>8. \E k \in 0 .. Len(Stream(e)) :
        Stream(e)' = Prefix(Stream(e), k) /\ (wbuf[e] # << >> => k < Len(Stream(e)))
  BY <1>1, <1>4, <1>6, <1>7, <1>10, Zenon
<1>9. \E k \in 0 .. Len(Stream(Peer(e))) : Stream(Peer(e))' = Rest(Stream(Peer(e)), k)
  BY <1>4, <1>6, <1>7, <1>10, Zenon
<1> QED
  BY <1>5, <1>8, <1>9 DEF Loses

----------------------------------------------------------------------------
(* What each handler does to the streams. *)

LEMMA MessageTypes ==
  /\ \A k \in {"Offer", "Accept", "Reject", "Completed", "Error", "Close", "Garbage",
                  "Incomplete"} :
       Msg(k) \in Messages /\ Msg(k).kind = k
  /\ \A v \in Nat : HandshakeMsg(v) \in Messages /\ HandshakeMsg(v).kind = "Handshake"
  /\ << >> \in Seq(Messages)
BY EmptySeq DEF Msg, HandshakeMsg, Messages

LEMMA OneMore ==
  ASSUME NEW s \in Seq(Messages), NEW m \in Messages
  PROVE  /\ Append(s, m) = s \o << m >> /\ s = s \o << >> /\ << m >> \in Seq(Messages)
         /\ << m >> = << >> \o << m >>
OBVIOUS

\* Handlers that only move messages along, or do nothing to them.
Moving(e) ==
  \/ Write(e) \/ Arrive(e) \/ Timer(e) \/ Starved(e)
  \/ e = "up" /\ (Connect \/ RefillEnds \/ UpFlush \/ UpFlushEnds)

LEMMA MovingKeeps ==
  ASSUME BuffersOK, NEW e \in Sides, Moving(e)
  PROVE  BuffersOK' /\ Keeps(e)
<1>1. CASE Write(e) \/ (e = "up" /\ UpFlush)
  <2>1. PICK k \in 1 .. Len(wbuf[e]) :
          /\ net' = [net EXCEPT ![e] = @ \o Prefix(wbuf[e], k)]
          /\ wbuf' = [wbuf EXCEPT ![e] = Rest(@, k)]
          /\ UNCHANGED rbuf
    BY <1>1 DEF Write, UpFlush
  <2>2. k \in 0 .. Len(wbuf[e])
    BY LenProperties DEF BuffersOK
  <2> QED
    BY <2>1, <2>2, BufferWrites
<1>2. CASE Arrive(e)
  <2>1. PICK k \in 1 .. Len(net[Peer(e)]) :
          /\ rbuf' = [rbuf EXCEPT ![e] = @ \o Prefix(net[Peer(e)], k)]
          /\ net' = [net EXCEPT ![Peer(e)] = Rest(@, k)]
          /\ UNCHANGED wbuf
    BY <1>2 DEF Arrive
  <2>2. k \in 0 .. Len(net[Peer(e)])
    BY Peers, LenProperties DEF BuffersOK
  <2> QED
    BY <2>1, <2>2, BufferArrives
<1>3. CASE Timer(e) \/ Starved(e) \/ Connect \/ RefillEnds
  BY <1>3, BuffersKept DEF Timer, Starved, Connect, RefillEnds
<1>4. CASE e = "up" /\ UpFlushEnds
  <2>1. UNCHANGED <<wbuf, net, rbuf>>
    BY <1>4 DEF UpFlushEnds, Close, BuffersOK
  <2> QED
    BY <2>1, BuffersKept
<1> QED
  BY <1>1, <1>2, <1>3, <1>4 DEF Moving

\* Handlers that take a message, and send at most one.
LEMMA TakesOnly ==
  ASSUME BuffersOK, NEW e \in Sides, Readable(e), Take(e), UNCHANGED net,
         wbuf' = wbuf \/ wbuf' = [wbuf EXCEPT ![e] = wbuf[e]]
  PROVE  BuffersOK' /\ Takes(e, << >>)
<1>1. wbuf[e] = wbuf[e] \o << >>
  BY OneMore, MessageTypes DEF BuffersOK
<1>2. wbuf' = [wbuf EXCEPT ![e] = wbuf[e] \o << >>]
  BY <1>1 DEF BuffersOK
<1> QED
  BY <1>2, MessageTypes, BufferTakes DEF Take

LEMMA TakesAndSends ==
  ASSUME BuffersOK, NEW e \in Sides, Readable(e), Take(e), UNCHANGED net,
         NEW m \in Messages, wbuf' = [wbuf EXCEPT ![e] = Append(wbuf[e], m)]
  PROVE  BuffersOK' /\ Takes(e, << m >>)
<1>1. Append(wbuf[e], m) = wbuf[e] \o << m >> /\ << m >> \in Seq(Messages)
  BY OneMore DEF BuffersOK
<1>2. wbuf' = [wbuf EXCEPT ![e] = wbuf[e] \o << m >>]
  BY <1>1
<1> QED
  BY <1>1, <1>2, BufferTakes DEF Take

LEMMA SendsOne ==
  ASSUME BuffersOK, NEW e \in Sides, UNCHANGED <<net, rbuf>>, NEW m \in Messages,
         \/ wbuf' = [wbuf EXCEPT ![e] = Append(wbuf[e], m)]
         \/ wbuf[e] = << >> /\ wbuf' = [wbuf EXCEPT ![e] = << m >>]
  PROVE  BuffersOK' /\ Sends(e, << m >>)
<1>1. /\ Append(wbuf[e], m) = wbuf[e] \o << m >> /\ << m >> \in Seq(Messages)
      /\ << m >> = << >> \o << m >>
  BY OneMore DEF BuffersOK
<1>2. wbuf' = [wbuf EXCEPT ![e] = wbuf[e] \o << m >>]
  BY <1>1
<1> QED
  BY <1>1, <1>2, BufferSends

\* Handlers that abort the connection.
Aborting(e) == RemoteClosed(e) \/ Reset(e) \/ NetworkError(e) \/ ProtocolError(e)

LEMMA AbortingLoses ==
  ASSUME BuffersOK, NEW e \in Sides, Aborting(e),
         sock[Peer(e)] = "Unconnected" => wbuf[Peer(e)] = << >>
  PROVE  BuffersOK' /\ Loses(e)
<1>1. CASE RemoteClosed(e) \/ NetworkError(e)
  <2>1. /\ wbuf' = [wbuf EXCEPT ![e] = << >>] /\ net' = net
        /\ rbuf' = rbuf \/ rbuf' = [rbuf EXCEPT ![e] = << >>]
    BY <1>1 DEF RemoteClosed, NetworkError, SocketError, Abort, BuffersOK
  <2> QED
    BY <2>1, BufferLoses
<1>2. CASE Reset(e)
  <2>1. /\ wbuf' = [wbuf EXCEPT ![e] = << >>] /\ wbuf[Peer(e)] = << >>
        /\ net' = [net EXCEPT ![Peer(e)] = << >>]
        /\ rbuf' = [rbuf EXCEPT ![e] = << >>]
    BY <1>2 DEF Reset, SocketError, Abort
  <2> QED
    BY <2>1, BufferLoses
<1>3. CASE ProtocolError(e)
  <2>1. /\ wbuf' = [wbuf EXCEPT ![e] = << >>] /\ net' = net /\ rbuf[e] # << >>
        /\ \/ rbuf' = [rbuf EXCEPT ![e] = << >>]
           \/ rbuf' = [rbuf EXCEPT ![e] = Tail(rbuf[e])]
    BY <1>3 DEF ProtocolError, Abort, Readable
  <2> QED
    BY <2>1, BufferLoses
<1> QED
  BY <1>1, <1>2, <1>3 DEF Aborting

----------------------------------------------------------------------------
(* The control of the two sides. *)

Types ==
  /\ payload \in Payloads /\ faults \subseteq Faults
  /\ versions \in [Sides -> Nat]
  /\ status \in [Sides -> UpStatuses \cup DownStatuses]
  /\ error \in [Sides -> Errors] /\ greeted \in [Sides -> BOOLEAN]
  /\ pc \in [Sides -> Handlers] /\ calls \in [Sides -> Nat]
  /\ sock \in [Sides -> SocketStates]
  /\ DOMAIN mgr = Sides /\ DOMAIN content = Sides
  /\ choice \in {"None", "Accept", "Reject"}

\* An open socket belongs to a transfer that has not ended; one that closes
\* still has something to write.
Sockets ==
  \A e \in Sides :
    /\ sock[e] = "Closing" => wbuf[e] # << >>
    /\ sock[e] \notin {"Connected", "Closing"} => wbuf[e] = << >>
    /\ sock[e] = "Connected" => status[e] \notin Final
    /\ status[e] \notin Final \cup {"Init", "None", "Starting"} => sock[e] = "Connected"
    /\ status[e] \in {"Init", "None"} <=> sock[e] = "None"
    /\ sock[e] = "Connecting" =>
         e = "up" /\ status[e] = "Starting" /\ ~greeted[e] /\ pc[e] = "Loop"

\* Before its handshake a side waits for it, or has failed.
Greeting ==
  \A e \in Sides :
    /\ status[e] \in {"Init", "None", "Starting"} => ~greeted[e]
    /\ ~greeted[e] =>
         /\ calls[e] = 0 /\ pc[e] \in {"Loop", "Reading"}
         /\ status[e] \in {"Init", "None", "Starting", "Error"}
         /\ pc[e] = "Reading" => status[e] = "Starting" /\ sock[e] = "Connected"

\* The statuses in which each handler runs.
Handling ==
  /\ status["up"] \in UpStatuses /\ status["down"] \in DownStatuses
  /\ pc["down"] \in {"Loop", "Reading"}
  /\ pc["up"] \in Refilling => status["up"] = "Transfering"
  /\ pc["up"] = "Flush" => status["up"] \in {"Transfering", "Error"}
  /\ pc["up"] = "Crashed" => status["up"] = "Error" /\ changed # {}

Unanswered == {"Init", "Starting", "WaitingForPeerAnswer"}

\* The manager of the sender.
Sending ==
  /\ content["up"] \in Seq(Nat)
  /\ status["up"] \in Unanswered => mgr["up"] = NewManager(payload) /\ content["up"] = << >>
  /\ status["up"] = "Transfering" => Sender(payload, mgr["up"], content["up"])

Bounded ==
  /\ Len(wbuf["up"]) <= WriteLimit + 1
  /\ status["up"] \in {"Init", "Starting"} => Len(wbuf["up"]) <= 1

\* A failure that is not shown is being handled, is that of Connect, or has
\* been overwritten by the end of the download.
Failures ==
  \A e \in Sides :
    error[e] # "None" =>
      \/ status[e] = "Error" \/ Unheard(e)
      \/ e = "up" /\ pc["up"] \in {"Flush", "Flushed"}
      \/ /\ e = "up" /\ "unreachable" \in faults
         /\ sock["up"] = "Unconnected" /\ ~greeted["up"] /\ status["up"] = "Starting"

Control ==
  /\ Types /\ BuffersOK
  /\ Sockets /\ Greeting /\ Handling /\ Sending /\ Bounded /\ Failures

LEMMA ControlFacts ==
  ASSUME Control
  PROVE  /\ IsPayload(payload)
         /\ \A e \in Sides : /\ wbuf[e] \in Seq(Messages) /\ Len(wbuf[e]) \in Nat
                             /\ Len(wbuf[e]) = 0 <=> wbuf[e] = << >>
         /\ WriteLimit \in Nat /\ WriteLimit >= 1
<1>1. \A e \in Sides : wbuf[e] \in Seq(Messages)
  BY DEF Control, BuffersOK
<1>2. \A e \in Sides : Len(wbuf[e]) \in Nat /\ (Len(wbuf[e]) = 0 <=> wbuf[e] = << >>)
  BY <1>1, LenProperties, EmptySeq
<1> QED
  BY <1>1, <1>2, TransferAssumption DEF Control, Types

LEMMA ControlInit == Init => Control
<1> SUFFICES ASSUME Init
             PROVE  Control
  OBVIOUS
<1>1. BuffersOK
  BY MessageTypes DEF Init, BuffersOK, Both
<1>2. Types
  BY DEF Init, Environment, Types, Both, UpStatuses, DownStatuses, Errors, Handlers, SocketStates
<1>3. << >> \in Seq(Nat) /\ Len(<< >>) = 0
  BY EmptySeq
<1>4. Sockets /\ Greeting /\ Handling /\ Failures
  BY DEF Init, Both, Sides, Sockets, Greeting, Handling, Failures, UpStatuses, DownStatuses,
         Final, Refilling
<1>5. Sending /\ Bounded
  BY <1>3, TransferAssumption DEF Init, Both, Sides, Sending, Bounded
<1> QED
  BY <1>1, <1>2, <1>4, <1>5 DEF Control

LEMMA ControlConnect ==
  ASSUME Control, Connect \/ Connected \/ NewDownload
  PROVE  Control'
<1> USE DEF Constant
<1>1. CASE Connect
  <2>1. BuffersOK'
    BY <1>1, MovingKeeps DEF Control, Moving, Sides
  <2>2. /\ status' = [status EXCEPT !["up"] = "Starting"] /\ status["up"] = "Init"
        /\ UNCHANGED <<payload, faults, changed, versions, greeted, pc, calls, wbuf, mgr, content,
                       choice>>
    BY <1>1 DEF Connect
  <2>10. /\ sock' \in [Sides -> SocketStates] /\ sock'["down"] = sock["down"]
         /\ sock'["up"] \in {"Connecting", "Unconnected"}
         /\ error' \in [Sides -> Errors] /\ error'["down"] = error["down"]
         /\ \/ error'["up"] = error["up"]
            \/ "unreachable" \in faults /\ sock'["up"] = "Unconnected"
    <3>1. CASE sock' = [sock EXCEPT !["up"] = "Connecting"] /\ UNCHANGED error
      BY <3>1 DEF Control, Types, Sides, SocketStates
    <3>2. CASE /\ "unreachable" \in faults /\ sock' = [sock EXCEPT !["up"] = "Unconnected"]
               /\ error' = [error EXCEPT !["up"] = "Network"]
      BY <3>2 DEF Control, Types, Sides, Errors, SocketStates
    <3> QED
      BY <1>1, <3>1, <3>2 DEF Connect
  <2>3. Types'
    BY <2>2, <2>10 DEF Control, Types, UpStatuses, DownStatuses, Final, Errors, Handlers,
                       SocketStates
  <2>4. Sockets'
    BY <2>2, <2>10 DEF Control, Types, Sockets, Greeting, Sides, Final
  <2>5. Greeting'
    BY <2>2, <2>10 DEF Control, Types, Greeting, Sides
  <2>6. Handling'
    BY <2>2, <2>10 DEF Control, Types, Handling, Sides, UpStatuses, DownStatuses, Final, Refilling
  <2>7. Sending'
    BY <2>2, <2>10 DEF Control, Types, Handling, Sending, Sides, Unanswered
  <2>8. Bounded'
    BY <2>2, <2>10 DEF Control, Types, BuffersOK, Bounded, Sides
  <2>9. Failures'
    BY <2>2, <2>10 DEF Control, Types, Greeting, Handling, Refilling, Failures, Unheard, Sides
  <2> QED
    BY <2>1, <2>3, <2>4, <2>5, <2>6, <2>7, <2>8, <2>9 DEF Control
<1>2. CASE Connected
  <2>1. BuffersOK'
    BY <1>2, SendsOne, MessageTypes DEF Connected, Control, Types, Sockets, Sides
  <2>2. Types'
    BY <1>2
       DEF Connected, Control, Types, UpStatuses, DownStatuses, Final, Errors, Handlers,
           SocketStates
  <2>3. Sockets'
    BY <1>2
       DEF Connected, Control, Types, Sockets, Sides, Final
  <2>4. Greeting'
    BY <1>2
       DEF Connected, Control, Types, Greeting, Sides
  <2>5. Handling'
    BY <1>2
       DEF Connected, Control, Types, Handling, Sides, UpStatuses, DownStatuses, Final, Refilling
  <2>6. Sending'
    BY <1>2
       DEF Connected, Control, Types, Handling, Sending, Sides, Unanswered
  <2>7. Bounded'
    BY <1>2, ControlFacts
       DEF Connected, Control, Types, BuffersOK, Bounded, Sides
  <2>8. Failures'
    BY <1>2
       DEF Connected, Control, Types, Failures, Unheard, Sides
  <2> QED
    BY <2>1, <2>2, <2>3, <2>4, <2>5, <2>6, <2>7, <2>8 DEF Control
<1>3. CASE NewDownload
  <2>1. BuffersOK'
    BY <1>3, SendsOne, MessageTypes DEF NewDownload, Control, Types, Sockets, Sides
  <2>2. Types'
    BY <1>3
       DEF NewDownload, Control, Types, UpStatuses, DownStatuses, Final, Errors, Handlers,
           SocketStates
  <2>3. Sockets'
    BY <1>3
       DEF NewDownload, Control, Types, Sockets, Sides, Final
  <2>4. Greeting'
    BY <1>3
       DEF NewDownload, Control, Types, Greeting, Sides
  <2>5. Handling'
    BY <1>3
       DEF NewDownload, Control, Types, Handling, Sides, UpStatuses, DownStatuses, Final, Refilling
  <2>6. Sending'
    BY <1>3
       DEF NewDownload, Control, Types, Handling, Sending, Sides, Unanswered
  <2>7. Bounded'
    BY <1>3
       DEF NewDownload, Control, Types, BuffersOK, Bounded, Sides
  <2>8. Failures'
    BY <1>3
       DEF NewDownload, Control, Types, Failures, Unheard, Sides
  <2> QED
    BY <2>1, <2>2, <2>3, <2>4, <2>5, <2>6, <2>7, <2>8 DEF Control
<1> QED
  BY <1>1, <1>2, <1>3

LEMMA ControlMoving ==
  ASSUME Control, NEW e \in Sides, Write(e) \/ Arrive(e) \/ Timer(e) \/ Starved(e)
  PROVE  Control'
<1> USE DEF Constant
<1>1. CASE Write(e)
  <2>0. PICK k \in 1 .. Len(wbuf[e]) :
          /\ wbuf'[e] # << >> <=> k # Len(wbuf[e])
          /\ Len(wbuf'[e]) <= Len(wbuf[e]) /\ Len(wbuf[e]) \in Nat /\ Len(wbuf'[e]) \in Nat
          /\ wbuf' = [wbuf EXCEPT ![e] = wbuf'[e]]
          /\ sock' = IF sock[e] = "Closing" /\ k = Len(wbuf[e])
                     THEN [sock EXCEPT ![e] = "Unconnected"]
                     ELSE sock
          /\ sock[e] \in {"Connected", "Closing"} /\ pc[e] = "Loop"
          /\ UNCHANGED <<status, greeted>>
          /\ pc' = IF e = "up" /\ status[e] = "Transfering"
                   THEN [pc EXCEPT ![e] = "Written"]
                   ELSE pc
    <3>1. PICK k \in 1 .. Len(wbuf[e]) :
            /\ wbuf' = [wbuf EXCEPT ![e] = Rest(@, k)]
            /\ sock' = IF sock[e] = "Closing" /\ k = Len(wbuf[e])
                       THEN [sock EXCEPT ![e] = "Unconnected"]
                       ELSE sock
      BY <1>1 DEF Write
    <3>2. wbuf \in [Sides -> Seq(Messages)] /\ wbuf'[e] = Rest(wbuf[e], k)
      BY <3>1 DEF Control, BuffersOK
    <3>5. PICK w : w = wbuf[e]
      OBVIOUS
    <3>6. w \in Seq(Messages) /\ Len(w) \in Nat /\ k \in 1 .. Len(w)
      BY <3>2, <3>5, LenProperties
    <3>3. Rest(w, k) \in Seq(Messages) /\ Len(Rest(w, k)) = Len(w) - k
      <4>1. k \in 0 .. Len(w)
        BY <3>6
      <4> QED
        BY <3>6, <4>1, Split
    <3>4. Rest(w, k) # << >> <=> k # Len(w)
      BY <3>3, <3>6, EmptySeq
    <3>7. wbuf' = [wbuf EXCEPT ![e] = wbuf'[e]]
      BY <3>1, <3>2
    <3>8. /\ wbuf'[e] # << >> <=> k # Len(wbuf[e])
          /\ Len(wbuf'[e]) <= Len(wbuf[e]) /\ Len(wbuf[e]) \in Nat /\ Len(wbuf'[e]) \in Nat
      BY <3>2, <3>3, <3>4, <3>5, <3>6
    <3>9. /\ sock[e] \in {"Connected", "Closing"} /\ pc[e] = "Loop"
          /\ UNCHANGED <<status, greeted>>
          /\ pc' = IF e = "up" /\ status[e] = "Transfering"
                   THEN [pc EXCEPT ![e] = "Written"]
                   ELSE pc
      BY <1>1 DEF Write
    <3> QED
      BY <3>1, <3>7, <3>8, <3>9
  <2>1. BuffersOK'
    BY <1>1, MovingKeeps DEF Control, Moving
  <2>2. Types'
    BY <1>1
       DEF Write, Control, Types, UpStatuses, DownStatuses, Final, Errors, Handlers, SocketStates
  <2>3. Sockets'
    <3>1. /\ wbuf \in [Sides -> Seq(Messages)] /\ sock \in [Sides -> SocketStates]
          /\ pc \in [Sides -> Handlers]
      BY DEF Control, Types, BuffersOK
    <3>2. /\ wbuf'[Peer(e)] = wbuf[Peer(e)] /\ sock'[Peer(e)] = sock[Peer(e)]
          /\ pc'[Peer(e)] = pc[Peer(e)]
      BY <2>0, <3>1, Peers
    <3>3. sock'[e] = IF sock[e] = "Closing" /\ wbuf'[e] = << >> THEN "Unconnected" ELSE sock[e]
      BY <2>0, <3>1
    <3>4. wbuf'[e] # << >> => wbuf[e] # << >>
      BY <2>0, ControlFacts
    <3> QED
      BY <2>0, <3>2, <3>3, <3>4, Peers DEF Control, Sockets
  <2>4. Greeting'
    BY <1>1
       DEF Write, Control, Types, Greeting, Sides
  <2>5. Handling'
    BY <1>1
       DEF Write, Control, Types, Handling, Sides, UpStatuses, DownStatuses, Final, Refilling
  <2>6. Sending'
    BY <1>1
       DEF Write, Control, Types, Handling, Sending, Sides, Unanswered
  <2>7. Bounded'
    <3>1. wbuf'["up"] = wbuf["up"] \/ (e = "up" /\ Len(wbuf'["up"]) <= Len(wbuf["up"]))
      BY <2>0 DEF Control, BuffersOK, Sides
    <3>2. Len(wbuf["up"]) \in Nat /\ Len(wbuf'["up"]) \in Nat /\ WriteLimit \in Nat
      BY <2>0, <3>1, ControlFacts DEF Sides
    <3> QED
      BY <2>0, <3>1, <3>2 DEF Control, Bounded
  <2>8. Failures'
    BY <1>1
       DEF Write, Control, Types, Greeting, Handling, Refilling, Failures, Unheard, Sides
  <2> QED
    BY <2>1, <2>2, <2>3, <2>4, <2>5, <2>6, <2>7, <2>8 DEF Control
<1>2. CASE Arrive(e)
  <2>1. BuffersOK'
    BY <1>2, MovingKeeps DEF Control, Moving
  <2>2. Types'
    BY <1>2
       DEF Arrive, Control, Types, UpStatuses, DownStatuses, Final, Errors, Handlers, SocketStates
  <2>3. Sockets'
    BY <1>2
       DEF Arrive, Control, Types, Sockets, Greeting, Sides, Final
  <2>4. Greeting'
    BY <1>2
       DEF Arrive, Control, Types, Greeting, Sockets, Final, Sides
  <2>5. Handling'
    BY <1>2
       DEF Arrive, Control, Types, Handling, Sides, UpStatuses, DownStatuses, Final, Refilling
  <2>6. Sending'
    BY <1>2
       DEF Arrive, Control, Types, Handling, Sending, Sides, Unanswered
  <2>7. Bounded'
    BY <1>2, ControlFacts
       DEF Arrive, Control, Types, BuffersOK, Bounded, Sides
  <2>8. Failures'
    BY <1>2
       DEF Arrive, Control, Types, Greeting, Handling, Refilling, Failures, Unheard, Sides
  <2> QED
    BY <2>1, <2>2, <2>3, <2>4, <2>5, <2>6, <2>7, <2>8 DEF Control
<1>3. CASE Timer(e)
  <2>1. BuffersOK'
    BY <1>3, MovingKeeps DEF Control, Moving
  <2>2. Types'
    BY <1>3
       DEF Timer, Control, Types, UpStatuses, DownStatuses, Final, Errors, Handlers, SocketStates
  <2>3. Sockets'
    BY <1>3
       DEF Timer, Control, Types, Sockets, Greeting, Sides, Final
  <2>4. Greeting'
    BY <1>3
       DEF Timer, Control, Types, Greeting, Sides
  <2>5. Handling'
    BY <1>3
       DEF Timer, Control, Types, Handling, Sides, UpStatuses, DownStatuses, Final, Refilling
  <2>6. Sending'
    BY <1>3
       DEF Timer, Control, Types, Handling, Sending, Sides, Unanswered
  <2>7. Bounded'
    BY <1>3, ControlFacts
       DEF Timer, Control, Types, BuffersOK, Bounded, Sides
  <2>8. Failures'
    BY <1>3
       DEF Timer, Control, Types, Greeting, Handling, Refilling, Failures, Unheard, Sides
  <2> QED
    BY <2>1, <2>2, <2>3, <2>4, <2>5, <2>6, <2>7, <2>8 DEF Control
<1>4. CASE Starved(e)
  <2>1. BuffersOK'
    BY <1>4, MovingKeeps DEF Control, Moving
  <2>2. Types'
    BY <1>4
       DEF Starved, Stop, Control, Types, UpStatuses, DownStatuses, Final, Errors, Handlers,
           SocketStates
  <2>3. Sockets'
    BY <1>4
       DEF Starved, Stop, Control, Types, Sockets, Greeting, Sides, Final
  <2>4. Greeting'
    BY <1>4
       DEF Starved, Stop, Control, Types, Greeting, Sides
  <2>5. Handling'
    BY <1>4
       DEF Starved, Stop, Control, Types, Handling, Sides, UpStatuses, DownStatuses, Final,
           Refilling
  <2>6. Sending'
    BY <1>4
       DEF Starved, Stop, Control, Types, Handling, Sending, Sides, Unanswered
  <2>7. Bounded'
    BY <1>4, ControlFacts
       DEF Starved, Stop, Control, Types, BuffersOK, Bounded, Sides
  <2>8. Failures'
    BY <1>4
       DEF Starved, Stop, Control, Types, Greeting, Handling, Refilling, Failures, Unheard, Sides
  <2> QED
    BY <2>1, <2>2, <2>3, <2>4, <2>5, <2>6, <2>7, <2>8 DEF Control
<1> QED
  BY <1>1, <1>2, <1>3, <1>4

\* The handlers that end the transfer of e: the status becomes final, and the
\* socket unconnected, or closing if something is left to write.
Ends(e, st, w) ==
  /\ st \in Final /\ status[e] \notin {"Init", "None"} /\ (greeted[e] \/ st = "Error")
  /\ UNCHANGED <<payload, faults, changed, greeted>>
  /\ status' = [status EXCEPT ![e] = st]
  /\ wbuf' = [wbuf EXCEPT ![e] = w]
  /\ sock' = [sock EXCEPT ![e] = IF w = << >> THEN "Unconnected" ELSE "Closing"]
  /\ e = "up" => Len(w) <= WriteLimit + 1
  /\ error'[Peer(e)] = error[Peer(e)] /\ (error'[e] # "None" => st = "Error" \/ Unheard(e)')
  /\ pc'[Peer(e)] = pc[Peer(e)] /\ calls'[Peer(e)] = calls[Peer(e)]
  /\ \/ pc'[e] = "Loop" /\ calls'[e] = calls[e]
     \/ greeted[e] /\ pc'[e] \in {"Loop", "Reading"}
     \/ e = "up" /\ greeted[e] /\ st = "Error" /\ pc'[e] = "Flush"
     \/ e = "up" /\ greeted[e] /\ st = "Error" /\ pc'[e] = "Crashed" /\ changed # {}

\* The manager and what it has fed to the hashes are the sender's affair.
Aside(e) ==
  \/ e = "up" /\ content'["up"] \in Seq(Nat)
  \/ e = "down" /\ mgr'["up"] = mgr["up"] /\ content'["up"] = content["up"]

LEMMA ControlEnds ==
  ASSUME Control, NEW e \in Sides, NEW st, NEW w, Types', BuffersOK', Ends(e, st, w), Aside(e)
  PROVE  Control'
<1>1. /\ status'[e] = st /\ status'[Peer(e)] = status[Peer(e)]
      /\ wbuf'[e] = w /\ wbuf'[Peer(e)] = wbuf[Peer(e)]
      /\ sock'[e] = (IF w = << >> THEN "Unconnected" ELSE "Closing")
      /\ sock'[Peer(e)] = sock[Peer(e)] /\ st \in Final
  BY Peers DEF Control, Types, BuffersOK, Ends
<1>2. Sockets'
  BY <1>1, Peers DEF Control, Sockets, Ends, Final
<1>3. Greeting'
  BY <1>1, Peers DEF Control, Greeting, Ends, Final
<1>4. Handling'
  <2>1. status'["up"] \in UpStatuses /\ status'["down"] \in DownStatuses
    BY <1>1, Peers DEF Control, Handling, UpStatuses, DownStatuses, Sides
  <2>2. CASE e = "up"
    BY <1>1, <2>1, <2>2, Peers DEF Control, Handling, Ends, Final, Refilling
  <2>3. CASE e = "down"
    BY <1>1, <2>1, <2>3, Peers DEF Control, Handling, Ends, Final, Refilling, Greeting
  <2> QED
    BY <2>2, <2>3 DEF Sides
<1>5. Sending'
  BY <1>1, Peers DEF Control, Sending, Ends, Aside, Final, Unanswered, Sides
<1>6. Bounded'
  BY <1>1, Peers DEF Control, Bounded, Ends, Final, Sides
<1>7. Failures'
  <2>1. Unheard(Peer(e)) => Unheard(Peer(e))'
    BY <1>1, Peers DEF Ends, Unheard
  <2> QED
    BY <1>1, <2>1, Peers DEF Control, Failures, Ends, Sides
<1> QED
  BY <1>2, <1>3, <1>4, <1>5, <1>6, <1>7 DEF Control

LEMMA ControlAborts ==
  ASSUME Control, NEW e \in Sides, Aborting(e)
  PROVE  Control'
<1>1. /\ Types' /\ UNCHANGED <<payload, faults, changed, greeted>> /\ Aside(e)
  <2>1. CASE SocketError(e)
    BY <2>1 DEF SocketError, Abort, Failed, Constant, Control, Types, UpStatuses, DownStatuses,
                Final, Errors, SocketStates, Aside, Sending, Sides
  <2>2. CASE ProtocolError(e)
    BY <2>2 DEF ProtocolError, Stop, Abort, Failed, Constant, Control, Types, UpStatuses,
                DownStatuses, Final, Errors, SocketStates, Handlers, Aside, Sending, Sides
  <2> QED
    BY <2>1, <2>2 DEF Aborting, RemoteClosed, Reset, NetworkError
<1>2. status[e] \notin {"Init", "None"}
  BY DEF Aborting, RemoteClosed, Reset, NetworkError, ProtocolError, Control, Sockets, Greeting
<1>3. BuffersOK'
  BY AbortingLoses, Peers DEF Control, Sockets
<1>4. Ends(e, "Error", << >>)
  <2>1. Len(<< >>) <= WriteLimit + 1
    BY ControlFacts
  <2>2. CASE SocketError(e)
    BY <1>1, <1>2, <2>1, <2>2, Peers
       DEF SocketError, Abort, Failed, Ends, Final, Control, Types
  <2>3. CASE ProtocolError(e)
    BY <1>1, <1>2, <2>1, <2>3, Peers
       DEF ProtocolError, Stop, Abort, Failed, Ends, Final, Control, Types
  <2> QED
    BY <2>2, <2>3 DEF Aborting, RemoteClosed, Reset, NetworkError
<1> QED
  BY <1>1, <1>3, <1>4, ControlEnds

LEMMA ControlRefuses ==
  ASSUME Control, NEW e \in Sides, VersionMismatch(e)
  PROVE  Control'
<1>1. /\ Types' /\ Aside(e)
  BY DEF VersionMismatch, Stop, Close, Failed, Constant, Control, Types, UpStatuses,
         DownStatuses, Final, Errors, SocketStates, Handlers, Aside, Sending, Sides
<1>2. Readable(e) /\ Take(e) /\ UNCHANGED net
      /\ wbuf' = [wbuf EXCEPT ![e] = Append(wbuf[e], Msg("Error"))]
  BY DEF VersionMismatch, Taking, Close
<1>3. BuffersOK'
  BY <1>2, TakesAndSends, MessageTypes DEF Control
<1>4. status[e] = "Starting"
  BY DEF VersionMismatch, Taking, Control, Greeting
<1>5. /\ Append(wbuf[e], Msg("Error")) # << >>
      /\ Len(Append(wbuf[e], Msg("Error"))) = Len(wbuf[e]) + 1
  BY MessageTypes, AppendProperties, SMTT(30) DEF Control, BuffersOK
<1>6. e = "up" => Len(Append(wbuf[e], Msg("Error"))) <= WriteLimit + 1
  BY <1>4, <1>5, ControlFacts DEF Control, Bounded
<1>7. Ends(e, "Error", Append(wbuf[e], Msg("Error")))
  BY <1>4, <1>6, Peers
     DEF VersionMismatch, Stop, Close, Failed, Ends, Final, Constant, Control, Types
<1> QED
  BY <1>1, <1>3, <1>7, ControlEnds

\* The handlers that end an upload or a download at the peer's word, or at
\* the user's.
LEMMA ControlClosing ==
  ASSUME Control,
         \/ ReceiveReject \/ ReceiveCompleted \/ UpFlushEnds \/ UserRejects
         \/ \E e \in Sides : ReceiveError(e) /\ ~(e = "up" /\ status[e] = "Transfering")
  PROVE  Control'
<1> USE DEF Constant
<1>1. CASE ReceiveReject
  <2>1. Types' /\ Aside("up")
    BY <1>1 DEF ReceiveReject, Stop, Close, Control, Types, UpStatuses, DownStatuses, Final,
                SocketStates, Handlers, Aside, Sending, Sides
  <2>2. BuffersOK'
    BY <1>1, TakesOnly DEF ReceiveReject, Taking, Close, Control, Sides
  <2>3. greeted["up"]
    BY <1>1 DEF ReceiveReject, Expected, Control, Greeting, Sides
  <2>4. Ends("up", "Rejected", wbuf["up"])
    BY <1>1, <2>3, Peers
       DEF ReceiveReject, Expected, Stop, Close, Ends, Final, Control, Types, Sides, Bounded,
           Failures, Unheard, Handling, Refilling, Taking
  <2> QED
    BY <2>1, <2>2, <2>4, ControlEnds DEF Sides
<1>2. CASE ReceiveCompleted
  <2>1. Types' /\ Aside("up")
    BY <1>2 DEF ReceiveCompleted, Continue, Close, Control, Types, UpStatuses, DownStatuses,
                Final, SocketStates, Handlers, Aside, Sending, Sides
  <2>2. BuffersOK'
    BY <1>2, TakesOnly DEF ReceiveCompleted, Taking, Close, Control, Sides
  <2>3. greeted["up"]
    BY <1>2 DEF ReceiveCompleted, Expected, Control, Greeting, Sides
  <2>4. Ends("up", "Completed", wbuf["up"])
    BY <1>2, <2>3, Peers
       DEF ReceiveCompleted, Expected, Continue, Close, Ends, Final, Control, Types, Sides,
           Bounded, Failures, Unheard, Handling, Refilling, Taking
  <2> QED
    BY <2>1, <2>2, <2>4, ControlEnds DEF Sides
<1>3. CASE UpFlushEnds
  <2>1. Types' /\ Aside("up")
    BY <1>3 DEF UpFlushEnds, Stop, Close, Failed, Control, Types, UpStatuses, DownStatuses,
                Final, SocketStates, Handlers, Aside, Sending, Sides
  <2>2. BuffersOK'
    BY <1>3, MovingKeeps DEF Control, Moving, Sides
  <2>4. Ends("up", "Error", wbuf["up"])
    BY <1>3, Peers
       DEF UpFlushEnds, Stop, Close, Failed, Ends, Final, Control, Types, Sides, Bounded, Handling
  <2> QED
    BY <2>1, <2>2, <2>4, ControlEnds DEF Sides
<1>4. CASE UserRejects
  <2>1. Types' /\ Aside("down")
    BY <1>4 DEF UserRejects, Close, Control, Types, UpStatuses, DownStatuses, Final,
                SocketStates, Handlers, Aside, Sending, Sides
  <2>2. BuffersOK'
    BY <1>4, SendsOne, MessageTypes DEF UserRejects, Close, Control, Sides
  <2>3. greeted["down"]
    BY <1>4 DEF UserRejects, Control, Greeting, Sides
  <2>4. Ends("down", "Rejected", Append(wbuf["down"], Msg("Reject")))
    BY <1>4, <2>3, Peers
       DEF UserRejects, Close, Ends, Final, Control, Types, Sides, Handling, Failures, Unheard
  <2> QED
    BY <2>1, <2>2, <2>4, ControlEnds DEF Sides
<1>5. ASSUME NEW e \in Sides, ReceiveError(e), ~(e = "up" /\ status[e] = "Transfering")
      PROVE  Control'
  <2>0. /\ Taking(e, "Error") /\ greeted[e] /\ Take(e)
        /\ Close(e, wbuf[e]) /\ Failed(e, "Peer", mgr[e]) /\ Stop(e)
        /\ UNCHANGED <<payload, faults, changed, versions, greeted, net, content, choice>>
    BY <1>5 DEF ReceiveError
  <2>1. Types' /\ Aside(e)
    BY <2>0 DEF Stop, Close, Failed, Control, Types, UpStatuses, DownStatuses, Final, Errors,
                SocketStates, Handlers, Aside, Sending, Sides
  <2>2. BuffersOK'
    BY <2>0, TakesOnly DEF Taking, Close, Control
  <2>4. Ends(e, "Error", wbuf[e])
    BY <2>0, Peers
       DEF Taking, Stop, Close, Failed, Ends, Final, Control, Types, Bounded, Greeting
  <2> QED
    BY <2>1, <2>2, <2>4, ControlEnds
<1> QED
  BY <1>1, <1>2, <1>3, <1>4, <1>5

\* The handlers that leave the connection and the transfer of e open.
GoesOn(e, st) ==
  /\ sock[e] = "Connected" /\ sock' = sock
  /\ st \notin Final \cup {"Init", "None", "Starting"}
  /\ st \in IF e = "up" THEN UpStatuses ELSE DownStatuses
  /\ UNCHANGED <<payload, faults, changed>>
  /\ status' = [status EXCEPT ![e] = st] /\ greeted' = [greeted EXCEPT ![e] = TRUE]
  /\ wbuf'[Peer(e)] = wbuf[Peer(e)] /\ (e = "up" => Len(wbuf'[e]) <= WriteLimit + 1)
  /\ pc'[Peer(e)] = pc[Peer(e)] /\ calls'[Peer(e)] = calls[Peer(e)]
  /\ error'[Peer(e)] = error[Peer(e)]
  /\ \/ pc'[e] \in {"Loop", "Reading"} /\ error'[e] = error[e] /\ pc[e] \notin {"Flush", "Flushed"}
     \/ /\ e = "up" /\ st = "Transfering"
        /\ \/ pc'[e] \in {"Flush", "Flushed"}
           \/ /\ pc'[e] \in {"Accepted", "Written"} /\ error'[e] = error[e]
              /\ pc[e] \notin {"Flush", "Flushed"}

LEMMA ControlGoesOn ==
  ASSUME Control, NEW e \in Sides, NEW st, Types', BuffersOK', Sending', GoesOn(e, st)
  PROVE  Control'
<1>1. /\ status'[e] = st /\ status'[Peer(e)] = status[Peer(e)]
      /\ greeted'[e] /\ greeted'[Peer(e)] = greeted[Peer(e)]
      /\ sock'[e] = "Connected" /\ sock'[Peer(e)] = sock[Peer(e)]
  BY Peers DEF Control, Types, GoesOn
<1>2. Sockets'
  BY <1>1, Peers DEF Control, Sockets, GoesOn
<1>3. Greeting'
  BY <1>1, Peers DEF Control, Greeting, GoesOn
<1>4. Handling'
  <2>1. status'["up"] \in UpStatuses /\ status'["down"] \in DownStatuses
    BY <1>1, Peers DEF Control, Handling, GoesOn, Sides
  <2>2. CASE e = "up"
    BY <1>1, <2>1, <2>2, Peers DEF Control, Handling, GoesOn, Refilling
  <2>3. CASE e = "down"
    BY <1>1, <2>1, <2>3, Peers DEF Control, Handling, GoesOn, Refilling
  <2> QED
    BY <2>2, <2>3 DEF Sides
<1>5. Bounded'
  BY <1>1, Peers DEF Control, Bounded, GoesOn, Sides
<1>6. Failures'
  <2>1. status[e] \notin Final
    BY DEF Control, Sockets, GoesOn
  <2>2. error[e] # "None" => pc[e] \in {"Flush", "Flushed"}
    BY <2>1 DEF Control, Failures, Unheard, GoesOn, Final
  <2>3. CASE e = "up"
    BY <1>1, <2>2, <2>3, Peers DEF Control, Failures, Unheard, GoesOn, Sides
  <2>4. CASE e = "down"
    <3>1. error[e] = "None"
      BY <2>2, <2>4 DEF Control, Handling
    <3> QED
      BY <1>1, <2>4, <3>1, Peers DEF Control, Failures, Unheard, GoesOn, Sides
  <2> QED
    BY <2>3, <2>4 DEF Sides
<1> QED
  BY <1>2, <1>3, <1>4, <1>5, <1>6 DEF Control

LEMMA ControlGreets ==
  ASSUME Control, NEW e \in Sides, ReceiveHandshake(e)
  PROVE  Control'
<1>1. Types'
  BY DEF ReceiveHandshake, Constant, Control, Types, UpStatuses, DownStatuses
<1>2. /\ Readable(e) /\ Take(e) /\ UNCHANGED net
      /\ wbuf' = wbuf \/ (e = "up" /\ wbuf' = [wbuf EXCEPT ![e] = Append(wbuf[e], Msg("Offer"))])
  BY DEF ReceiveHandshake, Taking
<1>3. BuffersOK'
  BY <1>2, TakesOnly, TakesAndSends, MessageTypes DEF Control
<1>4. status[e] = "Starting" /\ sock[e] = "Connected" /\ pc[e] = "Reading"
  BY DEF ReceiveHandshake, Taking, Control, Greeting
<1>5. CASE e = "up"
  <2>1. Len(Append(wbuf[e], Msg("Offer"))) = Len(wbuf[e]) + 1
    BY MessageTypes, AppendProperties DEF Control, BuffersOK
  <2>2. Len(wbuf'[e]) <= WriteLimit + 1
    BY <1>2, <1>4, <1>5, <2>1, ControlFacts DEF Control, Bounded, BuffersOK
  <2>3. GoesOn(e, "WaitingForPeerAnswer")
    BY <1>2, <1>4, <1>5, <2>2, Peers
       DEF ReceiveHandshake, Constant, GoesOn, Final, UpStatuses, Control, Types, BuffersOK
  <2>4. Sending'
    BY <1>4, <1>5, <2>3
       DEF ReceiveHandshake, Constant, Control, Types, Sending, Unanswered
  <2> QED
    BY <1>1, <1>3, <2>3, <2>4, ControlGoesOn
<1>6. CASE e = "down"
  <2>3. GoesOn(e, "WaitingForOffer")
    BY <1>2, <1>4, <1>6, Peers
       DEF ReceiveHandshake, Constant, GoesOn, Final, DownStatuses, Control, Types, BuffersOK
  <2>4. Sending'
    BY <1>6, <2>3 DEF ReceiveHandshake, Constant, GoesOn, Control, Types, Sending, Unanswered, Sides
  <2> QED
    BY <1>1, <1>3, <2>3, <2>4, ControlGoesOn
<1> QED
  BY <1>5, <1>6 DEF Sides

\* start_transfer on a new manager.
LEMMA SenderStarts ==
  ASSUME NEW p, IsPayload(p)
  PROVE  Sender(p, StartTransfer(NewManager(p), "Sending"), << >>)
<1> DEFINE m == StartTransfer(NewManager(p), "Sending")
<1>1. /\ m.mode = "Sending" /\ m.current = 1 /\ m.next = 1 /\ m.total = 0
      /\ m.done = 0 /\ m.error = FALSE
      /\ m = [mode |-> "Sending", current |-> 1, next |-> 1, total |-> 0, done |-> 0,
              error |-> FALSE]
  BY DEF StartTransfer, NewManager
<1>2. 1 \in 1 .. End(p) /\ End(p) # 1 /\ p.start[1] = 0 /\ 0 <= TotalSize(p)
  BY PayloadFacts
<1>3. m \in Managers(p)
  <2>1. "Sending" \in Modes /\ FALSE \in BOOLEAN /\ 0 \in Nat
    BY DEF Modes
  <2> HIDE DEF m
  <2> QED
    BY <1>1, <1>2, <2>1 DEF Managers
<1>4. Position(m) \in Positions(p)
  BY <1>1, <1>2 DEF Position, Positions
<1>5. << >> \in Seq(Nat) /\ Len(<< >>) = 0
  BY EmptySeq
<1> QED
  BY <1>1, <1>2, <1>3, <1>4, <1>5 DEF Sender

LEMMA ControlAccepted ==
  ASSUME Control,
         \/ ReceiveAccept \/ RefillEnds \/ UpFlush
         \/ ReceiveError("up") /\ status["up"] = "Transfering"
  PROVE  Control'
<1> USE DEF Constant
<1>1. CASE ReceiveAccept
  <2>1. Types'
    BY <1>1 DEF ReceiveAccept, Control, Types, UpStatuses, Handlers
  <2>2. BuffersOK'
    BY <1>1, TakesOnly DEF ReceiveAccept, Taking, Control, Sides
  <2>3. GoesOn("up", "Transfering")
    BY <1>1, Peers
       DEF ReceiveAccept, Expected, Taking, GoesOn, Final, UpStatuses, Control, Types, Sides,
           Bounded, Sockets, Greeting
  <2>4. Sending'
    BY <1>1, ControlFacts, SenderStarts
       DEF ReceiveAccept, Expected, Taking, Control, Types, Sides, Sending, Unanswered
  <2> QED
    BY <2>1, <2>2, <2>3, <2>4, ControlGoesOn DEF Sides
<1>2. CASE RefillEnds
  <2>1. Types'
    BY <1>2 DEF RefillEnds, RefillReturns, Continue, Stop, Control, Types, Handlers
  <2>2. BuffersOK'
    BY <1>2, MovingKeeps DEF Moving, Control, Sides
  <2>3. GoesOn("up", "Transfering")
    BY <1>2, Peers
       DEF RefillEnds, RefillReturns, Continue, Stop, GoesOn, Final, UpStatuses, Control, Types,
           Sides, Bounded, Sockets, Greeting, Handling, Refilling
  <2>4. Sending'
    BY <1>2 DEF RefillEnds, Control, Types, Sides, Sending, Unanswered
  <2> QED
    BY <2>1, <2>2, <2>3, <2>4, ControlGoesOn DEF Sides
<1>3. CASE UpFlush
  <2>1. Types'
    BY <1>3 DEF UpFlush, Control, Types, Handlers
  <2>2. BuffersOK'
    BY <1>3, MovingKeeps DEF Moving, Control, Sides
  <2>3. Len(wbuf'["up"]) <= WriteLimit + 1 /\ wbuf'["down"] = wbuf["down"]
    <3>1. PICK k \in 1 .. Len(wbuf["up"]) : wbuf' = [wbuf EXCEPT !["up"] = Rest(@, k)]
      BY <1>3 DEF UpFlush
    <3>2. wbuf \in [Sides -> Seq(Messages)]
      BY DEF Control, BuffersOK
    <3>3. PICK w : w = wbuf["up"]
      OBVIOUS
    <3>4. w \in Seq(Messages) /\ Len(w) \in Nat /\ k \in 1 .. Len(w)
      BY <3>1, <3>2, <3>3, LenProperties DEF Sides
    <3>5. Len(Rest(w, k)) = Len(w) - k
      <4>1. k \in 0 .. Len(w)
        BY <3>4
      <4> QED
        BY <3>4, <4>1, Split
    <3>6. Len(wbuf'["up"]) <= Len(w) /\ wbuf'["down"] = wbuf["down"]
      BY <3>1, <3>2, <3>3, <3>4, <3>5 DEF Sides
    <3>7. Len(wbuf'["up"]) \in Nat
      BY <2>2, LenProperties DEF BuffersOK, Sides
    <3> QED
      BY <3>3, <3>4, <3>6, <3>7, ControlFacts DEF Control, Bounded
  <2>4. status["up"] = "Transfering"
    BY <1>3 DEF UpFlush, Control, Handling, Sockets, Sides, Final
  <2>5. GoesOn("up", "Transfering")
    BY <1>3, <2>3, <2>4, Peers
       DEF UpFlush, GoesOn, Final, UpStatuses, Control, Types, Sides, Greeting
  <2>6. Sending'
    BY <1>3 DEF UpFlush, Control, Types, Sides, Sending, Unanswered
  <2> QED
    BY <2>1, <2>2, <2>5, <2>6, ControlGoesOn DEF Sides
<1>4. CASE ReceiveError("up") /\ status["up"] = "Transfering"
  <2>0. /\ Taking("up", "Error") /\ Take("up") /\ pc' = [pc EXCEPT !["up"] = "Flush"]
        /\ error' = [error EXCEPT !["up"] = "Peer"]
        /\ UNCHANGED <<payload, faults, changed, versions, calls, status, mgr, sock, wbuf,
                       greeted, net, content, choice>>
    BY <1>4 DEF ReceiveError
  <2>1. Types'
    BY <2>0 DEF Control, Types, Handlers, Errors
  <2>2. BuffersOK'
    BY <2>0, TakesOnly DEF Taking, Control, Sides
  <2>3. GoesOn("up", "Transfering")
    BY <1>4, <2>0, Peers
       DEF GoesOn, Final, UpStatuses, Control, Types, Sides, Bounded, Sockets, Greeting
  <2>4. Sending'
    BY <2>0 DEF Control, Types, Sides, Sending, Unanswered
  <2> QED
    BY <2>1, <2>2, <2>3, <2>4, ControlGoesOn DEF Sides
<1> QED
  BY <1>1, <1>2, <1>3, <1>4

\* What send_next_chunk writes: a chunk, and at most one list of checksums.
LEMMA SentMsgs ==
  ASSUME NEW p, IsPayload(p), NEW after \in Managers(p), Position(after) \in Positions(p),
         NEW total \in Nat, NEW n \in Nat,
         NEW longer \in Seq(Nat), after.total <= Len(longer)
  PROVE  /\ << ChunkMsg(Span(total, n, {})) >> \in Seq(Messages)
         /\ Len(<< ChunkMsg(Span(total, n, {})) >>) = 1
         /\ PendingMsgs(p, after, longer) \in Seq(Messages)
         /\ Len(PendingMsgs(p, after, longer)) \in 0 .. 1
<1>1. ChunkMsg(Span(total, n, {})) \in Messages
  BY SpanFacts DEF ChunkMsg, Messages
<1>2. CASE PendingChecksums(after) = 0
  <2>1. PendingMsgs(p, after, longer) = << >>
    BY <1>2 DEF PendingMsgs
  <2> QED
    BY <1>1, <2>1, EmptySeq
<1>3. CASE PendingChecksums(after) # 0
  <2>1. ChecksumList(p, after, longer) = ChecksumsAt(p, longer, Position(after))
    BY DEF ChecksumList, ChecksumsAt, PendingChecksums, Position
  <2>2. Position(after).total = after.total
    BY DEF Position
  <2>3. ChecksumsAt(p, longer, Position(after)) \in Seq(Seq(Nat))
    BY <2>2, ChecksumsType
  <2>4. ChecksumsMsg(ChecksumList(p, after, longer)) \in Messages
    BY <2>1, <2>3 DEF ChecksumsMsg, Messages
  <2>5. PendingMsgs(p, after, longer) = << ChecksumsMsg(ChecksumList(p, after, longer)) >>
    BY <1>3 DEF PendingMsgs
  <2> QED
    BY <1>1, <2>4, <2>5
<1> QED
  BY <1>2, <1>3

LEMMA SendFacts ==
  ASSUME Control, SendNextChunk
  PROVE  /\ status["up"] = "Transfering" /\ Sender(payload, mgr["up"], content["up"])
         /\ \E n \in 1 .. Remaining(payload, mgr["up"]) :
            \E after \in Moved(payload, mgr["up"], n), msgs \in Seq(Messages) :
              /\ msgs = << ChunkMsg(Span(mgr["up"].total, n, {})) >>
                          \o PendingMsgs(payload, after, content'["up"])
              /\ Len(msgs) \in 1 .. 2 /\ BuffersOK' /\ Sends("up", msgs)
              /\ wbuf' = [wbuf EXCEPT !["up"] = wbuf["up"] \o msgs]
              /\ content'["up"] \in Seq(Nat) /\ Len(content'["up"]) = mgr["up"].total + n
              /\ \A k \in 1 .. Len(content["up"]) : content'["up"][k] = content["up"][k]
              /\ mgr'["up"] = TakePendingChecksums(payload, after)
              /\ Sender(payload, mgr'["up"], content'["up"])
<1>1. status["up"] = "Transfering" /\ Sender(payload, mgr["up"], content["up"])
  BY DEF SendNextChunk, Control, Handling, Sending
<1>0. PICK m, n, c : m = mgr["up"] /\ n = NextChunkSize(payload, m) /\ c = content["up"]
  OBVIOUS
<1>2. /\ IsPayload(payload) /\ m \in Managers(payload) /\ m.total < TotalSize(payload)
      /\ c \in Seq(Nat) /\ m.total = Len(c) /\ m.total \in Nat /\ Sender(payload, m, c)
  BY <1>0, <1>1, ControlFacts DEF SendNextChunk, MayRefill, Sender, Managers
<1>3. n \in 1 .. Remaining(payload, m) /\ n \in Nat
  <2>1. n \in 1 .. Remaining(payload, m)
    BY <1>0, <1>2, NextChunk
  <2> QED
    BY <1>2, <2>1, PayloadFacts DEF Remaining
<1>17. PICK torn :
         \E after \in Moved(payload, mgr["up"], NextChunkSize(payload, mgr["up"])) :
           /\ content' = [content EXCEPT !["up"] =
                Extend(content["up"], mgr["up"].total, NextChunkSize(payload, mgr["up"]),
                       Span(mgr["up"].total, NextChunkSize(payload, mgr["up"]), torn))]
           /\ mgr' = [mgr EXCEPT !["up"] = TakePendingChecksums(payload, after)]
           /\ wbuf' = [wbuf EXCEPT !["up"] =
                wbuf["up"]
                  \o << ChunkMsg(Span(mgr["up"].total, NextChunkSize(payload, mgr["up"]), {})) >>
                  \o PendingMsgs(payload, after, content'["up"])]
  BY DEF SendNextChunk
<1>16. PICK after \in Moved(payload, mgr["up"], NextChunkSize(payload, mgr["up"])) :
         /\ content' = [content EXCEPT !["up"] =
              Extend(content["up"], mgr["up"].total, NextChunkSize(payload, mgr["up"]),
                     Span(mgr["up"].total, NextChunkSize(payload, mgr["up"]), torn))]
         /\ mgr' = [mgr EXCEPT !["up"] = TakePendingChecksums(payload, after)]
         /\ wbuf' = [wbuf EXCEPT !["up"] =
              wbuf["up"]
                \o << ChunkMsg(Span(mgr["up"].total, NextChunkSize(payload, mgr["up"]), {})) >>
                \o PendingMsgs(payload, after, content'["up"])]
  BY <1>17
<1>4. /\ after \in Moved(payload, m, n)
      /\ content' = [content EXCEPT !["up"] = Extend(c, m.total, n, Span(m.total, n, torn))]
      /\ mgr' = [mgr EXCEPT !["up"] = TakePendingChecksums(payload, after)]
      /\ wbuf' = [wbuf EXCEPT !["up"] =
                    wbuf["up"] \o << ChunkMsg(Span(m.total, n, {})) >>
                      \o PendingMsgs(payload, after, content'["up"])]
  BY <1>0, <1>16
<1>5. PICK longer : longer = Extend(c, m.total, n, Span(m.total, n, torn))
  OBVIOUS
<1>6. content'["up"] = longer /\ mgr'["up"] = TakePendingChecksums(payload, after)
  BY <1>4, <1>5 DEF Control, Types, Sides
<1>7. /\ longer \in Seq(Nat) /\ Len(longer) = m.total + n
      /\ \A k \in 1 .. Len(c) : longer[k] = c[k]
  <2>1. PICK total : total = m.total
    OBVIOUS
  <2>2. c \in Seq(Nat) /\ total = Len(c) /\ longer = Extend(c, total, n, Span(total, n, torn))
    BY <1>2, <1>5, <2>1
  <2>3. /\ longer \in Seq(Nat) /\ Len(longer) = total + n
        /\ \A k \in 1 .. Len(c) : longer[k] = c[k]
    BY <1>3, <2>2, HashedBytes
  <2> QED
    BY <2>1, <2>3
<1>8. /\ after \in Managers(payload) /\ Position(after) \in Positions(payload)
      /\ after.total = m.total + n /\ Sender(payload, TakePendingChecksums(payload, after), longer)
  <2>1. /\ IsPayload(payload) /\ Sender(payload, m, c) /\ n \in 1 .. Remaining(payload, m)
        /\ after \in Moved(payload, m, n) /\ longer \in Seq(Nat) /\ Len(longer) = m.total + n
    BY <1>2, <1>3, <1>4, <1>7
  <2> QED
    BY <2>1, SenderStep, ZenonT(60)
<1>9. PICK msgs : msgs = << ChunkMsg(Span(m.total, n, {})) >> \o PendingMsgs(payload, after, longer)
  OBVIOUS
<1>14. PICK a, b, w : /\ a = << ChunkMsg(Span(m.total, n, {})) >>
                      /\ b = PendingMsgs(payload, after, longer) /\ w = wbuf["up"]
  OBVIOUS
<1>15. /\ a \in Seq(Messages) /\ Len(a) = 1 /\ b \in Seq(Messages) /\ Len(b) \in 0 .. 1
  <2>1. after.total <= Len(longer) /\ m.total \in Nat
    BY <1>2, <1>3, <1>7, <1>8
  <2> QED
    BY <1>2, <1>3, <1>7, <1>8, <1>14, <2>1, SentMsgs
<1>10. msgs \in Seq(Messages) /\ Len(msgs) \in 1 .. 2
  <2>1. msgs = a \o b
    BY <1>9, <1>14
  <2>2. a \o b \in Seq(Messages) /\ Len(a \o b) = Len(a) + Len(b)
    BY <1>15, ConcatProperties
  <2> QED
    BY <1>15, <2>1, <2>2
<1>11. wbuf["up"] \o << ChunkMsg(Span(m.total, n, {})) >> \o PendingMsgs(payload, after, longer)
         = wbuf["up"] \o msgs
  <2>1. w \in Seq(Messages)
    BY <1>14 DEF Control, BuffersOK, Sides
  <2>2. (w \o a) \o b = w \o (a \o b)
    BY <1>15, <2>1, Associative
  <2> QED
    BY <1>9, <1>14, <2>2
<1>12. wbuf' = [wbuf EXCEPT !["up"] = wbuf["up"] \o msgs]
  BY <1>4, <1>6, <1>11
<1>13. BuffersOK' /\ Sends("up", msgs)
  <2>1. UNCHANGED <<net, rbuf>>
    BY DEF SendNextChunk
  <2> QED
    BY <1>10, <1>12, <2>1, BufferSends DEF Control, Sides
<1> QED
  BY <1>0, <1>1, <1>2, <1>3, <1>6, <1>7, <1>8, <1>9, <1>10, <1>12, <1>13

LEMMA ControlSends ==
  ASSUME Control, SendNextChunk
  PROVE  Control'
<1>1. Types'
  <2>1. /\ pc' \in [Sides -> Handlers] /\ calls' \in [Sides -> Nat]
    <3>1. UNCHANGED <<pc, calls>> \/ RefillReturns
      BY Zenon DEF SendNextChunk
    <3> QED
      BY <3>1 DEF RefillReturns, Continue, Stop, Control, Types, Handlers
  <2>2. DOMAIN content' = Sides /\ DOMAIN mgr' = Sides
    <3>1. /\ \E x : content' = [content EXCEPT !["up"] = x]
          /\ \E x : mgr' = [mgr EXCEPT !["up"] = x]
      BY Zenon DEF SendNextChunk
    <3> QED
      BY <3>1 DEF Control, Types
  <2> QED
    BY <2>1, <2>2 DEF SendNextChunk, Constant, Control, Types
<1>2. PICK msgs \in Seq(Messages) :
        /\ Len(msgs) \in 1 .. 2 /\ BuffersOK'
        /\ wbuf' = [wbuf EXCEPT !["up"] = wbuf["up"] \o msgs]
        /\ Sender(payload, mgr'["up"], content'["up"])
  BY SendFacts
<1>3. status["up"] = "Transfering"
  BY DEF SendNextChunk, Control, Handling
<1>4. Len(wbuf'["up"]) <= WriteLimit + 1 /\ wbuf'["down"] = wbuf["down"]
  <2>1. wbuf["up"] \in Seq(Messages) /\ Len(wbuf["up"]) < WriteLimit
    BY DEF SendNextChunk, MayRefill, Control, BuffersOK, Sides
  <2>2. /\ wbuf'["up"] = wbuf["up"] \o msgs /\ wbuf'["down"] = wbuf["down"]
    BY <1>2 DEF Control, BuffersOK, Sides
  <2>3. Len(wbuf["up"] \o msgs) = Len(wbuf["up"]) + Len(msgs)
    BY <2>1, ConcatProperties
  <2> QED
    <3>1. Len(wbuf["up"]) \in Nat /\ WriteLimit \in Nat
      BY ControlFacts DEF Sides
    <3>2. Len(msgs) \in 1 .. 2
      BY <1>2
    <3>3. PICK a, b : a = Len(wbuf["up"]) /\ b = Len(msgs)
      OBVIOUS
    <3>4. a + b <= WriteLimit + 1
      BY <2>1, <3>1, <3>2, <3>3
    <3> QED
      BY <2>2, <2>3, <3>3, <3>4
<1>5. GoesOn("up", "Transfering")
  BY <1>3, <1>4, Peers
     DEF SendNextChunk, Constant, RefillReturns, Continue, Stop, GoesOn, Final, UpStatuses,
         Control, Types, Sides, Sockets, Greeting, Refilling
<1>6. Sending'
  BY <1>2, <1>3 DEF SendNextChunk, Constant, Sender, Sending, Unanswered
<1> QED
  BY <1>1, <1>2, <1>5, <1>6, ControlGoesOn DEF Sides

\* A message behind the others, and the beginning of them all written.
LEMMA BufferFails ==
  ASSUME BuffersOK, NEW e \in Sides, NEW msgs \in Seq(Messages),
         NEW w, NEW k, w = wbuf[e] \o msgs, k \in 0 .. Len(w),
         net' = [net EXCEPT ![e] = net[e] \o Prefix(w, k)],
         wbuf' = [wbuf EXCEPT ![e] = Rest(w, k)], rbuf' = rbuf
  PROVE  /\ BuffersOK' /\ Sends(e, msgs)
         /\ w \in Seq(Messages) /\ Len(w) = Len(wbuf[e]) + Len(msgs)
         /\ Len(Rest(w, k)) = Len(w) - k
<1>1. w \in Seq(Messages) /\ Len(w) = Len(wbuf[e]) + Len(msgs)
  BY ConcatProperties DEF BuffersOK
<1>2. /\ Prefix(w, k) \in Seq(Messages) /\ Rest(w, k) \in Seq(Messages)
      /\ Len(Rest(w, k)) = Len(w) - k
  BY <1>1, Split
<1>3. net[e] \o Prefix(w, k) \in Seq(Messages)
  BY <1>2, ConcatProperties DEF BuffersOK
<1>4. /\ net'[e] = net[e] \o Prefix(w, k) /\ wbuf'[e] = Rest(w, k)
      /\ net'[Peer(e)] = net[Peer(e)] /\ wbuf'[Peer(e)] = wbuf[Peer(e)]
      /\ net' \in [Sides -> Seq(Messages)] /\ wbuf' \in [Sides -> Seq(Messages)]
  BY <1>2, <1>3, Peers DEF BuffersOK
<1>5. Stream(e)' = Joined(rbuf[Peer(e)], net[e] \o Prefix(w, k), Rest(w, k))
  BY <1>4 DEF Stream
<1>6. Stream(e)' = Stream(e) \o msgs
  <2>0. PICK r, n, b : r = rbuf[Peer(e)] /\ n = net[e] /\ b = wbuf[e]
    OBVIOUS
  <2>1. r \in Seq(Messages) /\ n \in Seq(Messages) /\ b \in Seq(Messages)
    BY <2>0, Peers DEF BuffersOK
  <2>4. w \in Seq(Messages)
    BY <1>1
  <2>5. PICK v, j : v = w /\ j = k
    OBVIOUS
  <2>6. v \in Seq(Messages) /\ j \in 0 .. Len(v)
    BY <2>4, <2>5
  <2>7. Joined(r, n \o Prefix(v, j), Rest(v, j)) = Joined(r, n, v)
    BY <2>1, <2>6, Moves
  <2>2. Joined(r, n \o Prefix(w, k), Rest(w, k)) = Joined(r, n, w)
    BY <2>5, <2>7
  <2>3. Joined(r, n, b \o msgs) = Joined(r, n, b) \o msgs
    BY <2>1, SMTT(30) DEF Joined
  <2> QED
    BY <1>5, <2>0, <2>2, <2>3 DEF Stream
<1>7. Stream(Peer(e))' = Stream(Peer(e))
  BY <1>4, Peers DEF Stream
<1> QED
  BY <1>1, <1>2, <1>4, <1>6, <1>7 DEF BuffersOK, Sends

\* A chunk cut short: it holds something else than the files' bytes, or it
\* never ends.
LEMMA CutMsgs ==
  ASSUME NEW total \in Nat, NEW n \in Nat, NEW good, NEW cut \in CutChunks(total, n, good)
  PROVE  /\ cut \in Seq(Messages) /\ Len(cut) \in 1 .. 2
         /\ \/ cut = << Msg("Incomplete") >>
            \/ cut = << ChunkMsg(Span(total, n, total + good + 1 .. total + n)),
                      Msg("Garbage") >>
<1>1. ChunkMsg(Span(total, n, total + good + 1 .. total + n)) \in Messages
  BY SpanFacts DEF ChunkMsg, Messages
<1>2. Msg("Garbage") \in Messages /\ Msg("Incomplete") \in Messages
  BY MessageTypes
<1>3. \/ cut = << Msg("Incomplete") >>
      \/ cut = << ChunkMsg(Span(total, n, total + good + 1 .. total + n)), Msg("Garbage") >>
  BY DEF CutChunks
<1>4. PICK a, b, c : /\ a = ChunkMsg(Span(total, n, total + good + 1 .. total + n))
                     /\ b = Msg("Garbage") /\ c = Msg("Incomplete")
  OBVIOUS
<1>5. /\ << a, b >> \in Seq(Messages) /\ Len(<< a, b >>) = 2
      /\ << c >> \in Seq(Messages) /\ Len(<< c >>) = 1
  BY <1>1, <1>2, <1>4
<1>6. cut = << c >> \/ cut = << a, b >>
  BY <1>3, <1>4
<1>7. cut \in Seq(Messages) /\ Len(cut) \in 1 .. 2
  <2>1. CASE cut = << c >>
    BY <1>5, <2>1
  <2>2. CASE cut = << a, b >>
    BY <1>5, <2>2
  <2> QED
    BY <1>6, <2>1, <2>2
<1> QED
  BY <1>3, <1>7

\* What the failure to open a file does, f being the file and good the bytes
\* of the chunk that come before it.
LEMMA SendFailsFacts ==
  ASSUME Control, SendFails
  PROVE  /\ status["up"] = "Transfering" /\ Sender(payload, mgr["up"], content["up"])
         /\ changed # {} /\ status' = [status EXCEPT !["up"] = "Error"]
         /\ \E n \in 1 .. Remaining(payload, mgr["up"]), good \in Nat, cut \in Seq(Messages) :
              /\ good < n /\ cut \in CutChunks(mgr["up"].total, n, good)
              /\ BuffersOK' /\ Sends("up", cut)
              /\ content'["up"] \in Seq(Nat) /\ Len(content'["up"]) = mgr["up"].total + good
              /\ \A k \in 1 .. Len(content["up"]) : content'["up"][k] = content["up"][k]
         /\ DOMAIN content' = Sides /\ DOMAIN mgr' = Sides
         /\ mgr'["down"] = mgr["down"] /\ content'["down"] = content["down"]
         /\ \E w \in Seq(Messages) :
              /\ wbuf' = [wbuf EXCEPT !["up"] = w] /\ Len(w) <= WriteLimit + 1
              /\ sock' = [sock EXCEPT !["up"] = IF w = << >> THEN "Unconnected" ELSE "Closing"]
<1>1. /\ status["up"] = "Transfering" /\ Sender(payload, mgr["up"], content["up"])
      /\ changed # {} /\ status' = [status EXCEPT !["up"] = "Error"]
  BY DEF SendFails, Failed, Control, Handling, Sending
<1>0. PICK m, n, c : m = mgr["up"] /\ n = NextChunkSize(payload, m) /\ c = content["up"]
  OBVIOUS
<1>2. /\ IsPayload(payload) /\ m \in Managers(payload) /\ m.total < TotalSize(payload)
      /\ c \in Seq(Nat) /\ m.total = Len(c) /\ m.total \in Nat /\ Sender(payload, m, c)
  BY <1>0, <1>1, ControlFacts DEF SendFails, MayRefill, Sender, Managers
<1>3. n \in 1 .. Remaining(payload, m) /\ n \in Nat
  <2>1. n \in 1 .. Remaining(payload, m)
    BY <1>0, <1>2, NextChunk
  <2> QED
    BY <1>2, <2>1, PayloadFacts DEF Remaining
<1>4. PICK f \in Opens(payload, mgr["up"], NextChunkSize(payload, mgr["up"])) :
      \E cut \in CutChunks(mgr["up"].total, NextChunkSize(payload, mgr["up"]),
                           payload.start[f] - mgr["up"].total) :
      \E k \in 0 .. Len(wbuf["up"] \o cut) :
        /\ net' = [net EXCEPT !["up"] = @ \o Prefix(wbuf["up"] \o cut, k)]
        /\ Close("up", Rest(wbuf["up"] \o cut, k))
        /\ content' = [content EXCEPT !["up"] =
             Extend(content["up"], mgr["up"].total, payload.start[f] - mgr["up"].total,
                    Span(mgr["up"].total, payload.start[f] - mgr["up"].total, {}))]
        /\ \E x : mgr' = [mgr EXCEPT !["up"] = x]
  BY DEF SendFails, ChunkOpens, Failed
<1>5. PICK good : good = payload.start[f] - m.total
  OBVIOUS
<1>6. good \in Nat /\ good < n
  <2>1. f \in Opens(payload, m, n)
    BY <1>0, <1>4
  <2>2. /\ f \in m.current .. payload.nb /\ m.total <= payload.start[f]
        /\ payload.start[f] < m.total + n
    BY <2>1 DEF Opens
  <2>3. payload.start[f] \in Nat
    BY <1>2, <2>2, PayloadFacts DEF Managers
  <2> QED
    BY <1>2, <1>3, <1>5, <2>2, <2>3
<1>7. PICK cut \in CutChunks(m.total, n, good) :
      \E k \in 0 .. Len(wbuf["up"] \o cut) :
        /\ net' = [net EXCEPT !["up"] = @ \o Prefix(wbuf["up"] \o cut, k)]
        /\ Close("up", Rest(wbuf["up"] \o cut, k))
        /\ content' = [content EXCEPT !["up"] = Extend(c, m.total, good, Span(m.total, good, {}))]
        /\ \E x : mgr' = [mgr EXCEPT !["up"] = x]
  BY <1>0, <1>4, <1>5
<1>18. PICK w : w = wbuf["up"] \o cut
  OBVIOUS
<1>8. PICK k \in 0 .. Len(w) :
        /\ net' = [net EXCEPT !["up"] = @ \o Prefix(w, k)]
        /\ Close("up", Rest(w, k))
        /\ content' = [content EXCEPT !["up"] = Extend(c, m.total, good, Span(m.total, good, {}))]
        /\ \E x : mgr' = [mgr EXCEPT !["up"] = x]
  BY <1>7, <1>18
<1>9. cut \in Seq(Messages) /\ Len(cut) \in 1 .. 2
  BY <1>2, <1>3, <1>7, CutMsgs
<1>10. /\ BuffersOK' /\ Sends("up", cut)
       /\ w \in Seq(Messages) /\ Len(w) = Len(wbuf["up"]) + Len(cut)
       /\ Len(Rest(w, k)) = Len(w) - k
  <2>1. /\ wbuf' = [wbuf EXCEPT !["up"] = Rest(w, k)] /\ UNCHANGED rbuf
        /\ net' = [net EXCEPT !["up"] = @ \o Prefix(w, k)]
        /\ k \in 0 .. Len(w) /\ w = wbuf["up"] \o cut
    BY <1>8, <1>18 DEF Close, SendFails
  <2>2. BuffersOK /\ "up" \in Sides /\ cut \in Seq(Messages)
    BY <1>9 DEF Control, Sides
  <2>3. k \in 0 .. Len(w) /\ w = wbuf["up"] \o cut
    BY <2>1
  <2>4. wbuf' = [wbuf EXCEPT !["up"] = Rest(w, k)] /\ rbuf' = rbuf
    BY <2>1
  <2>5. net' = [net EXCEPT !["up"] = net["up"] \o Prefix(w, k)]
    BY <2>1
  <2> QED
    BY <2>2, <2>3, <2>4, <2>5, BufferFails
<1>11. Rest(w, k) \in Seq(Messages) /\ Len(Rest(w, k)) <= WriteLimit + 1
  <2>1. k \in 0 .. Len(w)
    BY <1>8
  <2>2. Rest(w, k) \in Seq(Messages)
    BY <1>10, <2>1, Split
  <2>3. Len(wbuf["up"]) < WriteLimit /\ Len(wbuf["up"]) \in Nat /\ WriteLimit \in Nat
    BY ControlFacts DEF SendFails, MayRefill, Sides
  <2>4. PICK a, b, d : a = Len(wbuf["up"]) /\ b = Len(cut) /\ d = Len(w)
    OBVIOUS
  <2>5. d = a + b /\ b \in 1 .. 2 /\ k \in 0 .. d /\ a < WriteLimit /\ a \in Nat
    BY <1>9, <1>10, <2>1, <2>3, <2>4
  <2>6. d - k <= WriteLimit + 1
    BY <2>3, <2>5
  <2> QED
    BY <1>10, <2>2, <2>4, <2>6
<1>12. PICK longer : longer = Extend(c, m.total, good, Span(m.total, good, {}))
  OBVIOUS
<1>13. /\ longer \in Seq(Nat) /\ Len(longer) = m.total + good
       /\ \A i \in 1 .. Len(c) : longer[i] = c[i]
  <2>1. PICK total : total = m.total
    OBVIOUS
  <2>2. c \in Seq(Nat) /\ total = Len(c) /\ longer = Extend(c, total, good, Span(total, good, {}))
    BY <1>2, <1>12, <2>1
  <2>3. /\ longer \in Seq(Nat) /\ Len(longer) = total + good
        /\ \A i \in 1 .. Len(c) : longer[i] = c[i]
    <3> PICK torn : torn = {}
      OBVIOUS
    <3>1. /\ c \in Seq(Nat) /\ total = Len(c) /\ good \in Nat
          /\ longer = Extend(c, total, good, Span(total, good, torn))
      BY <1>6, <2>2
    <3> QED
      BY <3>1, HashedBytes, SMTT(60)
  <2> QED
    BY <2>1, <2>3
<1>14. /\ content'["up"] = longer /\ content'["down"] = content["down"]
       /\ mgr'["down"] = mgr["down"] /\ DOMAIN content' = Sides /\ DOMAIN mgr' = Sides
  BY <1>8, <1>12 DEF Control, Types, Sides
<1>15. /\ wbuf' = [wbuf EXCEPT !["up"] = Rest(w, k)]
       /\ sock' = [sock EXCEPT !["up"] = IF Rest(w, k) = << >> THEN "Unconnected" ELSE "Closing"]
  BY <1>8 DEF Close
<1>16. \E i \in 1 .. Remaining(payload, mgr["up"]), j \in Nat, d \in Seq(Messages) :
         /\ j < i /\ d \in CutChunks(mgr["up"].total, i, j)
         /\ BuffersOK' /\ Sends("up", d)
         /\ content'["up"] \in Seq(Nat) /\ Len(content'["up"]) = mgr["up"].total + j
         /\ \A l \in 1 .. Len(content["up"]) : content'["up"][l] = content["up"][l]
  <2>1. /\ n \in 1 .. Remaining(payload, mgr["up"]) /\ good \in Nat /\ cut \in Seq(Messages)
        /\ good < n /\ cut \in CutChunks(mgr["up"].total, n, good)
        /\ BuffersOK' /\ Sends("up", cut)
        /\ content'["up"] \in Seq(Nat) /\ Len(content'["up"]) = mgr["up"].total + good
        /\ \A l \in 1 .. Len(content["up"]) : content'["up"][l] = content["up"][l]
    BY <1>0, <1>3, <1>6, <1>7, <1>9, <1>10, <1>13, <1>14
  <2> QED
    BY <2>1
<1>17. \E v \in Seq(Messages) :
         /\ wbuf' = [wbuf EXCEPT !["up"] = v] /\ Len(v) <= WriteLimit + 1
         /\ sock' = [sock EXCEPT !["up"] = IF v = << >> THEN "Unconnected" ELSE "Closing"]
  BY <1>11, <1>15
<1> QED
  BY <1>1, <1>14, <1>16, <1>17, Zenon

LEMMA ControlSendFails ==
  ASSUME Control, SendFails
  PROVE  Control'
<1>1. /\ changed # {} /\ status' = [status EXCEPT !["up"] = "Error"]
      /\ BuffersOK' /\ content'["up"] \in Seq(Nat)
      /\ DOMAIN content' = Sides /\ DOMAIN mgr' = Sides /\ status["up"] = "Transfering"
  BY SendFailsFacts
<1>2. PICK w \in Seq(Messages) :
        /\ wbuf' = [wbuf EXCEPT !["up"] = w] /\ Len(w) <= WriteLimit + 1
        /\ sock' = [sock EXCEPT !["up"] = IF w = << >> THEN "Unconnected" ELSE "Closing"]
  BY SendFailsFacts
<1>3. /\ UNCHANGED <<payload, faults, changed, versions, greeted, calls, rbuf, choice>>
      /\ error' = [error EXCEPT !["up"] = "Payload"]
      /\ \E x \in {"Crashed", "Flush", "Loop"} : pc' = [pc EXCEPT !["up"] = x]
  BY DEF SendFails, Failed, Constant
<1>4. Types'
  BY <1>1, <1>2, <1>3
     DEF Control, Types, Sides, Errors, Handlers, SocketStates, UpStatuses, Final
<1>5. Ends("up", "Error", w)
  BY <1>1, <1>2, <1>3, Peers DEF Ends, Control, Types, Sides, Final, Greeting
<1>6. Aside("up")
  BY <1>1 DEF Aside
<1> QED
  BY <1>1, <1>4, <1>5, <1>6, ControlEnds DEF Sides

LEMMA ContinueTypes ==
  ASSUME Control, NEW e \in Sides, Continue(e)
  PROVE  pc' \in [Sides -> Handlers] /\ calls' \in [Sides -> Nat]
BY DEF Control, Types, Continue, Handlers

LEMMA ControlDownload ==
  ASSUME Control, ReceiveOffer \/ UserAccepts
  PROVE  Control'
<1> USE DEF Constant
<1>1. CASE ReceiveOffer
  <2>1. Types'
    <3>1. pc' \in [Sides -> Handlers] /\ calls' \in [Sides -> Nat]
      BY <1>1, ContinueTypes DEF ReceiveOffer, Sides
    <3> QED
      BY <1>1, <3>1 DEF ReceiveOffer, Control, Types, DownStatuses
  <2>2. BuffersOK'
    BY <1>1, TakesOnly DEF ReceiveOffer, Taking, Control, Sides
  <2>3. GoesOn("down", "WaitingForUserChoice")
    BY <1>1, Peers
       DEF ReceiveOffer, Expected, Taking, Continue, GoesOn, Final, DownStatuses, Control, Types,
           Sides, Sockets, Greeting
  <2>4. Sending'
    BY <1>1 DEF ReceiveOffer, Control, Types, Sides, Sending, Unanswered
  <2> QED
    BY <2>1, <2>2, <2>3, <2>4, ControlGoesOn DEF Sides
<1>2. CASE UserAccepts
  <2>1. Types'
    BY <1>2 DEF UserAccepts, Control, Types, DownStatuses, Handlers
  <2>2. BuffersOK'
    BY <1>2, SendsOne, MessageTypes DEF UserAccepts, Control, Sides
  <2>3. GoesOn("down", "Transfering")
    BY <1>2, Peers
       DEF UserAccepts, GoesOn, Final, DownStatuses, Control, Types, BuffersOK,
           Sides, Sockets, Greeting, Handling
  <2>4. Sending'
    BY <1>2 DEF UserAccepts, Control, Types, Sides, Sending, Unanswered
  <2> QED
    BY <2>1, <2>2, <2>3, <2>4, ControlGoesOn DEF Sides
<1> QED
  BY <1>1, <1>2

\* What a download does with a chunk or a list of checksums: it fails, it ends,
\* or it goes on.
Receives ==
  /\ Taking("down", "Chunk") \/ Taking("down", "Checksums")
  /\ status["down"] = "Transfering" /\ Take("down")
  /\ UNCHANGED <<payload, faults, changed, versions, greeted, net, choice>>
  /\ mgr'["up"] = mgr["up"] /\ content'["up"] = content["up"]
  /\ DOMAIN mgr' = Sides /\ DOMAIN content' = Sides
  /\ \/ DownFailure(mgr'["down"])
     \/ /\ Close("down", Append(wbuf["down"], Msg("Completed")))
        /\ status' = [status EXCEPT !["down"] = "Completed"]
        /\ Continue("down") /\ UNCHANGED error
     \/ Continue("down") /\ UNCHANGED <<status, error, sock, wbuf>>

LEMMA ReceivesFacts ==
  ASSUME Control, ReceiveChunk \/ ReceiveChecksums
  PROVE  Receives
<1> USE DEF Constant
<1>0. DOMAIN mgr = Sides /\ DOMAIN content = Sides /\ "up" \in Sides /\ "down" \in Sides
  BY DEF Control, Types, Sides
<1>1. CASE ReceiveChunk
  <2>1. PICK after :
          /\ \E x : content' = [content EXCEPT !["down"] = x]
          /\ \/ DownFailure(after)
             \/ /\ mgr' = [mgr EXCEPT !["down"] = after]
                /\ Continue("down")
                /\ UNCHANGED <<status, error, sock, wbuf>>
    BY <1>1 DEF ReceiveChunk
  <2>2. content'["up"] = content["up"] /\ DOMAIN content' = Sides
    BY <1>0, <2>1
  <2>3. CASE DownFailure(after)
    <3>1. /\ error' = [error EXCEPT !["down"] = "Payload"]
          /\ status' = [status EXCEPT !["down"] = "Error"]
          /\ mgr' = [mgr EXCEPT !["down"] = StopTransfer(payload, after)]
          /\ Close("down", Append(wbuf["down"], Msg("Error"))) /\ Stop("down")
      BY <2>3 DEF DownFailure, Failed
    <3>2. StopTransfer(payload, StopTransfer(payload, after)) = StopTransfer(payload, after)
      BY DEF StopTransfer
    <3>3. /\ mgr'["up"] = mgr["up"] /\ DOMAIN mgr' = Sides
          /\ mgr'["down"] = StopTransfer(payload, after)
      BY <1>0, <3>1
    <3>4. DownFailure(mgr'["down"])
      BY <3>1, <3>2, <3>3, Zenon DEF DownFailure, Failed
    <3> QED
      BY <1>1, <2>2, <3>3, <3>4 DEF ReceiveChunk, Expected, Receives
  <2>4. CASE /\ mgr' = [mgr EXCEPT !["down"] = after]
             /\ Continue("down")
             /\ UNCHANGED <<status, error, sock, wbuf>>
    <3>1. mgr'["up"] = mgr["up"] /\ DOMAIN mgr' = Sides
      BY <1>0, <2>4
    <3> QED
      BY <1>1, <2>2, <2>4, <3>1 DEF ReceiveChunk, Expected, Receives
  <2> QED
    BY <2>1, <2>3, <2>4
<1>2. CASE ReceiveChecksums
  <2>1. PICK after :
          \/ DownFailure(after)
          \/ /\ mgr' = [mgr EXCEPT !["down"] = after]
             /\ Close("down", Append(wbuf["down"], Msg("Completed")))
             /\ status' = [status EXCEPT !["down"] = "Completed"]
             /\ Continue("down")
             /\ UNCHANGED error
          \/ /\ mgr' = [mgr EXCEPT !["down"] = after]
             /\ Continue("down")
             /\ UNCHANGED <<status, error, sock, wbuf>>
    BY <1>2 DEF ReceiveChecksums
  <2>2. content' = content
    BY <1>2 DEF ReceiveChecksums
  <2>3. CASE DownFailure(after)
    <3>1. /\ error' = [error EXCEPT !["down"] = "Payload"]
          /\ status' = [status EXCEPT !["down"] = "Error"]
          /\ mgr' = [mgr EXCEPT !["down"] = StopTransfer(payload, after)]
          /\ Close("down", Append(wbuf["down"], Msg("Error"))) /\ Stop("down")
      BY <2>3 DEF DownFailure, Failed
    <3>2. StopTransfer(payload, StopTransfer(payload, after)) = StopTransfer(payload, after)
      BY DEF StopTransfer
    <3>3. /\ mgr'["up"] = mgr["up"] /\ DOMAIN mgr' = Sides
          /\ mgr'["down"] = StopTransfer(payload, after)
      BY <1>0, <3>1
    <3>4. DownFailure(mgr'["down"])
      BY <3>1, <3>2, <3>3, Zenon DEF DownFailure, Failed
    <3> QED
      BY <1>0, <1>2, <2>2, <3>3, <3>4 DEF ReceiveChecksums, Expected, Receives
  <2>4. CASE mgr' = [mgr EXCEPT !["down"] = after]
    <3>1. mgr'["up"] = mgr["up"] /\ DOMAIN mgr' = Sides /\ mgr'["down"] = after
      BY <1>0, <2>4
    <3> QED
      BY <1>0, <1>2, <2>1, <2>2, <3>1 DEF ReceiveChecksums, Expected, Receives
  <2> QED
    BY <2>1, <2>3, <2>4
<1> QED
  BY <1>1, <1>2

LEMMA ControlReceives ==
  ASSUME Control, Receives
  PROVE  Control'
<1>1. /\ Readable("down") /\ pc["down"] = "Reading" /\ status["down"] = "Transfering"
      /\ greeted["down"] /\ sock["down"] = "Connected"
  BY DEF Receives, Taking, Control, Sockets, Greeting, Sides, Final
<1>2. CASE DownFailure(mgr'["down"])
  <2>1. Types'
    BY <1>2 DEF Receives, DownFailure, Failed, Stop, Close, Control, Types, DownStatuses, Final,
                Errors, SocketStates, Handlers
  <2>2. BuffersOK'
    BY <1>1, <1>2, TakesAndSends, MessageTypes DEF Receives, DownFailure, Close, Control, Sides
  <2>3. Ends("down", "Error", Append(wbuf["down"], Msg("Error")))
    BY <1>1, <1>2, Peers
       DEF Receives, DownFailure, Failed, Stop, Close, Ends, Final, Control, Types, Sides
  <2> QED
    BY <2>1, <2>2, <2>3, ControlEnds DEF Aside, Sides, Receives
<1>3. CASE /\ Close("down", Append(wbuf["down"], Msg("Completed")))
           /\ status' = [status EXCEPT !["down"] = "Completed"]
           /\ Continue("down") /\ UNCHANGED error
  <2>1. Types'
    <3>1. pc' \in [Sides -> Handlers] /\ calls' \in [Sides -> Nat]
      BY <1>3, ContinueTypes DEF Sides
    <3>2. sock' \in [Sides -> SocketStates]
      BY <1>3 DEF Close, Control, Types, SocketStates
    <3> QED
      BY <1>3, <3>1, <3>2 DEF Receives, Control, Types, DownStatuses, Final
  <2>2. BuffersOK'
    BY <1>1, <1>3, TakesAndSends, MessageTypes DEF Receives, Close, Control, Sides
  <2>3. Ends("down", "Completed", Append(wbuf["down"], Msg("Completed")))
    BY <1>1, <1>3, Peers
       DEF Receives, Continue, Close, Ends, Final, Control, Types, Sides, Failures, Unheard
  <2> QED
    BY <2>1, <2>2, <2>3, ControlEnds DEF Aside, Sides, Receives
<1>4. CASE Continue("down") /\ UNCHANGED <<status, error, sock, wbuf>>
  <2>1. Types'
    BY <1>4 DEF Receives, Continue, Control, Types, Handlers
  <2>2. BuffersOK'
    BY <1>1, <1>4, TakesOnly DEF Receives, Control, Sides
  <2>3. GoesOn("down", "Transfering")
    BY <1>1, <1>4, Peers
       DEF Receives, Continue, GoesOn, Final, DownStatuses, Control, Types, Sides
  <2>4. Sending'
    BY <1>4 DEF Receives, Control, Types, Sides, Sending, Unanswered
  <2> QED
    BY <2>1, <2>2, <2>3, <2>4, ControlGoesOn DEF Sides
<1> QED
  BY <1>2, <1>3, <1>4 DEF Receives

\* The two handlers whose flush fails: the download ends, with an empty buffer.
FailsUnheard == UserRejectsUnheard \/ ReceiveChecksumsUnheard

LEMMA UnheardFacts ==
  ASSUME Control, FailsUnheard
  PROVE  /\ status["down"] \in {"WaitingForUserChoice", "Transfering"} /\ greeted["down"]
         /\ wbuf' = [wbuf EXCEPT !["down"] = << >>]
         /\ rbuf' = [rbuf EXCEPT !["down"] = << >>]
         /\ sock' = [sock EXCEPT !["down"] = "Unconnected"]
         /\ error' = [error EXCEPT !["down"] = "Network"]
         /\ \E m : mgr' = [mgr EXCEPT !["down"] = m]
         /\ \E st \in {"Completed", "Rejected"} : status' = [status EXCEPT !["down"] = st]
         /\ UNCHANGED <<pc, calls>> \/ (pc["down"] = "Reading" /\ Continue("down"))
         /\ UNCHANGED <<payload, faults, changed, versions, greeted, net, content>>
         /\ BuffersOK' /\ Loses("down") /\ Types'
<1> USE DEF Constant
<1>1. status["down"] \in {"WaitingForUserChoice", "Transfering"}
  BY DEF FailsUnheard, UserRejectsUnheard, ReceiveChecksumsUnheard, Expected
<1>2. sock["down"] = "Connected" /\ greeted["down"]
  BY <1>1 DEF Control, Sockets, Greeting, Sides, Final
<1>3. PICK m, r : FlushFails("down", r, m)
  BY DEF FailsUnheard, UserRejectsUnheard, ReceiveChecksumsUnheard
<1>4. /\ wbuf' = [wbuf EXCEPT !["down"] = << >>] /\ rbuf' = [rbuf EXCEPT !["down"] = << >>]
      /\ sock' = [sock EXCEPT !["down"] = "Unconnected"]
      /\ error' = [error EXCEPT !["down"] = "Network"]
      /\ mgr' = [mgr EXCEPT !["down"] = StopTransfer(payload, m)]
  BY <1>2, <1>3 DEF FlushFails, Abort
<1>5. PICK st \in {"Completed", "Rejected"} : status' = [status EXCEPT !["down"] = st]
  BY DEF FailsUnheard, UserRejectsUnheard, ReceiveChecksumsUnheard
<1>6. /\ UNCHANGED <<pc, calls>> \/ (pc["down"] = "Reading" /\ Continue("down"))
      /\ UNCHANGED <<payload, faults, changed, versions, greeted, net, content>>
      /\ choice' \in {choice, "Reject"}
  BY DEF FailsUnheard, UserRejectsUnheard, ReceiveChecksumsUnheard, Taking
<1>7. BuffersOK' /\ Loses("down")
  BY <1>4, <1>6, BufferLoses DEF Control, Sides
<1>8. pc' \in [Sides -> Handlers] /\ calls' \in [Sides -> Nat]
  BY <1>6, ContinueTypes DEF Control, Types, Sides
<1>9. Types'
  BY <1>4, <1>5, <1>6, <1>8
     DEF Control, Types, DownStatuses, Final, Errors, SocketStates, Sides
<1> QED
  BY <1>1, <1>2, <1>4, <1>5, <1>6, <1>7, <1>9

LEMMA ControlUnheard ==
  ASSUME Control, FailsUnheard
  PROVE  Control'
<1>1. PICK st \in {"Completed", "Rejected"} : status' = [status EXCEPT !["down"] = st]
  BY UnheardFacts
<1>2. Types' /\ BuffersOK' /\ mgr'["up"] = mgr["up"] /\ UNCHANGED content
  BY UnheardFacts DEF Control, Types, Sides
<1>3. Unheard("down")'
  BY <1>1, UnheardFacts DEF Unheard, Control, Types, Sides
<1>4. /\ pc'["up"] = pc["up"] /\ calls'["up"] = calls["up"]
      /\ pc'["down"] \in {"Loop", "Reading"}
  BY UnheardFacts DEF Continue, Control, Types, Handling, Sides
<1>5. /\ status["down"] \notin {"Init", "None"} /\ greeted["down"]
      /\ error'["up"] = error["up"]
  BY UnheardFacts DEF Control, Types, Sides
<1>7. /\ UNCHANGED <<payload, faults, changed, greeted>>
      /\ wbuf' = [wbuf EXCEPT !["down"] = << >>]
      /\ sock' = [sock EXCEPT !["down"] = "Unconnected"]
  BY UnheardFacts
<1>6. Ends("down", st, << >>)
  BY <1>1, <1>3, <1>4, <1>5, <1>7, Peers DEF Ends, Final, Sides
<1> QED
  BY <1>2, <1>6, ControlEnds DEF Aside, Sides

LEMMA ControlNext == Control /\ [Next]_vars => Control'
<1> SUFFICES ASSUME Control, [Next]_vars
             PROVE  Control'
  OBVIOUS
<1>1. ASSUME NEW e \in Sides, Handle(e)
      PROVE  Control'
  BY <1>1, ControlMoving, ControlAborts, ControlGreets, ControlRefuses, ControlClosing,
     ControlAccepted
     DEF Handle, Aborting, Sides
<1>2. CASE UNCHANGED vars
  BY <1>2 DEF vars, Control, Types, BuffersOK, Sockets, Greeting, Handling, Sending, Bounded,
              Failures, Unheard
<1>3. CASE UpStep
  BY <1>1, <1>3, ControlConnect, ControlAccepted, ControlClosing, ControlSends, ControlSendFails
     DEF UpStep, Sides
<1>4. CASE DownStep
  BY <1>1, <1>4, ControlConnect, ControlDownload, ReceivesFacts, ControlReceives, ControlUnheard
     DEF DownStep, FailsUnheard, Sides
<1>5. CASE User
  BY <1>5, ControlDownload, ControlClosing, ControlUnheard DEF User, FailsUnheard
<1>6. CASE \E e \in Sides : NetworkError(e)
  BY <1>6, ControlAborts DEF Aborting
<1> QED
  BY <1>2, <1>3, <1>4, <1>5, <1>6 DEF Next

LEMMA AlwaysControl == Spec => []Control
<1> QED
  BY ControlInit, ControlNext, PTL DEF Spec

\* refill_send_buffer bounds what the upload queues (Base::send_next_chunk and
\* its callers), whatever the order in which they run.
THEOREM BufferIsBounded == Spec => []WriteBufferBounded
<1>1. Control => WriteBufferBounded
  BY DEF Control, Bounded, WriteBufferBounded
<1> QED
  BY <1>1, AlwaysControl, PTL

\* send_next_chunk finds a manager that is sending (its Q_ASSERT), and
\* files.end () is never used, unless a file of the upload could not be opened.
THEOREM SendsWhileSending == Spec => [](changed = {} => SendsOnlyWhileSending)
<1>1. Control => (changed = {} => SendsOnlyWhileSending)
  <2> SUFFICES ASSUME Control, changed = {}
               PROVE  SendsOnlyWhileSending
    OBVIOUS
  <2>1. pc["up"] # "Crashed"
    BY DEF Control, Handling
  <2>2. ASSUME pc["up"] \in Refilling, MayRefill(wbuf["up"])
        PROVE  mgr["up"].mode = "Sending"
    <3>1. PICK m : m = mgr["up"]
      OBVIOUS
    <3>2. /\ IsPayload(payload) /\ m \in Managers(payload) /\ Position(m) \in Positions(payload)
          /\ m.mode = IF m.next = End(payload) THEN "Closed" ELSE "Sending"
          /\ m.total < TotalSize(payload)
      BY <2>2, <3>1, ControlFacts DEF Control, Handling, Sending, Sender, MayRefill
    <3>3. ASSUME m.next = End(payload)
          PROVE  FALSE
      <4>1. /\ m.next <= m.current /\ m.current \in 1 .. End(payload) /\ End(payload) \in Nat
        BY <3>2, PayloadFacts DEF Position, Positions, Managers
      <4>2. Position(m).current = End(payload) /\ Position(m).total = m.total
        BY <3>3, <4>1 DEF Position
      <4>3. m.total = TotalSize(payload)
        BY <3>2, <4>2, EndIsFull
      <4> QED
        BY <3>2, <4>3, PayloadFacts
    <3> QED
      BY <3>1, <3>2, <3>3
  <2> QED
    BY <2>1, <2>2 DEF SendsOnlyWhileSending
<1> QED
  BY <1>1, AlwaysControl, PTL

----------------------------------------------------------------------------
(* The kinds of the messages on a stream. *)

Kinds(s, K) == \A i \in 1 .. Len(s) : s[i].kind \in K

\* The last message excepted.
Inner(s, K) == \A i \in 1 .. Len(s) - 1 : s[i].kind \in K

\* t is what is left of s, or s and a message of that kind behind.
Fewer(t, s) ==
  /\ \A K : (Kinds(s, K) => Kinds(t, K)) /\ (Inner(s, K) => Inner(t, K))
  /\ s = << >> => t = << >>

Adds(t, s, kind) ==
  \A K : (Kinds(s, K) /\ kind \in K => Kinds(t, K)) /\ (Kinds(s, K) => Inner(t, K))

LEMMA SomeLeft ==
  ASSUME NEW s \in Seq(Messages), NEW t \in Seq(Messages), NEW a \in 0 .. Len(s),
         Len(t) <= Len(s) - a, \A i \in 1 .. Len(t) : t[i] = s[a + i]
  PROVE  Fewer(t, s)
<1>1. Len(s) \in Nat /\ Len(t) \in Nat
  BY LenProperties
<1>2. ASSUME NEW K, Kinds(s, K)
      PROVE  Kinds(t, K)
  <2> SUFFICES ASSUME NEW i \in 1 .. Len(t)
               PROVE  t[i].kind \in K
    BY DEF Kinds
  <2>1. t[i] = s[a + i] /\ a + i \in 1 .. Len(s)
    BY <1>1
  <2> QED
    BY <1>2, <2>1 DEF Kinds
<1>3. ASSUME NEW K, Inner(s, K)
      PROVE  Inner(t, K)
  <2> SUFFICES ASSUME NEW i \in 1 .. Len(t) - 1
               PROVE  t[i].kind \in K
    BY DEF Inner
  <2>1. t[i] = s[a + i] /\ a + i \in 1 .. Len(s) - 1
    BY <1>1
  <2> QED
    BY <1>3, <2>1 DEF Inner
<1>4. s = << >> => t = << >>
  BY <1>1, EmptySeq
<1> QED
  BY <1>2, <1>3, <1>4 DEF Fewer

LEMMA TailLeft ==
  ASSUME NEW s \in Seq(Messages), s # << >>
  PROVE  /\ Fewer(Tail(s), s) /\ Tail(s) \in Seq(Messages)
         /\ \A K : Kinds(s, K) => Head(s).kind \in K
         /\ \A K : Inner(s, K) /\ Head(s).kind \notin K => Tail(s) = << >>
<1>1. /\ Tail(s) \in Seq(Messages) /\ Len(Tail(s)) = Len(s) - 1 /\ Head(s) = s[1]
      /\ \A i \in 1 .. Len(Tail(s)) : Tail(s)[i] = s[i + 1]
      /\ Len(s) \in Nat \ {0}
  BY HeadTailProperties, LenProperties, EmptySeq
<1>2. PICK t : t = Tail(s)
  OBVIOUS
<1>3. Fewer(t, s)
  <2>1. /\ t \in Seq(Messages) /\ 1 \in 0 .. Len(s) /\ Len(t) <= Len(s) - 1
        /\ \A i \in 1 .. Len(t) : t[i] = s[1 + i]
    BY <1>1, <1>2
  <2> QED
    BY <2>1, SomeLeft
<1>4. ASSUME NEW K, Kinds(s, K)
      PROVE  Head(s).kind \in K
  BY <1>1, <1>4 DEF Kinds
<1>5. ASSUME NEW K, Inner(s, K), Head(s).kind \notin K
      PROVE  Tail(s) = << >>
  <2>1. 1 \notin 1 .. Len(s) - 1
    BY <1>1, <1>5 DEF Inner
  <2>2. Len(Tail(s)) = 0
    BY <1>1, <2>1
  <2> QED
    BY <1>1, <2>2, EmptySeq
<1> QED
  BY <1>1, <1>2, <1>3, <1>4, <1>5

LEMMA PrefixLeft ==
  ASSUME NEW s \in Seq(Messages), NEW k \in 0 .. Len(s)
  PROVE  /\ Fewer(Prefix(s, k), s) /\ Fewer(Rest(s, k), s)
         /\ k < Len(s) => \A K : Inner(s, K) => Kinds(Prefix(s, k), K)
<1>1. /\ Prefix(s, k) \in Seq(Messages) /\ Len(Prefix(s, k)) = k
      /\ Rest(s, k) \in Seq(Messages) /\ Len(Rest(s, k)) = Len(s) - k
      /\ \A i \in 1 .. k : Prefix(s, k)[i] = s[i]
      /\ \A i \in 1 .. Len(s) - k : Rest(s, k)[i] = s[k + i]
      /\ Len(s) \in Nat
  BY Split, LenProperties
<1>2. PICK t, u : t = Prefix(s, k) /\ u = Rest(s, k)
  OBVIOUS
<1>3. Fewer(t, s)
  <2>1. /\ t \in Seq(Messages) /\ 0 \in 0 .. Len(s) /\ Len(t) <= Len(s) - 0
        /\ \A i \in 1 .. Len(t) : t[i] = s[0 + i]
    BY <1>1, <1>2
  <2> QED
    BY <2>1, SomeLeft
<1>4. Fewer(u, s)
  <2>1. /\ u \in Seq(Messages) /\ Len(u) <= Len(s) - k
        /\ \A i \in 1 .. Len(u) : u[i] = s[k + i]
    BY <1>1, <1>2
  <2> QED
    BY <2>1, SomeLeft
<1>5. ASSUME k < Len(s), NEW K, Inner(s, K)
      PROVE  Kinds(t, K)
  <2> SUFFICES ASSUME NEW i \in 1 .. Len(t)
               PROVE  t[i].kind \in K
    BY DEF Kinds
  <2>1. t[i] = s[i] /\ i \in 1 .. Len(s) - 1
    BY <1>1, <1>2, <1>5
  <2> QED
    BY <1>5, <2>1 DEF Inner
<1> QED
  BY <1>2, <1>3, <1>4, <1>5

LEMMA OneAdded ==
  ASSUME NEW s \in Seq(Messages), NEW m \in Messages
  PROVE  Adds(s \o << m >>, s, m.kind)
<1>1. PICK t : t = s \o << m >>
  OBVIOUS
<1>2. /\ Len(t) = Len(s) + 1 /\ t[Len(s) + 1] = m /\ Len(s) \in Nat
      /\ \A i \in 1 .. Len(s) : t[i] = s[i]
  BY <1>1, OneMore, AppendProperties, LenProperties
<1>3. ASSUME NEW K, Kinds(s, K)
      PROVE  Inner(t, K) /\ (m.kind \in K => Kinds(t, K))
  <2>1. \A i \in 1 .. Len(s) : t[i].kind \in K
    BY <1>2, <1>3 DEF Kinds
  <2>2. \A i \in 1 .. Len(t) : i \in 1 .. Len(s) \/ i = Len(s) + 1
    BY <1>2
  <2>3. Inner(t, K)
    BY <1>2, <2>1 DEF Inner
  <2>4. m.kind \in K => Kinds(t, K)
    BY <1>2, <2>1, <2>2 DEF Kinds
  <2> QED
    BY <2>3, <2>4
<1> QED
  BY <1>1, <1>3 DEF Adds

\* What the handlers do to the kinds of messages.
LEMMA TakesKinds ==
  ASSUME BuffersOK, NEW e \in Sides, NEW msgs, Takes(e, msgs)
  PROVE  /\ Stream(Peer(e)) # << >>
         /\ Fewer(Stream(Peer(e))', Stream(Peer(e)))
         /\ \A K : Kinds(Stream(Peer(e)), K) => Incoming(e).kind \in K
         /\ \A K : Inner(Stream(Peer(e)), K) /\ Incoming(e).kind \notin K
                     => Stream(Peer(e))' = << >>
         /\ msgs = << >> => Stream(e)' = Stream(e)
         /\ \A m \in Messages : msgs = << m >> => Adds(Stream(e)', Stream(e), m.kind)
<1>1. PICK s, t : s = Stream(e) /\ t = Stream(Peer(e))
  OBVIOUS
<1>2. s \in Seq(Messages) /\ t \in Seq(Messages)
  BY <1>1, StreamType, Peers
<1>3. /\ t # << >> /\ Head(t) = Incoming(e) /\ Stream(Peer(e))' = Tail(t)
      /\ Stream(e)' = s \o msgs
  BY <1>1 DEF Takes
<1>4. /\ Fewer(Tail(t), t) /\ \A K : Kinds(t, K) => Head(t).kind \in K
      /\ \A K : Inner(t, K) /\ Head(t).kind \notin K => Tail(t) = << >>
  BY <1>2, <1>3, TailLeft
<1>5. s \o << >> = s /\ \A m \in Messages : Adds(s \o << m >>, s, m.kind)
  BY <1>2, OneAdded, ConcatEmptySeq
<1> QED
  BY <1>1, <1>3, <1>4, <1>5, Zenon

LEMMA SendsKinds ==
  ASSUME BuffersOK, NEW e \in Sides, NEW m \in Messages, Sends(e, << m >>)
  PROVE  Adds(Stream(e)', Stream(e), m.kind) /\ Stream(Peer(e))' = Stream(Peer(e))
<1>1. PICK s : s = Stream(e)
  OBVIOUS
<1>2. s \in Seq(Messages)
  BY <1>1, StreamType
<1> QED
  BY <1>1, <1>2, OneAdded, Zenon DEF Sends

LEMMA LosesKinds ==
  ASSUME BuffersOK, NEW e \in Sides, Loses(e)
  PROVE  /\ Fewer(Stream(e)', Stream(e)) /\ Fewer(Stream(Peer(e))', Stream(Peer(e)))
         /\ wbuf[e] # << >> => \A K : Inner(Stream(e), K) => Kinds(Stream(e)', K)
<1>1. PICK s, t : s = Stream(e) /\ t = Stream(Peer(e))
  OBVIOUS
<1>2. s \in Seq(Messages) /\ t \in Seq(Messages)
  BY <1>1, StreamType, Peers
<1>3. PICK k \in 0 .. Len(s) : Stream(e)' = Prefix(s, k) /\ (wbuf[e] # << >> => k < Len(s))
  BY <1>1 DEF Loses
<1>4. PICK j \in 0 .. Len(t) : Stream(Peer(e))' = Rest(t, j)
  BY <1>1 DEF Loses
<1>5. /\ Fewer(Prefix(s, k), s) /\ (k < Len(s) => \A K : Inner(s, K) => Kinds(Prefix(s, k), K))
  BY <1>2, PrefixLeft
<1>6. Fewer(Rest(t, j), t)
  BY <1>2, PrefixLeft
<1> QED
  BY <1>1, <1>3, <1>4, <1>5, <1>6, Zenon

----------------------------------------------------------------------------
(* What the two sides agree on.  u and d are the statuses of the upload and *)
(* of the download, ch the user's choice, s and r what is on its way from   *)
(* the upload and from the download, m and c the manager and the files of   *)
(* the download.                                                            *)

Questions == {"Handshake", "Offer", "Error"}
Asking == {"None", "Starting", "WaitingForOffer"}

\* The last message of a download is what it ended with; it has accepted, or
\* rejected, what its user did.
Answers(d, ch, r) ==
  /\ d \notin Final => Kinds(r, {"Handshake", "Accept"})
  /\ d = "Rejected" => Kinds(r, {"Handshake", "Accept", "Reject"})
  /\ d = "Completed" => Kinds(r, {"Handshake", "Accept", "Completed"})
  /\ d = "Error" => Kinds(r, {"Handshake", "Accept", "Error"})
  /\ ch # "Accept" => Kinds(r, {"Handshake", "Reject", "Error"})
  /\ Inner(r, {"Handshake", "Accept"})

\* Without consent the upload only asks, and the download has received nothing.
Consent(u, ch, s, m) ==
  ch # "Accept" =>
    /\ u \in Unanswered \cup {"Rejected", "Error"}
    /\ Kinds(s, Questions)
    /\ m.total = 0 /\ m.done = 0

\* An upload sends nothing behind its offer before the answer, and nothing at
\* all behind the end of the download.
Before(p, u, d, ch, s, m, c) ==
  /\ u \in {"Init", "Starting"} => Kinds(s, {"Handshake"})
  /\ d \in Asking => Inner(s, {"Handshake"})
  /\ d \in Asking \cup {"WaitingForUserChoice"} =>
       ch = "None" /\ m = NewManager(p) /\ c = << >>
  /\ d \in {"WaitingForUserChoice", "Rejected", "Completed"} => s = << >>
  /\ d = "WaitingForUserChoice" => u \in {"WaitingForPeerAnswer", "Error"}
  /\ d \in {"Transfering", "Completed", "Rejected"} => u \notin {"Init", "Starting"}
  /\ d \in {"Transfering", "Completed"} => ch = "Accept"
  /\ d = "Rejected" => ch = "Reject"
  /\ ch = "Reject" => d \in {"Rejected", "Error"}

\* An upload that has the answer of the download has its last message.
Over(u, d, s, r) ==
  u \in {"Completed", "Rejected"} => d = u /\ s = << >> /\ r = << >>

Agreed(p, u, d, ch, s, r, m, c) ==
  Answers(d, ch, r) /\ Consent(u, ch, s, m) /\ Before(p, u, d, ch, s, m, c) /\ Over(u, d, s, r)

\* What these say of an empty stream, and when they follow from each other.
LEMMA NoKinds ==
  /\ \A K : Kinds(<< >>, K) /\ Inner(<< >>, K)
  /\ \A s, K, L : Kinds(s, K) /\ K \subseteq L => Kinds(s, L)
  /\ \A s : Fewer(s, s)
<1>1. Len(<< >>) = 0
  BY EmptySeq
<1>2. \A i \in 1 .. Len(<< >>) : FALSE
  BY <1>1
<1>3. \A i \in 1 .. Len(<< >>) - 1 : FALSE
  BY <1>1
<1> QED
  BY <1>2, <1>3 DEF Kinds, Inner, Fewer

\* The message taken is of that kind, and r2 is what is left of r.
Took(r2, r, kind) ==
  /\ Fewer(r2, r)
  /\ \A K : Kinds(r, K) => kind \in K
  /\ \A K : Inner(r, K) /\ kind \notin K => r2 = << >>

----------------------------------------------------------------------------
(* The steps of the upload. *)

\* Connect, on_socket_connected and on_handshake_completed.
LEMMA UpAsks ==
  ASSUME NEW p, NEW u, NEW d, NEW ch, NEW s, NEW r, NEW m, NEW c, Agreed(p, u, d, ch, s, r, m, c),
         NEW u2, NEW s2, NEW r2, Fewer(r2, r), u2 # "Rejected" /\ u2 # "Completed",
         \/ u = "Init" /\ u2 = "Starting" /\ s2 = s
         \/ u = "Starting" /\ u2 = "Starting" /\ Adds(s2, s, "Handshake")
         \/ u = "Starting" /\ u2 = "WaitingForPeerAnswer" /\ Adds(s2, s, "Offer")
  PROVE  Agreed(p, u2, d, ch, s2, r2, m, c)
<1> USE DEF Agreed
<1>1. Answers(d, ch, r2)
  BY DEF Answers, Fewer
<1>2. Consent(u2, ch, s2, m)
  BY DEF Consent, Adds, Unanswered, Questions
<1>3. Before(p, u2, d, ch, s2, m, c)
  BY DEF Before, Adds
<1>4. Over(u2, d, s2, r2)
  BY DEF Over
<1> QED
  BY <1>1, <1>2, <1>3, <1>4

\* A failure of the upload, with or without a notice.
LEMMA UpFails ==
  ASSUME NEW p, NEW u, NEW d, NEW ch, NEW s, NEW r, NEW m, NEW c, Agreed(p, u, d, ch, s, r, m, c),
         NEW s2, NEW r2, Fewer(r2, r),
         Fewer(s2, s) \/ (u = "Starting" /\ Adds(s2, s, "Error"))
  PROVE  Agreed(p, "Error", d, ch, s2, r2, m, c)
<1> USE DEF Agreed
<1>1. Answers(d, ch, r2)
  BY DEF Answers, Fewer
<1>2. Consent("Error", ch, s2, m)
  BY DEF Consent, Adds, Fewer, Questions
<1>3. Before(p, "Error", d, ch, s2, m, c)
  BY DEF Before, Adds, Fewer
<1>4. Over("Error", d, s2, r2)
  BY DEF Over
<1> QED
  BY <1>1, <1>2, <1>3, <1>4

\* on_receive_accept, on_receive_reject, on_receive_completed, and the
\* beginning of on_receive_error.
LEMMA UpAnswered ==
  ASSUME NEW p, NEW u, NEW d, NEW ch, NEW s, NEW r, NEW m, NEW c, Agreed(p, u, d, ch, s, r, m, c),
         NEW u2, NEW r2, NEW kind, Took(r2, r, kind),
         \/ u = "WaitingForPeerAnswer" /\ u2 = "Transfering" /\ kind = "Accept"
         \/ u = "WaitingForPeerAnswer" /\ u2 = "Rejected" /\ kind = "Reject"
         \/ u = "Transfering" /\ u2 = "Completed" /\ kind = "Completed"
         \/ u = "Transfering" /\ u2 = "Transfering" /\ kind = "Error"
  PROVE  /\ Agreed(p, u2, d, ch, s, r2, m, c)
         /\ u2 \in {"Rejected", "Completed"} => d = u2
         /\ u2 = "Transfering" => ch = "Accept"
<1> USE DEF Agreed
<1>1. Answers(d, ch, r2)
  BY DEF Answers, Fewer, Took
<1>2. u2 = "Transfering" => ch = "Accept"
  <2>1. CASE kind = "Accept"
    BY <2>1 DEF Answers, Took
  <2>2. CASE u = "Transfering"
    BY <2>2 DEF Consent, Unanswered
  <2> QED
    BY <2>1, <2>2
<1>3. u2 \in {"Rejected", "Completed"} => d = u2 /\ r2 = << >>
  BY DEF Answers, Took, Final
<1>4. u2 = "Rejected" => ch = "Reject"
  BY <1>3 DEF Before
<1>5. Consent(u2, ch, s, m)
  BY <1>2, <1>3, <1>4 DEF Consent, Before
<1>6. Before(p, u2, d, ch, s, m, c)
  BY <1>2, <1>3 DEF Before
<1>7. Over(u2, d, s, r2)
  BY <1>3 DEF Over, Before
<1> QED
  BY <1>1, <1>2, <1>3, <1>5, <1>6, <1>7

\* Whatever an upload sends while it transfers.
LEMMA UpSends ==
  ASSUME NEW p, NEW d, NEW ch, NEW s, NEW r, NEW m, NEW c, Agreed(p, "Transfering", d, ch, s, r,
         m, c),
         NEW u2 \in {"Transfering", "Error"}, NEW s2, d # "Completed"
  PROVE  Agreed(p, u2, d, ch, s2, r, m, c)
<1> USE DEF Agreed
<1>1. ch = "Accept"
  BY DEF Consent, Unanswered
<1>2. Consent(u2, ch, s2, m)
  BY <1>1 DEF Consent
<1>3. Before(p, u2, d, ch, s2, m, c)
  BY <1>1 DEF Before
<1>4. Over(u2, d, s2, r)
  BY DEF Over
<1> QED
  BY <1>2, <1>3, <1>4

----------------------------------------------------------------------------
(* The steps of the download. *)

\* The Download is built, greets, and gets the offer.
LEMMA DownAsks ==
  ASSUME NEW p, NEW u, NEW d, NEW ch, NEW s, NEW r, NEW m, NEW c, Agreed(p, u, d, ch, s, r, m, c),
         NEW d2, NEW s2, NEW r2,
         \/ d = "None" /\ d2 = "Starting" /\ s2 = s /\ Adds(r2, r, "Handshake")
         \/ d = "Starting" /\ d2 = "WaitingForOffer" /\ Fewer(s2, s) /\ r2 = r
         \/ d = "WaitingForOffer" /\ d2 = "WaitingForUserChoice" /\ Took(s2, s, "Offer") /\ r2 = r
  PROVE  Agreed(p, u, d2, ch, s2, r2, m, c)
<1> USE DEF Agreed
<1>1. d \notin Final /\ d2 \notin Final /\ ch = "None"
  BY DEF Final, Before, Asking
<1>2. Answers(d2, ch, r2)
  BY <1>1 DEF Answers, Adds, Final
<1>3. Consent(u, ch, s2, m)
  BY DEF Consent, Fewer, Took
<1>4. u \notin {"Completed", "Rejected"}
  BY <1>1 DEF Over, Final
<1>5. d2 = "WaitingForUserChoice" => s2 = << >> /\ u \in {"WaitingForPeerAnswer", "Error"}
  <2> SUFFICES ASSUME d2 = "WaitingForUserChoice"
               PROVE  s2 = << >> /\ u \in {"WaitingForPeerAnswer", "Error"}
    OBVIOUS
  <2>1. Inner(s, {"Handshake"}) /\ Took(s2, s, "Offer")
    BY DEF Before, Asking
  <2>2. s2 = << >>
    BY <2>1 DEF Took
  <2>3. u \notin {"Init", "Starting"}
    BY <2>1 DEF Before, Took
  <2> QED
    BY <1>1, <1>4, <2>2, <2>3 DEF Consent, Unanswered
<1>6. Before(p, u, d2, ch, s2, m, c)
  BY <1>5 DEF Before, Asking, Fewer
<1>7. Over(u, d2, s2, r2)
  BY <1>4 DEF Over
<1> QED
  BY <1>2, <1>3, <1>6, <1>7

\* A failure of the download, with or without a notice.
LEMMA DownFails ==
  ASSUME NEW p, NEW u, NEW d, NEW ch, NEW s, NEW r, NEW m, NEW c, Agreed(p, u, d, ch, s, r, m, c),
         u \notin {"Completed", "Rejected"},
         NEW s2, NEW r2, NEW m2, NEW c2, Fewer(s2, s),
         \/ d \notin Final /\ Adds(r2, r, "Error")
         \/ Fewer(r2, r) /\ (d \in {"Completed", "Rejected"} => Kinds(r2, {"Handshake", "Accept"})),
         d = "Transfering" \/ (m2.total = m.total /\ m2.done = m.done)
  PROVE  Agreed(p, u, "Error", ch, s2, r2, m2, c2)
<1> USE DEF Agreed
<1>1. Answers("Error", ch, r2)
  <2>1. CASE d \notin Final /\ Adds(r2, r, "Error")
    <3>1. Kinds(r, {"Handshake", "Accept"}) /\ (ch # "Accept" =>
            Kinds(r, {"Handshake", "Reject", "Error"}))
      BY <2>1 DEF Answers
    <3>2. Kinds(r, {"Handshake", "Accept", "Error"})
      BY <3>1, NoKinds
    <3> QED
      BY <2>1, <3>1, <3>2 DEF Answers, Adds, Final
  <2>2. CASE Fewer(r2, r) /\ (d \in {"Completed", "Rejected"} => Kinds(r2, {"Handshake", "Accept"}))
    <3>1. Kinds(r2, {"Handshake", "Accept"}) \/ Kinds(r2, {"Handshake", "Accept", "Error"})
      BY <2>2 DEF Answers, Fewer, Final
    <3>2. Kinds(r2, {"Handshake", "Accept", "Error"})
      BY <3>1, NoKinds
    <3> QED
      BY <2>2, <3>2 DEF Answers, Fewer, Final
  <2> QED
    BY <2>1, <2>2
<1>2. Consent(u, ch, s2, m2)
  BY DEF Consent, Before, Fewer
<1>3. Before(p, u, "Error", ch, s2, m2, c2)
  BY DEF Before, Fewer, Asking
<1>4. Over(u, "Error", s2, r2)
  BY DEF Over
<1> QED
  BY <1>1, <1>2, <1>3, <1>4

\* give_user_choice.
LEMMA DownChooses ==
  ASSUME NEW p, NEW u, NEW ch, NEW s, NEW r, NEW m, NEW c,
         Agreed(p, u, "WaitingForUserChoice", ch, s, r, m, c),
         NEW d2, NEW ch2, NEW r2, NEW m2, NEW c2,
         \/ ch2 = "Accept" /\ d2 = "Transfering" /\ Adds(r2, r, "Accept")
         \/ /\ ch2 = "Reject" /\ d2 = "Rejected" /\ (Adds(r2, r, "Reject") \/ Fewer(r2, r))
            /\ m2.total = m.total /\ m2.done = m.done
  PROVE  Agreed(p, u, d2, ch2, s, r2, m2, c2)
<1> USE DEF Agreed
<1>1. ch = "None" /\ s = << >> /\ u \in {"WaitingForPeerAnswer", "Error"}
  BY DEF Before
<1>2. Kinds(r, {"Handshake", "Accept"}) /\ Kinds(r, {"Handshake", "Reject", "Error"})
  BY <1>1 DEF Answers, Final
<1>3. Kinds(r, {"Handshake", "Accept", "Reject"})
  BY <1>2, NoKinds
<1>4. Answers(d2, ch2, r2)
  BY <1>2, <1>3 DEF Answers, Adds, Fewer, Final
<1>5. Consent(u, ch2, s, m2)
  BY <1>1 DEF Consent
<1>6. Before(p, u, d2, ch2, s, m2, c2)
  BY <1>1 DEF Before, Asking
<1>7. Over(u, d2, s, r2)
  BY <1>1 DEF Over
<1> QED
  BY <1>4, <1>5, <1>6, <1>7

\* on_receive_chunk and on_receive_checksums, when they do not fail.
LEMMA DownReceives ==
  ASSUME NEW p, NEW u, NEW ch, NEW s, NEW r, NEW m, NEW c, Agreed(p, u, "Transfering", ch, s, r,
         m, c),
         NEW d2, NEW s2, NEW r2, NEW m2, NEW c2,
         \/ d2 = "Transfering" /\ r2 = r
         \/ d2 = "Completed" /\ s2 = << >> /\ (Adds(r2, r, "Completed") \/ Fewer(r2, r))
  PROVE  Agreed(p, u, d2, ch, s2, r2, m2, c2) /\ u \notin {"Completed", "Rejected"}
<1> USE DEF Agreed
<1>1. ch = "Accept" /\ u \notin {"Init", "Starting", "Completed", "Rejected"}
  BY DEF Before, Over
<1>2. Kinds(r, {"Handshake", "Accept"})
  BY DEF Answers, Final
<1>3. Kinds(r, {"Handshake", "Accept", "Completed"})
  BY <1>2, NoKinds
<1>4. Answers(d2, ch, r2)
  BY <1>1, <1>2, <1>3 DEF Answers, Adds, Fewer, Final
<1>5. Consent(u, ch, s2, m2)
  BY <1>1 DEF Consent
<1>6. Before(p, u, d2, ch, s2, m2, c2)
  BY <1>1 DEF Before, Asking
<1>7. Over(u, d2, s2, r2)
  BY <1>1 DEF Over
<1> QED
  BY <1>1, <1>4, <1>5, <1>6, <1>7

----------------------------------------------------------------------------
(* What a download receives.  mu and cu are the manager of the upload and   *)
(* what it has hashed, md and cd the manager and the files of the download. *)

DataKinds == {"Chunk", "Checksums"}
StreamKinds == {"Chunk", "Checksums", "Garbage", "Incomplete"}

\* Where the sender is after all the messages on their way.
LastPosition(s, h) == h[Len(s)]

LastIsCut(s, h) == s # << >> /\ IsCut(s[Len(s)], h[Len(s) - 1])

\* The download is where the messages on their way begin, the upload where
\* they end.
Tracked(p, u, s, mu, cu, md, cd) ==
  \E h :
    /\ History(p, cu, s, h)
    /\ Receiver(p, md, h[0], cu, cd)
    /\ u = "WaitingForPeerAnswer" => s = << >> /\ h[0] = StartPosition
    /\ u = "Transfering" =>
         LastPosition(s, h) = Position(mu) /\ ~LastIsCut(s, h) /\ Kinds(s, DataKinds)

\* The download has taken a chunk that was cut short; what follows is no message.
Misled(p, u, s, md) ==
  u = "Error" /\ Kinds(s, {"Garbage"}) /\ md.mode = "Receiving" /\ md.done \in Nat /\ md.done < p.nb

Data(p, u, d, s, mu, cu, md, cd) ==
  d = "Transfering" =>
    /\ Kinds(s, StreamKinds) /\ Inner(s, DataKinds)
    /\ Tracked(p, u, s, mu, cu, md, cd) \/ Misled(p, u, s, md)

\* The download completes when its last checksum is tested: the files are
\* whole, as they were hashed, and nothing is left to send.
Done(p, u, d, ch, mu, cu, md, cd) ==
  /\ cu \in Seq(Nat) /\ Len(cu) <= TotalSize(p)
  /\ d = "Completed" => md.done = p.nb
  /\ md.done = p.nb =>
       /\ d \in {"Completed", "Error"} /\ ch = "Accept"
       /\ u \in {"Transfering", "Error", "Completed"}
       /\ u = "Transfering" => mu.total = TotalSize(p)
       /\ cd = [k \in 1 .. TotalSize(p) |-> k] /\ cu = cd

\* What is left of a history when the end of the stream is lost.
LEMMA HistoryPrefix ==
  ASSUME NEW p, NEW S, NEW s \in Seq(S), NEW k \in 0 .. Len(s), NEW fed, NEW h,
         History(p, fed, s, h)
  PROVE  History(p, fed, Prefix(s, k), [i \in 0 .. k |-> h[i]])
<1>0. PICK t, g : t = Prefix(s, k) /\ g = [i \in 0 .. k |-> h[i]]
  OBVIOUS
<1>1. /\ Len(t) = k /\ Len(s) \in Nat
      /\ \A i \in 1 .. k : t[i] = s[i]
  BY <1>0, Split, LenProperties
<1>2. \A i \in 0 .. k : g[i] = h[i] /\ i \in 0 .. Len(s)
  BY <1>0, <1>1
<1>3. g \in [0 .. Len(t) -> Positions(p)]
  BY <1>0, <1>1, <1>2 DEF History
<1>4. \A i \in 0 .. Len(t) : g[i].total <= Len(fed)
  BY <1>1, <1>2 DEF History
<1>5. ASSUME NEW i \in 1 .. Len(t)
      PROVE  Link(p, fed, t[i], g[i - 1], g[i])
  <2>1. t[i] = s[i] /\ g[i - 1] = h[i - 1] /\ g[i] = h[i] /\ i \in 1 .. Len(s)
    BY <1>1, <1>2
  <2> QED
    BY <2>1 DEF History
<1>6. ASSUME NEW i \in 1 .. Len(t) - 1, IsCut(t[i], g[i - 1])
      PROVE  t[i + 1].kind \in EndKinds
  <2>1. /\ t[i] = s[i] /\ t[i + 1] = s[i + 1] /\ g[i - 1] = h[i - 1]
        /\ i \in 1 .. Len(s) - 1
    BY <1>1, <1>2
  <2> QED
    BY <1>6, <2>1 DEF History
<1>7. History(p, fed, t, g)
  BY <1>3, <1>4, <1>5, <1>6 DEF History
<1> QED
  BY <1>0, <1>7

\* Behind the last checksums there is nothing.
LEMMA NothingBehind ==
  ASSUME NEW p, IsPayload(p), NEW S, NEW s \in Seq(S), NEW fed, NEW h,
         History(p, fed, s, h), Kinds(s, StreamKinds),
         h[0].total = TotalSize(p), h[0].next = h[0].current
  PROVE  s = << >>
<1> SUFFICES ASSUME s # << >>
             PROVE  FALSE
  OBVIOUS
<1>1. Link(p, fed, Head(s), h[0], h[1])
  BY HistoryTail
<1>2. Head(s).kind \in StreamKinds
  <2>1. Head(s) = s[1] /\ 1 \in 1 .. Len(s)
    BY HeadTailProperties, LenProperties, EmptySeq
  <2> QED
    BY <2>1 DEF Kinds
<1>3. h[0] \in Positions(p)
  <2>1. 0 \in 0 .. Len(s)
    BY LenProperties
  <2> QED
    BY <2>1 DEF History
<1>4. TotalSize(p) \in Nat /\ h[0].next \in Nat
  BY <1>3, PayloadFacts DEF Positions
<1>5. PICK x, n, t : x = h[0] /\ n = Len(Head(s).data) /\ t = TotalSize(p)
  OBVIOUS
<1>6. /\ Head(s).kind # "Chunk"
  <2>1. Head(s).kind = "Chunk" => n \in 1 .. t - t
    BY <1>1, <1>5 DEF Link
  <2> QED
    BY <1>4, <1>5, <2>1
<1>7. Head(s).kind # "Checksums"
  BY <1>1, <1>4 DEF Link
<1>8. Head(s).kind \notin {"Garbage", "Incomplete"}
  BY <1>1, <1>4 DEF Link
<1> QED
  BY <1>2, <1>6, <1>7, <1>8 DEF StreamKinds

----------------------------------------------------------------------------
(* The steps of the upload. *)

\* A failed upload loses the end of what it has sent, at most.
LEMMA DataFails ==
  ASSUME NEW p, NEW u, NEW d, NEW s \in Seq(Messages), NEW mu, NEW cu, NEW md, NEW cd,
         Data(p, u, d, s, mu, cu, md, cd), NEW k \in 0 .. Len(s), NEW mu2
  PROVE  Data(p, "Error", d, Prefix(s, k), mu2, cu, md, cd)
<1> SUFFICES ASSUME d = "Transfering"
             PROVE  /\ Kinds(Prefix(s, k), StreamKinds)
                    /\ Inner(Prefix(s, k), DataKinds)
                    /\ \/ Tracked(p, "Error", Prefix(s, k), mu2, cu, md, cd)
                       \/ Misled(p, "Error", Prefix(s, k), md)
  BY DEF Data
<1>1. Fewer(Prefix(s, k), s)
  BY PrefixLeft
<1>2. CASE Misled(p, u, s, md)
  BY <1>1, <1>2 DEF Data, Misled, Fewer
<1>3. CASE Tracked(p, u, s, mu, cu, md, cd)
  <2>1. PICK h : History(p, cu, s, h) /\ Receiver(p, md, h[0], cu, cd)
    BY <1>3 DEF Tracked
  <2>2. PICK g : g = [i \in 0 .. k |-> h[i]]
    OBVIOUS
  <2>3. History(p, cu, Prefix(s, k), g)
    BY <2>1, <2>2, HistoryPrefix
  <2>4. g[0] = h[0]
    <3>1. 0 \in 0 .. k
      OBVIOUS
    <3> QED
      BY <2>2, <3>1
  <2>5. Tracked(p, "Error", Prefix(s, k), mu2, cu, md, cd)
    BY <2>1, <2>3, <2>4 DEF Tracked
  <2> QED
    BY <1>1, <2>5 DEF Data, Fewer
<1> QED
  BY <1>2, <1>3 DEF Data

\* start_transfer, when the answer arrives.
LEMMA DataAccepted ==
  ASSUME NEW p, NEW d, NEW s, NEW mu, NEW cu, NEW md, NEW cd,
         Data(p, "WaitingForPeerAnswer", d, s, mu, cu, md, cd),
         NEW mu2, Position(mu2) = StartPosition
  PROVE  Data(p, "Transfering", d, s, mu2, cu, md, cd)
<1> SUFFICES ASSUME d = "Transfering"
             PROVE  Tracked(p, "Transfering", s, mu2, cu, md, cd)
  BY DEF Data
<1>1. Tracked(p, "WaitingForPeerAnswer", s, mu, cu, md, cd)
  BY DEF Data, Misled
<1>2. PICK h : /\ History(p, cu, s, h) /\ Receiver(p, md, h[0], cu, cd)
               /\ s = << >> /\ h[0] = StartPosition
  BY <1>1 DEF Tracked
<1>3. Len(s) = 0
  BY <1>2, EmptySeq
<1>4. Kinds(s, DataKinds)
  BY <1>2, NoKinds
<1> QED
  BY <1>2, <1>3, <1>4 DEF Tracked, LastPosition, LastIsCut

\* send_next_chunk.
LEMMA DataSends ==
  ASSUME NEW p, IsPayload(p), NEW d, NEW s \in Seq(Messages), NEW mu, NEW cu, NEW md, NEW cd,
         Data(p, "Transfering", d, s, mu, cu, md, cd), Sender(p, mu, cu),
         NEW n \in 1 .. Remaining(p, mu), NEW after \in Moved(p, mu, n),
         NEW cu2 \in Seq(Nat), Len(cu2) = mu.total + n,
         \A k \in 1 .. Len(cu) : cu2[k] = cu[k],
         NEW mu2, mu2 = TakePendingChecksums(p, after),
         NEW s2, s2 = s \o << ChunkMsg(Span(mu.total, n, {})) >> \o PendingMsgs(p, after, cu2)
  PROVE  Data(p, "Transfering", d, s2, mu2, cu2, md, cd)
<1> SUFFICES ASSUME d = "Transfering"
             PROVE  /\ Kinds(s2, StreamKinds) /\ Inner(s2, DataKinds)
                    /\ Tracked(p, "Transfering", s2, mu2, cu2, md, cd)
  BY DEF Data
<1>1. PICK h : /\ History(p, cu, s, h) /\ Receiver(p, md, h[0], cu, cd)
               /\ h[Len(s)] = Position(mu) /\ Kinds(s, DataKinds)
               /\ s # << >> => ~IsCut(s[Len(s)], h[Len(s) - 1])
  BY DEF Data, Tracked, Misled, LastPosition, LastIsCut
<1>2. Continues(p, cu2, s, h, s2, Position(mu2))
  BY <1>1, SentChunk
<1>3. /\ Len(s2) \in Nat /\ Len(s) \in Nat /\ Len(s) <= Len(s2)
      /\ \A i \in 1 .. Len(s) : s2[i] = s[i]
      /\ \A i \in Len(s) + 1 .. Len(s2) : s2[i].kind \in DataKinds
  BY <1>2, LenProperties DEF Continues, DataKinds
<1>4. Kinds(s2, DataKinds)
  <2> SUFFICES ASSUME NEW i \in 1 .. Len(s2)
               PROVE  s2[i].kind \in DataKinds
    BY DEF Kinds
  <2>1. i \in 1 .. Len(s) \/ i \in Len(s) + 1 .. Len(s2)
    BY <1>3
  <2> QED
    BY <1>1, <1>3, <2>1 DEF Kinds
<1>5. PICK g : /\ History(p, cu2, s2, g) /\ g[Len(s2)] = Position(mu2)
               /\ g[0] = h[0] /\ (s2 # << >> => ~IsCut(s2[Len(s2)], g[Len(s2) - 1]))
  <2>1. 0 \in 0 .. Len(s)
    BY <1>3
  <2> QED
    BY <1>2, <2>1 DEF Continues
<1>6. Receiver(p, md, g[0], cu2, cd)
  <2>1. /\ Len(cu) \in Nat /\ h[0].total <= Len(cu)
    <3>1. 0 \in 0 .. Len(s) /\ Len(cu) \in Nat
      BY <1>3, LenProperties DEF Sender
    <3> QED
      BY <1>1, <3>1 DEF History
  <2> QED
    BY <1>1, <1>5, <2>1, ReceiverWaits
<1>7. Tracked(p, "Transfering", s2, mu2, cu2, md, cd)
  BY <1>4, <1>5, <1>6 DEF Tracked, LastPosition, LastIsCut
<1>8. Kinds(s2, StreamKinds) /\ Inner(s2, DataKinds)
  <2>1. DataKinds \subseteq StreamKinds
    BY DEF DataKinds, StreamKinds
  <2>2. Inner(s2, DataKinds)
    BY <1>3, <1>4 DEF Kinds, Inner
  <2> QED
    BY <1>4, <2>1, <2>2, NoKinds
<1> QED
  BY <1>7, <1>8

\* The first message of a stream is of one of its kinds.
LEMMA HeadKinds ==
  ASSUME NEW s \in Seq(Messages), s # << >>, NEW K, Kinds(s, K)
  PROVE  Head(s).kind \in K
BY TailLeft

\* A chunk cut short goes on with the history of what precedes it.
LEMMA CutHistory ==
  ASSUME NEW p, NEW s \in Seq(Messages), NEW fed, NEW h, History(p, fed, s, h),
         s # << >> => ~IsCut(s[Len(s)], h[Len(s) - 1]), Kinds(s, DataKinds),
         NEW x, h[Len(s)] = x, x \in Positions(p), x.total \in Nat, TotalSize(p) \in Nat,
         x.total < TotalSize(p), x.total <= Len(fed),
         NEW n \in 1 .. TotalSize(p) - x.total, NEW good \in Nat, good < n,
         NEW cut \in CutChunks(x.total, n, good)
  PROVE  /\ \E g : History(p, fed, s \o cut, g) /\ g[0] = h[0]
         /\ Kinds(s \o cut, StreamKinds)
         /\ Inner(s \o cut, DataKinds)
<1>0. n \in Nat /\ Len(s) \in Nat
  BY LenProperties
<1>1. CASE cut = << Msg("Incomplete") >>
  <2>1. PICK msg \in Messages : msg = Msg("Incomplete") /\ msg.kind = "Incomplete"
    BY MessageTypes
  <2>2. Link(p, fed, msg, x, x)
    BY <2>1 DEF Link
  <2>3. /\ History(p, fed, Append(s, msg), Longer(s, h, x))
        /\ Longer(s, h, x)[0] = h[0]
    <3>1. /\ x \in Positions(p) /\ x.total <= Len(fed)
          /\ Link(p, fed, msg, h[Len(s)], x)
          /\ s # << >> => ~IsCut(s[Len(s)], h[Len(s) - 1]) \/ msg.kind \in EndKinds
      BY <2>2
    <3> QED
      BY <3>1, HistoryAppend
  <2>4. s \o cut = Append(s, msg)
    BY <1>1, <2>1, OneMore
  <2>6. Adds(s \o cut, s, "Incomplete")
    BY <1>1, <2>1, OneAdded
  <2>7. Kinds(s, StreamKinds)
    <3>1. DataKinds \subseteq StreamKinds
      BY DEF DataKinds, StreamKinds
    <3> QED
      BY <3>1, NoKinds
  <2> QED
    BY <2>3, <2>4, <2>6, <2>7 DEF Adds, StreamKinds
<1>2. CASE cut = << ChunkMsg(Span(x.total, n, x.total + good + 1 .. x.total + n)),
                     Msg("Garbage") >>
  <2>0. PICK odd : odd = x.total + good + 1 .. x.total + n
    OBVIOUS
  <2>1. PICK msg : msg = ChunkMsg(Span(x.total, n, odd))
    OBVIOUS
  <2>2. /\ msg \in Messages /\ msg.kind = "Chunk" /\ Len(msg.data) = n
    BY <1>0, <2>1, SpanFacts DEF ChunkMsg, Messages
  <2>3. IsCut(msg, x)
    <3>1. good + 1 \in 1 .. n /\ x.total + (good + 1) \in odd
      BY <1>0, <2>0
    <3> QED
      BY <1>0, <2>1, <3>1, CutSpan
  <2>4. Link(p, fed, msg, x, x)
    BY <2>2, <2>3 DEF Link, IsCut
  <2>5. PICK t, g : t = Append(s, msg) /\ g = Longer(s, h, x)
    OBVIOUS
  <2>6. /\ History(p, fed, t, g) /\ g[0] = h[0] /\ g[Len(s) + 1] = x
    <3>1. s # << >> => ~IsCut(s[Len(s)], h[Len(s) - 1]) \/ msg.kind \in EndKinds
      OBVIOUS
    <3>2. Link(p, fed, msg, h[Len(s)], x) /\ x \in Positions(p) /\ x.total <= Len(fed)
      BY <2>4
    <3>3. /\ History(p, fed, Append(s, msg), Longer(s, h, x))
          /\ Longer(s, h, x)[0] = h[0] /\ Longer(s, h, x)[Len(s) + 1] = x
      BY <2>2, <3>1, <3>2, HistoryAppend
    <3> QED
      BY <2>5, <3>3
  <2>7. t \in Seq(Messages) /\ Len(t) = Len(s) + 1
    BY <2>2, <2>5, AppendProperties
  <2>8. PICK end \in Messages : end = Msg("Garbage") /\ end.kind = "Garbage"
    BY MessageTypes
  <2>9. Link(p, fed, end, g[Len(t)], x)
    BY <2>6, <2>7, <2>8 DEF Link
  <2>10. /\ History(p, fed, Append(t, end), Longer(t, g, x))
         /\ Longer(t, g, x)[0] = h[0]
    <3>1. end.kind \in EndKinds
      BY <2>8 DEF EndKinds
    <3>4. x \in Positions(p) /\ x.total <= Len(fed) /\ History(p, fed, t, g) /\ t \in Seq(Messages)
      BY <2>6, <2>7
    <3>2. /\ History(p, fed, Append(t, end), Longer(t, g, x))
          /\ Longer(t, g, x)[0] = g[0]
      BY <2>9, <3>1, <3>4, HistoryAppend
    <3> QED
      BY <2>6, <3>2
  <2>11. cut = << msg, end >>
    BY <1>2, <2>0, <2>1, <2>8
  <2>12. s \o cut = Append(t, end)
    BY <2>2, <2>5, <2>8, <2>11
  <2>14. Kinds(t, DataKinds)
    <3>1. Adds(s \o << msg >>, s, "Chunk") /\ Append(s, msg) = s \o << msg >>
      BY <2>2, OneAdded, OneMore
    <3> QED
      BY <2>5, <3>1 DEF Adds, DataKinds
  <2>15. Adds(s \o cut, t, "Garbage")
    <3>1. Adds(t \o << end >>, t, "Garbage") /\ Append(t, end) = t \o << end >>
      BY <2>7, <2>8, OneAdded, OneMore
    <3> QED
      BY <2>12, <3>1
  <2>16. Kinds(t, StreamKinds)
    <3>1. DataKinds \subseteq StreamKinds
      BY DEF DataKinds, StreamKinds
    <3> QED
      BY <2>14, <3>1, NoKinds
  <2> QED
    BY <2>10, <2>12, <2>14, <2>15, <2>16 DEF Adds, StreamKinds
<1> QED
  BY <1>0, <1>1, <1>2, CutMsgs

\* A file that cannot be opened: good bytes of the chunk of n have been sent.
LEMMA DataCuts ==
  ASSUME NEW p, IsPayload(p), NEW d, NEW s \in Seq(Messages), NEW mu, NEW cu, NEW md, NEW cd,
         Data(p, "Transfering", d, s, mu, cu, md, cd), Sender(p, mu, cu),
         NEW n \in 1 .. Remaining(p, mu), NEW good \in Nat, good < n,
         NEW cut \in CutChunks(mu.total, n, good),
         NEW cu2 \in Seq(Nat), Len(cu2) = mu.total + good,
         \A k \in 1 .. Len(cu) : cu2[k] = cu[k], NEW mu2
  PROVE  Data(p, "Error", d, s \o cut, mu2, cu2, md, cd)
<1> SUFFICES ASSUME d = "Transfering"
             PROVE  /\ Kinds(s \o cut, StreamKinds)
                    /\ Inner(s \o cut, DataKinds)
                    /\ Tracked(p, "Error", s \o cut, mu2, cu2, md, cd)
  BY DEF Data
<1>1. PICK h : /\ History(p, cu, s, h) /\ Receiver(p, md, h[0], cu, cd)
               /\ h[Len(s)] = Position(mu) /\ Kinds(s, DataKinds)
               /\ s # << >> => ~IsCut(s[Len(s)], h[Len(s) - 1])
  BY DEF Data, Tracked, Misled, LastPosition, LastIsCut
<1>2. PICK x : x = Position(mu)
  OBVIOUS
<1>3. /\ x \in Positions(p) /\ x.total = mu.total /\ x.total \in Nat /\ mu.total \in Nat
      /\ TotalSize(p) \in Nat /\ n \in Nat /\ n \in 1 .. TotalSize(p) - x.total
      /\ x.total < TotalSize(p) /\ cu \in Seq(Nat) /\ Len(cu) = mu.total
      /\ Len(cu2) = x.total + good
  <2>1. /\ mu \in Managers(p) /\ x \in Positions(p) /\ x.total = mu.total
        /\ cu \in Seq(Nat) /\ Len(cu) = mu.total /\ TotalSize(p) \in Nat
    BY <1>2, PayloadFacts DEF Sender, Position
  <2>2. mu.total \in Nat /\ x.total \in Nat
    BY <2>1 DEF Managers
  <2>3. n \in 1 .. TotalSize(p) - x.total
    BY <2>1 DEF Remaining
  <2>4. PICK a, b : a = TotalSize(p) /\ b = x.total
    OBVIOUS
  <2>5. n \in Nat /\ b < a
    BY <2>1, <2>2, <2>3, <2>4
  <2> QED
    BY <2>1, <2>2, <2>3, <2>4, <2>5
<1>4. /\ Len(cu) \in Nat /\ Len(cu2) \in Nat /\ Len(cu) <= Len(cu2) /\ x.total <= Len(cu2)
  BY <1>3
<1>5. History(p, cu2, s, h)
  BY <1>1, <1>3, <1>4, HistoryGrows
<1>6. Receiver(p, md, h[0], cu2, cd)
  <2>1. h[0].total <= Len(cu)
    <3>1. 0 \in 0 .. Len(s)
      BY LenProperties
    <3> QED
      BY <1>1, <3>1 DEF History
  <2> QED
    BY <1>1, <1>4, <2>1, ReceiverWaits
<1>7. h[Len(s)] = x
  BY <1>1, <1>2
<1>8. /\ \E g : History(p, cu2, s \o cut, g) /\ g[0] = h[0]
      /\ Kinds(s \o cut, StreamKinds)
      /\ Inner(s \o cut, DataKinds)
  <2>1. cut \in CutChunks(x.total, n, good)
    BY <1>3
  <2>2. PICK fed : fed = cu2
    OBVIOUS
  <2>3. History(p, fed, s, h) /\ x.total <= Len(fed)
    BY <1>4, <1>5, <2>2
  <2>4. /\ \E g : History(p, fed, s \o cut, g) /\ g[0] = h[0]
        /\ Kinds(s \o cut, StreamKinds)
        /\ Inner(s \o cut, DataKinds)
    BY <1>1, <1>3, <1>7, <2>1, <2>3, CutHistory
  <2> QED
    BY <2>2, <2>4
<1> QED
  BY <1>6, <1>8 DEF Tracked

----------------------------------------------------------------------------
(* The steps of the download. *)

LEMMA ReceiverStarts ==
  ASSUME NEW p, IsPayload(p), NEW cu
  PROVE  Receiver(p, StartTransfer(NewManager(p), "Receiving"), StartPosition, cu, << >>)
<1> DEFINE m == StartTransfer(NewManager(p), "Receiving")
<1>1. /\ m.mode = "Receiving" /\ m.current = 1 /\ m.next = 1 /\ m.total = 0
      /\ m.done = 0 /\ m.error = FALSE
      /\ m = [mode |-> "Receiving", current |-> 1, next |-> 1, total |-> 0, done |-> 0,
              error |-> FALSE]
  BY DEF StartTransfer, NewManager
<1>2. 1 \in 1 .. End(p) /\ End(p) # 1 /\ p.start[1] = 0 /\ 0 <= TotalSize(p)
  BY PayloadFacts
<1>3. m \in Managers(p)
  <2>1. "Receiving" \in Modes /\ FALSE \in BOOLEAN /\ 0 \in Nat
    BY DEF Modes
  <2> HIDE DEF m
  <2> QED
    BY <1>1, <1>2, <2>1 DEF Managers
<1>4. Position(m) = StartPosition
  BY <1>1 DEF Position, StartPosition
<1>5. StartPosition \in Positions(p)
  BY <1>2 DEF StartPosition, Positions
<1>6. << >> = [k \in 1 .. m.total |-> k]
  <2>1. [k \in 1 .. 0 |-> k] = << >>
    OBVIOUS
  <2> QED
    BY <1>1, <2>1
<1> HIDE DEF m
<1>7. Receiver(p, m, StartPosition, cu, << >>)
  BY <1>1, <1>2, <1>3, <1>4, <1>5, <1>6 DEF Receiver
<1> QED
  BY <1>7 DEF m

\* start_transfer, when the user accepts.
LEMMA DataStarts ==
  ASSUME NEW p, IsPayload(p), NEW u \in {"WaitingForPeerAnswer", "Error"}, NEW mu,
         NEW cu \in Seq(Nat)
  PROVE  Data(p, u, "Transfering", << >>, mu, cu, StartTransfer(NewManager(p), "Receiving"), << >>)
<1>1. PICK h : h = [i \in 0 .. 0 |-> StartPosition]
  OBVIOUS
<1>2. Len(<< >>) = 0 /\ h[0] = StartPosition
  BY <1>1, EmptySeq
<1>3. Receiver(p, StartTransfer(NewManager(p), "Receiving"), h[0], cu, << >>)
  BY <1>2, ReceiverStarts
<1>4. StartPosition \in Positions(p)
  BY <1>2, <1>3 DEF Receiver
<1>5. History(p, cu, << >>, h)
  <2>1. Len(cu) \in Nat /\ StartPosition.total = 0
    BY LenProperties DEF StartPosition
  <2>2. h \in [0 .. Len(<< >>) -> Positions(p)]
    BY <1>1, <1>2, <1>4
  <2>3. \A i \in 0 .. Len(<< >>) : h[i].total <= Len(cu)
    BY <1>1, <1>2, <2>1
  <2>4. \A i \in 1 .. Len(<< >>) : FALSE
    BY <1>2
  <2>5. \A i \in 1 .. Len(<< >>) - 1 : FALSE
    BY <1>2
  <2> QED
    BY <2>2, <2>3, <2>4, <2>5 DEF History
<1> QED
  BY <1>2, <1>3, <1>5, NoKinds DEF Data, Tracked

\* What is left of a history when its first message is taken.
LEMMA TakenHead ==
  ASSUME NEW p, NEW s \in Seq(Messages), s # << >>, NEW fed, NEW h, History(p, fed, s, h),
         Kinds(s, StreamKinds), Inner(s, DataKinds)
  PROVE  /\ Link(p, fed, Head(s), h[0], h[1]) /\ h[1] \in Positions(p) /\ h[1].total <= Len(fed)
         /\ \E g : /\ History(p, fed, Tail(s), g) /\ g[0] = h[1]
                   /\ LastPosition(Tail(s), g) = LastPosition(s, h)
                   /\ LastIsCut(Tail(s), g) => LastIsCut(s, h)
         /\ Tail(s) = << >> =>
              /\ LastPosition(s, h) = h[1]
              /\ IsCut(Head(s), h[0]) => LastIsCut(s, h)
         /\ IsCut(Head(s), h[0]) => Kinds(Tail(s), {"Garbage"})
         /\ Kinds(Tail(s), StreamKinds) /\ Inner(Tail(s), DataKinds)
<1>0. PICK t, g : t = Tail(s) /\ g = [i \in 0 .. Len(s) - 1 |-> h[i + 1]]
  OBVIOUS
<1>1. /\ t \in Seq(Messages) /\ Len(t) = Len(s) - 1 /\ Head(s) = s[1]
      /\ \A i \in 1 .. Len(t) : t[i] = s[i + 1]
      /\ Len(s) \in Nat \ {0} /\ Len(t) \in Nat /\ (t = << >> <=> Len(t) = 0)
  <2>1. /\ Len(s) \in Nat \ {0} /\ t \in Seq(Messages)
        /\ Len(t) = Len(s) - 1 /\ Head(s) = s[1]
        /\ \A i \in 1 .. Len(t) : t[i] = s[i + 1]
    BY <1>0, HeadTailProperties, LenProperties, EmptySeq
  <2>2. t = << >> <=> Len(t) = 0
    BY <2>1, EmptySeq
  <2> QED
    BY <2>1, <2>2
<1>2. /\ History(p, fed, t, g) /\ Link(p, fed, Head(s), h[0], h[1])
      /\ t # << >> /\ IsCut(Head(s), h[0]) => Head(t).kind \in EndKinds
  BY <1>0, HistoryTail
<1>3. /\ g[0] = h[1] /\ g[Len(t)] = h[Len(s)]
      /\ t # << >> => t[Len(t)] = s[Len(s)] /\ g[Len(t) - 1] = h[Len(s) - 1]
  <2>1. \A i \in 0 .. Len(t) : g[i] = h[i + 1]
    BY <1>0, <1>1
  <2>2. Len(t) + 1 = Len(s) /\ 0 \in 0 .. Len(t) /\ Len(t) \in 0 .. Len(t)
    BY <1>1
  <2>3. t # << >> =>
          Len(t) - 1 \in 0 .. Len(t) /\ Len(t) - 1 + 1 = Len(s) - 1 /\ Len(t) \in 1 .. Len(t)
    BY <1>1
  <2> QED
    BY <1>1, <2>1, <2>2, <2>3
<1>4. h[1] \in Positions(p) /\ h[1].total <= Len(fed)
  <2>1. 1 \in 0 .. Len(s)
    BY <1>1
  <2> QED
    BY <2>1 DEF History
<1>5. t = << >> =>
        /\ LastPosition(s, h) = h[1]
        /\ IsCut(Head(s), h[0]) => LastIsCut(s, h)
  <2>1. t = << >> => Len(s) = 1 /\ Len(s) - 1 = 0
    BY <1>1
  <2> QED
    BY <1>1, <2>1 DEF LastPosition, LastIsCut
<1>6. Kinds(t, StreamKinds) /\ Inner(t, DataKinds)
  BY <1>0, TailLeft DEF Fewer
<1>7. ASSUME IsCut(Head(s), h[0])
      PROVE  Kinds(t, {"Garbage"})
  <2>1. CASE t = << >>
    BY <2>1, NoKinds
  <2>2. CASE t # << >>
    <3>1. 1 \in 1 .. Len(t) /\ Head(t) = t[1]
      BY <1>1, <2>2
    <3>2. t[1].kind = "Garbage"
      BY <1>2, <1>6, <1>7, <2>2, <3>1 DEF Kinds, EndKinds, StreamKinds
    <3>3. 1 \notin 1 .. Len(t) - 1
      BY <1>6, <3>2 DEF Inner, DataKinds
    <3>4. \A i \in 1 .. Len(t) : i = 1
      BY <1>1, <3>3
    <3> QED
      BY <3>2, <3>4 DEF Kinds
  <2> QED
    BY <2>1, <2>2
<1>8. /\ Link(p, fed, Head(s), h[0], h[1]) /\ h[1] \in Positions(p) /\ h[1].total <= Len(fed)
      /\ \E f : /\ History(p, fed, t, f) /\ f[0] = h[1]
                /\ LastPosition(t, f) = LastPosition(s, h)
                /\ LastIsCut(t, f) => LastIsCut(s, h)
  <2>1. LastPosition(t, g) = LastPosition(s, h) /\ (LastIsCut(t, g) => LastIsCut(s, h))
    BY <1>3 DEF LastPosition, LastIsCut
  <2> QED
    BY <1>2, <1>3, <1>4, <2>1
<1> QED
  BY <1>0, <1>5, <1>6, <1>7, <1>8

\* A download that took a message that was not cut short is still tracked.
LEMMA TrackedOn ==
  ASSUME NEW p, NEW u, u # "WaitingForPeerAnswer", NEW s \in Seq(Messages), s # << >>,
         NEW mu, NEW cu, NEW h, History(p, cu, s, h),
         Kinds(s, StreamKinds), Inner(s, DataKinds),
         u = "Transfering" =>
           LastPosition(s, h) = Position(mu) /\ ~LastIsCut(s, h) /\ Kinds(s, DataKinds),
         NEW md2, NEW cd2, Receiver(p, md2, h[1], cu, cd2)
  PROVE  Data(p, u, "Transfering", Tail(s), mu, cu, md2, cd2)
<1>1. PICK g : /\ History(p, cu, Tail(s), g) /\ g[0] = h[1]
               /\ LastPosition(Tail(s), g) = LastPosition(s, h)
               /\ LastIsCut(Tail(s), g) => LastIsCut(s, h)
  BY TakenHead
<1>2. Kinds(Tail(s), StreamKinds) /\ Inner(Tail(s), DataKinds)
  BY TakenHead
<1>3. u = "Transfering" => Kinds(Tail(s), DataKinds)
  BY TailLeft DEF Fewer
<1>4. Tracked(p, u, Tail(s), mu, cu, md2, cd2)
  BY <1>1, <1>3 DEF Tracked
<1> QED
  BY <1>2, <1>4 DEF Data

LEMMA TrackedEnd ==
  ASSUME NEW p, IsPayload(p), NEW s \in Seq(Messages), s # << >>, NEW fed, NEW h,
         History(p, fed, s, h),
         Kinds(s, StreamKinds), Inner(s, DataKinds),
         NEW y, y = h[1], y.total = TotalSize(p), y.next = y.current
  PROVE  Tail(s) = << >> /\ LastPosition(s, h) = y
<1>1. PICK g : /\ History(p, fed, Tail(s), g) /\ g[0] = h[1]
               /\ LastPosition(Tail(s), g) = LastPosition(s, h)
               /\ LastIsCut(Tail(s), g) => LastIsCut(s, h)
  BY TakenHead
<1>2. Kinds(Tail(s), StreamKinds)
  BY TakenHead
<1>3. Tail(s) \in Seq(Messages)
  BY TailLeft
<1>4. Tail(s) = << >>
  <2>1. PICK t : t = Tail(s)
    OBVIOUS
  <2>2. History(p, fed, t, g) /\ g[0].total = TotalSize(p) /\ g[0].next = g[0].current
    BY <1>1, <2>1
  <2>3. Kinds(t, StreamKinds) /\ t \in Seq(Messages)
    BY <1>2, <1>3, <2>1
  <2>4. t = << >>
    BY <2>2, <2>3, NothingBehind
  <2> QED
    BY <2>1, <2>4
<1>5. Tail(s) = << >> => LastPosition(s, h) = h[1]
  <2>1. Len(Tail(s)) = Len(s) - 1 /\ Len(s) \in Nat
    BY HeadTailProperties, LenProperties
  <2>2. Tail(s) = << >> => Len(s) = 1
    <3>1. PICK t : t = Tail(s)
      OBVIOUS
    <3>2. t = << >> => Len(t) = 0
      BY EmptySeq
    <3> QED
      BY <2>1, <3>1, <3>2
  <2> QED
    BY <2>2 DEF LastPosition
<1> QED
  BY <1>4, <1>5

LEMMA ReceivedDone ==
  ASSUME NEW p, NEW m, NEW n, NEW unreliable, NEW r \in Received(p, m, n, unreliable)
  PROVE  r.done = m.done
<1>1. CASE r \in Moved(p, m, n)
  BY <1>1 DEF Moved, Advanced
<1>2. ASSUME NEW f, r = OpenFails(p, m, f)
      PROVE  r.done = m.done
  BY <1>2 DEF OpenFails, TransferError, StopTransfer, WithError, Advanced
<1>3. CASE r = TransferError(p, m)
  BY <1>3 DEF TransferError, StopTransfer, WithError
<1> QED
  BY <1>1, <1>2, <1>3 DEF Received

\* receive_chunk.
LEMMA DataChunk ==
  ASSUME NEW p, IsPayload(p), NEW u \in {"WaitingForPeerAnswer", "Transfering", "Error"},
         NEW s \in Seq(Messages), s # << >>, NEW mu, NEW cu, NEW md, NEW cd,
         Data(p, u, "Transfering", s, mu, cu, md, cd), Head(s).kind = "Chunk",
         NEW unreliable, NEW after \in Received(p, md, Len(Head(s).data), unreliable),
         NEW cd2, cd2 = Extend(cd, md.total, after.total - md.total, Head(s).data)
  PROVE  /\ after.done # p.nb
         /\ ~after.error => Data(p, u, "Transfering", Tail(s), mu, cu, after, cd2)
<1>0. Kinds(s, StreamKinds) /\ Inner(s, DataKinds)
  BY DEF Data
<1>1. ~Misled(p, u, s, md)
  <2>1. Head(s).kind \notin {"Garbage"}
    OBVIOUS
  <2> QED
    BY <2>1, HeadKinds DEF Misled
<1>2. PICK h : /\ History(p, cu, s, h) /\ Receiver(p, md, h[0], cu, cd)
               /\ u # "WaitingForPeerAnswer"
               /\ u = "Transfering" =>
                    LastPosition(s, h) = Position(mu) /\ ~LastIsCut(s, h) /\ Kinds(s, DataKinds)
  BY <1>1 DEF Data, Tracked
<1>3. Link(p, cu, Head(s), h[0], h[1]) /\ h[1] \in Positions(p)
  BY <1>0, <1>2, TakenHead
<1>4. /\ after.done = md.done
      /\ \/ after.error
         \/ /\ ~after.error /\ after.mode = "Receiving"
            /\ IsWhole(Head(s), h[0]) => Receiver(p, after, h[1], cu, cd2)
  <2>1. PICK msg, x, y : msg = Head(s) /\ x = h[0] /\ y = h[1]
    OBVIOUS
  <2>2. /\ Receiver(p, md, x, cu, cd) /\ y \in Positions(p) /\ msg.kind = "Chunk"
        /\ Link(p, cu, msg, x, y) /\ after \in Received(p, md, Len(msg.data), unreliable)
        /\ cd2 = Extend(cd, md.total, after.total - md.total, msg.data)
    BY <1>2, <1>3, <2>1
  <2>3. after.done = md.done
    BY <2>2, ReceivedDone
  <2>4. ASSUME ~after.error
        PROVE  after.mode = "Receiving"
    <3>1. after.error \/ after.mode = md.mode
      BY <2>2, ReceivedMode
    <3> QED
      BY <1>2, <2>4, <3>1 DEF Receiver
  <2>5. ASSUME ~after.error, IsWhole(msg, x)
        PROVE  Receiver(p, after, y, cu, cd2)
    BY <2>2, <2>5, ReceiverTakesChunk
  <2> QED
    BY <2>1, <2>3, <2>4, <2>5
<1>5. md.done \in Nat /\ md.done < p.nb
  <2>1. md \in Managers(p) /\ md.done = md.next - 1 /\ md.next # End(p)
    BY <1>2 DEF Receiver
  <2>2. md.next \in 1 .. End(p) /\ End(p) = p.nb + 1 /\ p.nb \in Nat
    BY <2>1, PayloadFacts DEF Managers
  <2> QED
    BY <2>1, <2>2
<1>6. CASE IsWhole(Head(s), h[0]) /\ ~after.error
  <2>1. Receiver(p, after, h[1], cu, cd2)
    BY <1>4, <1>6
  <2>2. Data(p, u, "Transfering", Tail(s), mu, cu, after, cd2)
    BY <1>0, <1>2, <2>1, TrackedOn, Zenon
  <2> QED
    BY <1>4, <1>5, <2>2
<1>7. CASE ~IsWhole(Head(s), h[0]) /\ ~after.error
  <2>1. IsCut(Head(s), h[0])
    BY <1>7 DEF IsCut
  <2>2. Kinds(Tail(s), {"Garbage"})
    BY <1>0, <1>2, <2>1, TakenHead
  <2>3. u # "Transfering"
    <3> SUFFICES ASSUME u = "Transfering"
                 PROVE  FALSE
      OBVIOUS
    <3>1. Kinds(Tail(s), DataKinds)
      BY <1>2, TailLeft DEF Fewer
    <3>2. Tail(s) = << >>
      <4>1. ASSUME Tail(s) # << >>
            PROVE  FALSE
        <5>1. Tail(s) \in Seq(Messages)
          BY TailLeft
        <5>2. Head(Tail(s)).kind \in {"Garbage"} /\ Head(Tail(s)).kind \in DataKinds
          BY <2>2, <3>1, <4>1, <5>1, HeadKinds
        <5> QED
          BY <5>2 DEF DataKinds
      <4> QED
        BY <4>1
    <3>3. LastIsCut(s, h)
      BY <1>0, <1>2, <2>1, <3>2, TakenHead
    <3> QED
      BY <1>2, <2>1, <3>3
  <2>4. Misled(p, u, Tail(s), after)
    BY <1>2, <1>4, <1>5, <1>7, <2>2, <2>3 DEF Misled
  <2>5. Kinds(Tail(s), StreamKinds) /\ Inner(Tail(s), DataKinds)
    BY <1>0, <1>2, TakenHead
  <2> QED
    BY <1>4, <1>5, <2>4, <2>5 DEF Data
<1> QED
  BY <1>4, <1>5, <1>6, <1>7

\* test_checksums.
LEMMA DataChecksums ==
  ASSUME NEW p, IsPayload(p), NEW u \in {"WaitingForPeerAnswer", "Transfering", "Error"},
         NEW s \in Seq(Messages), s # << >>, NEW mu, NEW cu, NEW md, NEW cd,
         Data(p, u, "Transfering", s, mu, cu, md, cd), Head(s).kind = "Checksums",
         cu \in Seq(Nat), Len(cu) <= TotalSize(p),
         NEW r \in TestChecksums(p, md, cd, Head(s).sums)
  PROVE  /\ r.error => r.done # p.nb
         /\ ~r.error /\ ~IsTransferComplete(p, r) =>
              r.done # p.nb /\ Data(p, u, "Transfering", Tail(s), mu, cu, r, cd)
         /\ ~r.error /\ IsTransferComplete(p, r) =>
              /\ r.done = p.nb /\ Tail(s) = << >>
              /\ u \in {"Transfering", "Error"} /\ (u = "Transfering" => mu.total = TotalSize(p))
              /\ cd = [k \in 1 .. TotalSize(p) |-> k] /\ cu = cd
<1>0. Kinds(s, StreamKinds) /\ Inner(s, DataKinds)
  BY DEF Data
<1>1. ~Misled(p, u, s, md)
  <2>1. Head(s).kind \notin {"Garbage"}
    OBVIOUS
  <2> QED
    BY <2>1, HeadKinds DEF Misled
<1>2. PICK h : /\ History(p, cu, s, h) /\ Receiver(p, md, h[0], cu, cd)
               /\ u # "WaitingForPeerAnswer"
               /\ u = "Transfering" =>
                    LastPosition(s, h) = Position(mu) /\ ~LastIsCut(s, h) /\ Kinds(s, DataKinds)
  BY <1>1 DEF Data, Tracked
<1>3. Link(p, cu, Head(s), h[0], h[1]) /\ h[1] \in Positions(p) /\ h[1].total <= Len(cu)
  BY <1>0, <1>2, TakenHead
<1>4. \/ r.error /\ r.done < p.nb
      \/ Receiver(p, r, h[1], cu, cd)
      \/ Finished(p, r, h[1], cu, cd)
  BY <1>2, <1>3, ReceiverTakesChecksums
<1>5. p.nb \in Nat /\ End(p) = p.nb + 1 /\ TotalSize(p) \in Nat
  BY PayloadFacts
<1>6. CASE r.error /\ r.done < p.nb
  BY <1>5, <1>6
<1>7. CASE Receiver(p, r, h[1], cu, cd)
  <2>1. /\ r \in Managers(p) /\ r.done = r.next - 1 /\ r.next # End(p) /\ ~r.error
        /\ r.mode = "Receiving"
    BY <1>7 DEF Receiver
  <2>2. r.done # p.nb /\ ~IsTransferComplete(p, r)
    BY <1>5, <2>1 DEF Managers, IsTransferComplete
  <2>3. Data(p, u, "Transfering", Tail(s), mu, cu, r, cd)
    BY <1>0, <1>2, <1>7, TrackedOn
  <2> QED
    BY <2>1, <2>2, <2>3
<1>8. CASE Finished(p, r, h[1], cu, cd)
  <2>1. /\ ~r.error /\ IsTransferComplete(p, r) /\ r.done = p.nb
        /\ h[1].next = h[1].current /\ h[1].total = TotalSize(p)
        /\ cd = [k \in 1 .. TotalSize(p) |-> k]
        /\ \A f \in Files(p) :
             FileBytes(p, cu, f) = FileBytes(p, [k \in 1 .. TotalSize(p) |-> k], f)
    BY <1>8 DEF Finished
  <2>2. Tail(s) = << >> /\ LastPosition(s, h) = h[1]
    BY <1>0, <1>2, <2>1, TrackedEnd
  <2>3. u = "Transfering" => mu.total = TotalSize(p)
    BY <1>2, <2>1, <2>2 DEF Position
  <2>4. cu = cd
    <3>1. Len(cu) \in Nat
      BY LenProperties
    <3>2. Len(cu) = TotalSize(p)
      BY <1>3, <1>5, <2>1, <3>1
    <3>3. cu = [k \in 1 .. TotalSize(p) |-> k]
      BY <2>1, <3>2, SameFiles
    <3> QED
      BY <2>1, <3>3
  <2> QED
    BY <1>2, <2>1, <2>2, <2>3, <2>4
<1> QED
  BY <1>4, <1>6, <1>7, <1>8

----------------------------------------------------------------------------
(* The steps of the two sides, as they keep the contract.  Joint is the     *)
(* inductive invariant, and Told what a step is for TransferContract: each  *)
(* lemma shows that a step keeps the first and that the second holds.       *)

Joint(p, u, d, ch, s, r, mu, cu, md, cd) ==
  /\ Agreed(p, u, d, ch, s, r, md, cd)
  /\ Data(p, u, d, s, mu, cu, md, cd)
  /\ Done(p, u, d, ch, mu, cu, md, cd)

Shown(st) == IF st \in Final THEN st ELSE "Open"

\* A step of the contract, or none; k is the number of files tested.
Told(p, u, d, ch, k, u2, d2, ch2, k2) ==
  \/ Shown(u2) = Shown(u) /\ Shown(d2) = Shown(d) /\ ch2 = ch /\ (k2 = p.nb <=> k = p.nb)
  \/ Shown(u) = "Open" /\ u2 = "Error" /\ d2 = d /\ ch2 = ch /\ k2 = k
  \/ /\ Shown(u) = "Open" /\ d \in {"Completed", "Rejected"}
     /\ u2 = d /\ d2 = d /\ ch2 = ch /\ k2 = k
  \/ /\ Shown(d) = "Open" /\ ch = "None" /\ ch2 = "Accept"
     /\ u2 = u /\ Shown(d2) = "Open" /\ k # p.nb /\ k2 # p.nb
  \/ /\ Shown(d) = "Open" /\ ch = "None" /\ ch2 = "Reject"
     /\ u2 = u /\ d2 = "Rejected" /\ k2 = k
  \/ /\ Shown(d) = "Open" /\ ch = "Accept" /\ ch2 = ch
     /\ u2 = u /\ d2 = "Completed" /\ k2 = p.nb
  \/ /\ u \notin {"Completed", "Rejected"} /\ u2 = u /\ ch2 = ch
     /\ d2 = "Error" /\ (k2 = p.nb <=> k = p.nb)

\* Nothing is complete before the user has chosen.
LEMMA NothingDone ==
  ASSUME NEW p, IsPayload(p)
  PROVE  /\ NewManager(p).done # p.nb /\ NewManager(p).total = 0
         /\ \A mode : StartTransfer(NewManager(p), mode).done # p.nb
BY DEF NewManager, StartTransfer, IsPayload

LEMMA JointUpAsks ==
  ASSUME NEW p, NEW u, NEW d, NEW ch, NEW s, NEW r, NEW mu, NEW cu, NEW md, NEW cd,
         Joint(p, u, d, ch, s, r, mu, cu, md, cd),
         NEW u2, NEW s2, NEW r2, Fewer(r2, r), u2 \notin Final,
         \/ u = "Init" /\ u2 = "Starting" /\ s2 = s
         \/ u = "Starting" /\ u2 = "Starting" /\ Adds(s2, s, "Handshake")
         \/ u = "Starting" /\ u2 = "WaitingForPeerAnswer" /\ Adds(s2, s, "Offer")
  PROVE  /\ Joint(p, u2, d, ch, s2, r2, mu, cu, md, cd)
         /\ Told(p, u, d, ch, md.done, u2, d, ch, md.done)
<1>1. Agreed(p, u2, d, ch, s2, r2, md, cd)
  BY UpAsks DEF Joint, Final
<1>2. d # "Transfering"
  BY DEF Joint, Agreed, Before
<1>3. Data(p, u2, d, s2, mu, cu, md, cd)
  BY <1>2 DEF Data
<1>4. Done(p, u2, d, ch, mu, cu, md, cd)
  BY DEF Joint, Done
<1>5. Shown(u2) = Shown(u)
  BY DEF Shown, Final
<1> QED
  BY <1>1, <1>3, <1>4, <1>5 DEF Joint, Told

LEMMA JointUpFails ==
  ASSUME NEW p, NEW u, NEW d, NEW ch, NEW s \in Seq(Messages), NEW r, NEW mu, NEW cu, NEW md,
         NEW cd,
         Joint(p, u, d, ch, s, r, mu, cu, md, cd),
         NEW s2, NEW r2, Fewer(r2, r), u \notin {"Completed", "Rejected"}, NEW mu2,
         \/ \E k \in 0 .. Len(s) : s2 = Prefix(s, k)
         \/ u = "Starting" /\ Adds(s2, s, "Error")
  PROVE  /\ Joint(p, "Error", d, ch, s2, r2, mu2, cu, md, cd)
         /\ Told(p, u, d, ch, md.done, "Error", d, ch, md.done)
<1>1. Agreed(p, "Error", d, ch, s2, r2, md, cd)
  <2>1. Fewer(s2, s) \/ (u = "Starting" /\ Adds(s2, s, "Error"))
    BY PrefixLeft
  <2> QED
    BY <2>1, UpFails DEF Joint
<1>2. Data(p, "Error", d, s2, mu2, cu, md, cd)
  <2>1. CASE \E k \in 0 .. Len(s) : s2 = Prefix(s, k)
    BY <2>1, DataFails DEF Joint
  <2>2. CASE u = "Starting"
    BY <2>2 DEF Joint, Agreed, Before, Data
  <2> QED
    BY <2>1, <2>2
<1>3. Done(p, "Error", d, ch, mu2, cu, md, cd)
  BY DEF Joint, Done
<1>4. Shown(u) = "Open" \/ (u = "Error" /\ Shown(u) = Shown("Error"))
  BY DEF Shown, Final
<1> QED
  BY <1>1, <1>2, <1>3, <1>4 DEF Joint, Told

LEMMA JointUpAnswered ==
  ASSUME NEW p, NEW u, NEW d, NEW ch, NEW s, NEW r, NEW mu, NEW cu, NEW md, NEW cd,
         Joint(p, u, d, ch, s, r, mu, cu, md, cd),
         NEW u2, NEW r2, NEW kind, Took(r2, r, kind), NEW mu2,
         \/ u = "WaitingForPeerAnswer" /\ u2 = "Transfering" /\ kind = "Accept"
              /\ Position(mu2) = StartPosition
         \/ u = "WaitingForPeerAnswer" /\ u2 = "Rejected" /\ kind = "Reject"
         \/ u = "Transfering" /\ u2 = "Completed" /\ kind = "Completed"
         \/ u = "Transfering" /\ u2 = "Transfering" /\ kind = "Error" /\ mu2 = mu
  PROVE  /\ Joint(p, u2, d, ch, s, r2, mu2, cu, md, cd)
         /\ Told(p, u, d, ch, md.done, u2, d, ch, md.done)
<1>1. /\ Agreed(p, u2, d, ch, s, r2, md, cd)
      /\ u2 \in {"Rejected", "Completed"} => d = u2
  <2>1. Agreed(p, u, d, ch, s, r, md, cd)
    BY DEF Joint
  <2>2. \/ u = "WaitingForPeerAnswer" /\ u2 = "Transfering" /\ kind = "Accept"
        \/ u = "WaitingForPeerAnswer" /\ u2 = "Rejected" /\ kind = "Reject"
        \/ u = "Transfering" /\ u2 = "Completed" /\ kind = "Completed"
        \/ u = "Transfering" /\ u2 = "Transfering" /\ kind = "Error"
    OBVIOUS
  <2> QED
    BY <2>1, <2>2, UpAnswered
<1>2. Data(p, u2, d, s, mu2, cu, md, cd)
  <2>1. CASE u = "WaitingForPeerAnswer" /\ u2 = "Transfering"
    BY <2>1, DataAccepted DEF Joint
  <2>2. CASE u2 \in {"Rejected", "Completed"}
    BY <1>1, <2>2 DEF Data
  <2>3. CASE u2 = u /\ mu2 = mu
    BY <2>3 DEF Joint
  <2> QED
    BY <2>1, <2>2, <2>3
<1>3. Done(p, u2, d, ch, mu2, cu, md, cd)
  BY DEF Joint, Done
<1>4. \/ Shown(u2) = Shown(u)
      \/ Shown(u) = "Open" /\ u2 \in {"Completed", "Rejected"} /\ d = u2
  BY <1>1 DEF Shown, Final
<1> QED
  BY <1>1, <1>2, <1>3, <1>4 DEF Joint, Told

\* An upload that has bytes left to send has not completed its download.
LEMMA StillOpen ==
  ASSUME NEW p, IsPayload(p), NEW d, NEW ch, NEW s, NEW r, NEW mu, NEW cu, NEW md, NEW cd,
         Joint(p, "Transfering", d, ch, s, r, mu, cu, md, cd), Sender(p, mu, cu),
         Remaining(p, mu) # 0
  PROVE  d # "Completed" /\ md.done # p.nb
<1>1. mu.total # TotalSize(p)
  <2>1. TotalSize(p) - TotalSize(p) = 0
    BY PayloadFacts
  <2> QED
    BY <2>1 DEF Remaining
<1> QED
  BY <1>1 DEF Joint, Done

LEMMA HashedInside ==
  ASSUME NEW p, IsPayload(p), NEW mu, NEW cu, Sender(p, mu, cu),
         NEW n \in 1 .. Remaining(p, mu)
  PROVE  /\ n \in Nat /\ mu.total \in Nat /\ TotalSize(p) \in Nat
         /\ mu.total + n <= TotalSize(p) /\ Remaining(p, mu) # 0
<1>1. mu.total \in Nat /\ TotalSize(p) \in Nat
  BY PayloadFacts DEF Sender, Managers
<1>2. PICK a, b : a = mu.total /\ b = TotalSize(p)
  OBVIOUS
<1>3. n \in 1 .. b - a
  BY <1>2 DEF Remaining
<1>4. n \in Nat /\ a + n <= b /\ b - a # 0
  BY <1>1, <1>2, <1>3
<1> QED
  BY <1>1, <1>2, <1>4 DEF Remaining

LEMMA JointUpSends ==
  ASSUME NEW p, IsPayload(p), NEW d, NEW ch, NEW s \in Seq(Messages), NEW r,
         NEW mu, NEW cu, NEW md, NEW cd,
         Joint(p, "Transfering", d, ch, s, r, mu, cu, md, cd), Sender(p, mu, cu),
         NEW n \in 1 .. Remaining(p, mu), NEW after \in Moved(p, mu, n),
         NEW cu2 \in Seq(Nat), Len(cu2) = mu.total + n,
         \A k \in 1 .. Len(cu) : cu2[k] = cu[k],
         NEW mu2, mu2 = TakePendingChecksums(p, after),
         NEW s2, s2 = s \o << ChunkMsg(Span(mu.total, n, {})) >> \o PendingMsgs(p, after, cu2)
  PROVE  Joint(p, "Transfering", d, ch, s2, r, mu2, cu2, md, cd)
<1>1. d # "Completed" /\ md.done # p.nb
  BY HashedInside, StillOpen
<1>2. Agreed(p, "Transfering", d, ch, s2, r, md, cd)
  <2>1. Agreed(p, "Transfering", d, ch, s, r, md, cd)
    BY DEF Joint
  <2> QED
    BY <1>1, <2>1, UpSends
<1>3. Data(p, "Transfering", d, s2, mu2, cu2, md, cd)
  <2>1. Data(p, "Transfering", d, s, mu, cu, md, cd)
    BY DEF Joint
  <2> QED
    BY <2>1, DataSends
<1>4. Done(p, "Transfering", d, ch, mu2, cu2, md, cd)
  <2>1. Len(cu2) <= TotalSize(p)
    BY HashedInside
  <2> QED
    BY <1>1, <2>1 DEF Done
<1> QED
  BY <1>2, <1>3, <1>4 DEF Joint

LEMMA JointUpCuts ==
  ASSUME NEW p, IsPayload(p), NEW d, NEW ch, NEW s \in Seq(Messages), NEW r,
         NEW mu, NEW cu, NEW md, NEW cd,
         Joint(p, "Transfering", d, ch, s, r, mu, cu, md, cd), Sender(p, mu, cu),
         NEW n \in 1 .. Remaining(p, mu), NEW good \in Nat, good < n,
         NEW cut \in CutChunks(mu.total, n, good),
         NEW cu2 \in Seq(Nat), Len(cu2) = mu.total + good,
         \A k \in 1 .. Len(cu) : cu2[k] = cu[k], NEW mu2
  PROVE  Joint(p, "Error", d, ch, s \o cut, r, mu2, cu2, md, cd)
<1>1. d # "Completed" /\ md.done # p.nb
  BY HashedInside, StillOpen
<1>2. Agreed(p, "Error", d, ch, s \o cut, r, md, cd)
  <2>1. Agreed(p, "Transfering", d, ch, s, r, md, cd)
    BY DEF Joint
  <2>2. PICK t : t = s \o cut
    OBVIOUS
  <2>3. Agreed(p, "Error", d, ch, t, r, md, cd)
    BY <1>1, <2>1, UpSends
  <2> QED
    BY <2>2, <2>3
<1>3. Data(p, "Error", d, s \o cut, mu2, cu2, md, cd)
  <2>1. Data(p, "Transfering", d, s, mu, cu, md, cd)
    BY DEF Joint
  <2> QED
    BY <2>1, DataCuts
<1>4. Done(p, "Error", d, ch, mu2, cu2, md, cd)
  <2>1. Len(cu2) <= TotalSize(p)
    <3>1. PICK a, b, c : a = mu.total /\ b = TotalSize(p) /\ c = Len(cu2)
      OBVIOUS
    <3>2. n \in Nat /\ a \in Nat /\ b \in Nat /\ a + n <= b
      BY <3>1, HashedInside
    <3>3. c = a + good
      BY <3>1
    <3> QED
      BY <3>1, <3>2, <3>3
  <2> QED
    BY <1>1, <2>1 DEF Done
<1> QED
  BY <1>2, <1>3, <1>4 DEF Joint

LEMMA JointDownAsks ==
  ASSUME NEW p, IsPayload(p), NEW u, NEW d, NEW ch, NEW s, NEW r, NEW mu, NEW cu, NEW md, NEW cd,
         Joint(p, u, d, ch, s, r, mu, cu, md, cd),
         NEW d2, NEW s2, NEW r2,
         \/ d = "None" /\ d2 = "Starting" /\ s2 = s /\ Adds(r2, r, "Handshake")
         \/ d = "Starting" /\ d2 = "WaitingForOffer" /\ Fewer(s2, s) /\ r2 = r
         \/ d = "WaitingForOffer" /\ d2 = "WaitingForUserChoice" /\ Took(s2, s, "Offer") /\ r2 = r
  PROVE  /\ Joint(p, u, d2, ch, s2, r2, mu, cu, md, cd)
         /\ Told(p, u, d, ch, md.done, u, d2, ch, md.done)
<1>1. Agreed(p, u, d2, ch, s2, r2, md, cd)
  <2>1. Agreed(p, u, d, ch, s, r, md, cd)
    BY DEF Joint
  <2> QED
    BY <2>1, DownAsks
<1>2. d \in Asking /\ d2 \notin {"Transfering", "Completed"}
  BY DEF Asking
<1>3. md = NewManager(p)
  BY <1>2 DEF Joint, Agreed, Before
<1>4. md.done # p.nb
  BY <1>3, NothingDone
<1>5. Data(p, u, d2, s2, mu, cu, md, cd) /\ Done(p, u, d2, ch, mu, cu, md, cd)
  BY <1>2, <1>4 DEF Data, Done, Joint
<1>6. Shown(d2) = Shown(d)
  BY DEF Shown, Final
<1> QED
  BY <1>1, <1>5, <1>6 DEF Joint, Told

LEMMA JointDownFails ==
  ASSUME NEW p, NEW u, NEW d, NEW ch, NEW s, NEW r, NEW mu, NEW cu, NEW md, NEW cd,
         Joint(p, u, d, ch, s, r, mu, cu, md, cd),
         u \notin {"Completed", "Rejected"},
         NEW s2, NEW r2, NEW md2, NEW cd2, Fewer(s2, s),
         \/ d \notin Final /\ Adds(r2, r, "Error")
         \/ Fewer(r2, r) /\ (d \in {"Completed", "Rejected"} => Kinds(r2, {"Handshake", "Accept"})),
         \/ md2.total = md.total /\ md2.done = md.done /\ cd2 = cd
         \/ d = "Transfering" /\ md2.done # p.nb
  PROVE  /\ Joint(p, u, "Error", ch, s2, r2, mu, cu, md2, cd2)
         /\ Told(p, u, d, ch, md.done, u, "Error", ch, md2.done)
<1>1. Agreed(p, u, "Error", ch, s2, r2, md2, cd2)
  <2>1. Agreed(p, u, d, ch, s, r, md, cd)
    BY DEF Joint
  <2>2. d = "Transfering" \/ (md2.total = md.total /\ md2.done = md.done)
    OBVIOUS
  <2> QED
    BY <2>1, <2>2, DownFails
<1>2. d = "Transfering" => md.done # p.nb
  BY DEF Joint, Done
<1>3. md2.done = p.nb <=> md.done = p.nb
  BY <1>2
<1>4. Data(p, u, "Error", s2, mu, cu, md2, cd2) /\ Done(p, u, "Error", ch, mu, cu, md2, cd2)
  BY <1>2 DEF Data, Done, Joint
<1> QED
  BY <1>1, <1>3, <1>4 DEF Joint, Told

LEMMA JointDownChooses ==
  ASSUME NEW p, IsPayload(p), NEW u, NEW ch, NEW s, NEW r, NEW mu, NEW cu, NEW md, NEW cd,
         Joint(p, u, "WaitingForUserChoice", ch, s, r, mu, cu, md, cd),
         NEW d2, NEW ch2, NEW r2, NEW md2,
         \/ /\ ch2 = "Accept" /\ d2 = "Transfering" /\ Adds(r2, r, "Accept")
            /\ md2 = StartTransfer(md, "Receiving")
         \/ /\ ch2 = "Reject" /\ d2 = "Rejected" /\ (Adds(r2, r, "Reject") \/ Fewer(r2, r))
            /\ md2.total = md.total /\ md2.done = md.done
  PROVE  /\ Joint(p, u, d2, ch2, s, r2, mu, cu, md2, cd)
         /\ Told(p, u, "WaitingForUserChoice", ch, md.done, u, d2, ch2, md2.done)
<1>1. Agreed(p, u, "WaitingForUserChoice", ch, s, r, md, cd)
  BY DEF Joint
<1>2. Agreed(p, u, d2, ch2, s, r2, md2, cd)
  BY <1>1, DownChooses
<1>3. /\ ch = "None" /\ s = << >> /\ u \in {"WaitingForPeerAnswer", "Error"}
      /\ md = NewManager(p) /\ cd = << >>
  BY <1>1 DEF Agreed, Before
<1>4. md.done # p.nb /\ md2.done # p.nb
  BY <1>3, NothingDone
<1>5. Data(p, u, d2, s, mu, cu, md2, cd)
  <2>1. CASE d2 = "Transfering"
    <3>1. md2 = StartTransfer(NewManager(p), "Receiving") /\ cu \in Seq(Nat)
      BY <1>3, <2>1 DEF Joint, Done
    <3>2. Data(p, u, "Transfering", << >>, mu, cu, StartTransfer(NewManager(p), "Receiving"), << >>)
      BY <1>3, <3>1, DataStarts
    <3> QED
      BY <1>3, <2>1, <3>1, <3>2
  <2>2. CASE d2 = "Rejected"
    BY <2>2 DEF Data
  <2> QED
    BY <2>1, <2>2
<1>6. Done(p, u, d2, ch2, mu, cu, md2, cd)
  BY <1>4 DEF Joint, Done
<1>7. Shown("WaitingForUserChoice") = "Open" /\ Shown("Transfering") = "Open"
  BY DEF Shown, Final
<1> QED
  BY <1>2, <1>3, <1>4, <1>5, <1>6, <1>7 DEF Joint, Told

\* The statuses of the upload while the download transfers.
LEMMA UpMeanwhile ==
  ASSUME NEW p, NEW u \in UpStatuses, NEW ch, NEW s, NEW r, NEW mu, NEW cu, NEW md, NEW cd,
         Joint(p, u, "Transfering", ch, s, r, mu, cu, md, cd)
  PROVE  u \in {"WaitingForPeerAnswer", "Transfering", "Error"} /\ ch = "Accept"
BY DEF Joint, Agreed, Before, Over, UpStatuses, Final

LEMMA JointDownChunk ==
  ASSUME NEW p, IsPayload(p), NEW u \in UpStatuses, NEW ch, NEW s \in Seq(Messages), NEW r,
         NEW mu, NEW cu, NEW md, NEW cd,
         Joint(p, u, "Transfering", ch, s, r, mu, cu, md, cd),
         s # << >>, Head(s).kind = "Chunk",
         NEW unreliable, NEW after \in Received(p, md, Len(Head(s).data), unreliable),
         NEW cd2, cd2 = Extend(cd, md.total, after.total - md.total, Head(s).data)
  PROVE  /\ after.done # p.nb
         /\ ~after.error =>
              /\ Joint(p, u, "Transfering", ch, Tail(s), r, mu, cu, after, cd2)
              /\ Told(p, u, "Transfering", ch, md.done, u, "Transfering", ch, after.done)
<1>1. u \in {"WaitingForPeerAnswer", "Transfering", "Error"}
  BY UpMeanwhile
<1>2. Agreed(p, u, "Transfering", ch, s, r, md, cd) /\ Data(p, u, "Transfering", s, mu, cu, md, cd)
  BY DEF Joint
<1>3. /\ after.done # p.nb
      /\ ~after.error => Data(p, u, "Transfering", Tail(s), mu, cu, after, cd2)
  BY <1>1, <1>2, DataChunk
<1>4. Agreed(p, u, "Transfering", ch, Tail(s), r, after, cd2)
  <2>1. PICK t : t = Tail(s)
    OBVIOUS
  <2>2. Agreed(p, u, "Transfering", ch, t, r, after, cd2)
    BY <1>2, DownReceives
  <2> QED
    BY <2>1, <2>2
<1>5. Done(p, u, "Transfering", ch, mu, cu, after, cd2)
  BY <1>3 DEF Joint, Done
<1>6. md.done # p.nb
  BY DEF Joint, Done
<1> QED
  BY <1>3, <1>4, <1>5, <1>6 DEF Joint, Told

LEMMA JointDownChecksums ==
  ASSUME NEW p, IsPayload(p), NEW u \in UpStatuses, NEW ch, NEW s \in Seq(Messages), NEW r,
         NEW mu, NEW cu, NEW md, NEW cd,
         Joint(p, u, "Transfering", ch, s, r, mu, cu, md, cd),
         s # << >>, Head(s).kind = "Checksums",
         NEW m \in TestChecksums(p, md, cd, Head(s).sums)
  PROVE  /\ m.error => m.done # p.nb
         /\ ~m.error /\ ~IsTransferComplete(p, m) =>
              /\ Joint(p, u, "Transfering", ch, Tail(s), r, mu, cu, m, cd)
              /\ Told(p, u, "Transfering", ch, md.done, u, "Transfering", ch, m.done)
         /\ ~m.error /\ IsTransferComplete(p, m) =>
              /\ Tail(s) = << >>
              /\ \A r2, m2 : (Adds(r2, r, "Completed") \/ Fewer(r2, r)) /\ m2.done = m.done =>
                   /\ Joint(p, u, "Completed", ch, << >>, r2, mu, cu, m2, cd)
                   /\ Told(p, u, "Transfering", ch, md.done, u, "Completed", ch, m2.done)
<1>1. u \in {"WaitingForPeerAnswer", "Transfering", "Error"} /\ ch = "Accept"
  BY UpMeanwhile
<1>2. /\ Agreed(p, u, "Transfering", ch, s, r, md, cd)
      /\ Data(p, u, "Transfering", s, mu, cu, md, cd)
      /\ cu \in Seq(Nat) /\ Len(cu) <= TotalSize(p) /\ md.done # p.nb
  BY DEF Joint, Done
<1>3. PICK t : t = Tail(s)
  OBVIOUS
<1>4. /\ m.error => m.done # p.nb
      /\ ~m.error /\ ~IsTransferComplete(p, m) =>
           m.done # p.nb /\ Data(p, u, "Transfering", t, mu, cu, m, cd)
      /\ ~m.error /\ IsTransferComplete(p, m) =>
           /\ m.done = p.nb /\ t = << >>
           /\ u \in {"Transfering", "Error"} /\ (u = "Transfering" => mu.total = TotalSize(p))
           /\ cd = [k \in 1 .. TotalSize(p) |-> k] /\ cu = cd
  BY <1>1, <1>2, <1>3, DataChecksums
<1>5. ASSUME ~m.error, ~IsTransferComplete(p, m)
      PROVE  /\ Joint(p, u, "Transfering", ch, t, r, mu, cu, m, cd)
             /\ Told(p, u, "Transfering", ch, md.done, u, "Transfering", ch, m.done)
  <2>1. m.done # p.nb /\ Data(p, u, "Transfering", t, mu, cu, m, cd)
    BY <1>4, <1>5
  <2>2. Agreed(p, u, "Transfering", ch, t, r, m, cd)
    BY <1>2, DownReceives
  <2>3. Done(p, u, "Transfering", ch, mu, cu, m, cd)
    BY <1>2, <2>1 DEF Done
  <2> QED
    BY <1>2, <2>1, <2>2, <2>3 DEF Joint, Told
<1>6. ASSUME ~m.error, IsTransferComplete(p, m), NEW r2, NEW m2, m2.done = m.done,
             Adds(r2, r, "Completed") \/ Fewer(r2, r)
      PROVE  /\ Joint(p, u, "Completed", ch, << >>, r2, mu, cu, m2, cd)
             /\ Told(p, u, "Transfering", ch, md.done, u, "Completed", ch, m2.done)
  <2>1. /\ m2.done = p.nb
        /\ u \in {"Transfering", "Error"} /\ (u = "Transfering" => mu.total = TotalSize(p))
        /\ cd = [k \in 1 .. TotalSize(p) |-> k] /\ cu = cd
    BY <1>4, <1>6
  <2>2. Agreed(p, u, "Completed", ch, << >>, r2, m2, cd)
    BY <1>2, <1>6, DownReceives
  <2>3. Done(p, u, "Completed", ch, mu, cu, m2, cd)
    BY <1>1, <1>2, <2>1 DEF Done
  <2>4. Data(p, u, "Completed", << >>, mu, cu, m2, cd)
    BY DEF Data
  <2>5. Shown("Transfering") = "Open"
    BY DEF Shown, Final
  <2> QED
    BY <1>1, <2>1, <2>2, <2>3, <2>4, <2>5 DEF Joint, Told
<1> QED
  BY <1>3, <1>4, <1>5, <1>6

----------------------------------------------------------------------------
(* The handlers, as steps of the two sides: each lemma finds the step that   *)
(* some actions of the module are, and concludes with PairStep.              *)

Pair ==
  Joint(payload, status["up"], status["down"], choice, Stream("up"), Stream("down"),
        mgr["up"], content["up"], mgr["down"], content["down"])

Tells ==
  /\ payload' = payload
  /\ Told(payload, status["up"], status["down"], choice, mgr["down"].done,
          status'["up"], status'["down"], choice', mgr'["down"].done)

\* The values of the state, by name.
Known(p, u, d, ch, s, r, mu, cu, md, cd) ==
  /\ p = payload /\ u = status["up"] /\ d = status["down"] /\ ch = choice
  /\ s = Stream("up") /\ r = Stream("down")
  /\ mu = mgr["up"] /\ cu = content["up"] /\ md = mgr["down"] /\ cd = content["down"]

\* Names for the values of the state: the lemmas above are about values.
LEMMA PairKnown ==
  ASSUME Control, Pair
  PROVE  \E p, u, d, ch, s, r, mu, cu, md, cd :
           /\ Known(p, u, d, ch, s, r, mu, cu, md, cd)
           /\ Joint(p, u, d, ch, s, r, mu, cu, md, cd)
           /\ IsPayload(p) /\ u \in UpStatuses /\ d \in DownStatuses
           /\ s \in Seq(Messages) /\ r \in Seq(Messages)
<1>1. /\ IsPayload(payload) /\ status["up"] \in UpStatuses /\ status["down"] \in DownStatuses
      /\ Stream("up") \in Seq(Messages) /\ Stream("down") \in Seq(Messages)
  BY ControlFacts, StreamType DEF Control, Handling, Sides
<1> QED
  BY <1>1 DEF Known, Pair

\* A step of the two sides, from what it does to those values.
LEMMA PairStep ==
  ASSUME NEW p, NEW u, NEW d, NEW ch, NEW s, NEW r, NEW mu, NEW cu, NEW md, NEW cd,
         NEW u2, NEW d2, NEW ch2, NEW s2, NEW r2, NEW mu2, NEW cu2, NEW md2, NEW cd2,
         Known(p, u, d, ch, s, r, mu, cu, md, cd),
         Known(p, u2, d2, ch2, s2, r2, mu2, cu2, md2, cd2)',
         Joint(p, u2, d2, ch2, s2, r2, mu2, cu2, md2, cd2),
         Told(p, u, d, ch, md.done, u2, d2, ch2, md2.done)
  PROVE  Pair' /\ Tells
<1>1. /\ p = payload' /\ u2 = status'["up"] /\ d2 = status'["down"] /\ ch2 = choice'
      /\ s2 = Stream("up")' /\ r2 = Stream("down")'
      /\ mu2 = mgr'["up"] /\ cu2 = content'["up"] /\ md2 = mgr'["down"] /\ cd2 = content'["down"]
  BY DEF Known
<1>2. Pair'
  BY <1>1, Zenon DEF Pair
<1>3. Tells
  BY <1>1, Zenon DEF Known, Tells
<1> QED
  BY <1>2, <1>3

\* A step that changes none of them.
LEMMA PairSame ==
  ASSUME Control, Pair, UNCHANGED <<payload, choice>>,
         status'["up"] = status["up"], status'["down"] = status["down"],
         mgr'["up"] = mgr["up"], mgr'["down"] = mgr["down"],
         content'["up"] = content["up"], content'["down"] = content["down"],
         Stream("up")' = Stream("up"), Stream("down")' = Stream("down")
  PROVE  Pair' /\ Tells
<1>1. Pair'
  BY Zenon DEF Pair
<1>2. Tells
  BY DEF Tells, Told
<1> QED
  BY <1>1, <1>2

\* Handlers that move messages along.
LEMMA PairMoving ==
  ASSUME Control, Pair, NEW e \in Sides, Write(e) \/ Arrive(e) \/ Timer(e) \/ Starved(e)
  PROVE  Pair' /\ Tells
<1>1. Keeps(e)
  BY MovingKeeps DEF Moving, Control
<1>2. Stream("up")' = Stream("up") /\ Stream("down")' = Stream("down")
  BY <1>1, Peers DEF Keeps, Sides
<1>3. UNCHANGED <<payload, choice, status, mgr, content>>
  BY DEF Write, Arrive, Timer, Starved, Constant
<1> QED
  BY <1>2, <1>3, PairSame

\* The flush, and the end of refill_send_buffer.
LEMMA PairRefills ==
  ASSUME Control, Pair, RefillEnds \/ UpFlush
  PROVE  Pair' /\ Tells
<1>1. Keeps("up")
  BY MovingKeeps DEF Moving, Control, Sides
<1>2. Stream("up")' = Stream("up") /\ Stream("down")' = Stream("down")
  BY <1>1, Peers DEF Keeps, Sides
<1>3. UNCHANGED <<payload, choice, status, mgr, content>>
  BY DEF RefillEnds, UpFlush, Constant
<1> QED
  BY <1>2, <1>3, PairSame

\* The handlers of the upload that ask.
LEMMA PairConnect ==
  ASSUME Control, Pair, Connect
  PROVE  Pair' /\ Tells
<1>1. PICK p, u, d, ch, s, r, mu, cu, md, cd :
        /\ Known(p, u, d, ch, s, r, mu, cu, md, cd)
        /\ Joint(p, u, d, ch, s, r, mu, cu, md, cd)
  BY PairKnown
<1>2. Keeps("up")
  BY MovingKeeps DEF Moving, Control, Sides
<1>3. Stream("up")' = s /\ Stream("down")' = r
  BY <1>1, <1>2, Peers DEF Keeps, Sides, Known
<1>4. /\ status["up"] = "Init" /\ status'["up"] = "Starting" /\ status'["down"] = status["down"]
      /\ UNCHANGED <<payload, choice, mgr, content>>
  BY DEF Connect, Constant, Control, Types, Sides
<1>5. Known(p, "Starting", d, ch, s, r, mu, cu, md, cd)'
  BY <1>1, <1>3, <1>4 DEF Known
<1>6. u = "Init" /\ Fewer(r, r) /\ "Starting" \notin Final
  BY <1>1, <1>4, NoKinds DEF Known, Final
<1>7. /\ Joint(p, "Starting", d, ch, s, r, mu, cu, md, cd)
      /\ Told(p, u, d, ch, md.done, "Starting", d, ch, md.done)
  BY <1>1, <1>6, JointUpAsks
<1> QED
  BY <1>1, <1>5, <1>7, PairStep

LEMMA PairConnected ==
  ASSUME Control, Pair, Connected
  PROVE  Pair' /\ Tells
<1>1. PICK p, u, d, ch, s, r, mu, cu, md, cd :
        /\ Known(p, u, d, ch, s, r, mu, cu, md, cd)
        /\ Joint(p, u, d, ch, s, r, mu, cu, md, cd)
  BY PairKnown
<1>2. PICK msg \in Messages : msg = HandshakeMsg(versions["up"]) /\ msg.kind = "Handshake"
  <2>1. versions["up"] \in Nat
    BY DEF Control, Types, Sides
  <2> QED
    BY <2>1, MessageTypes
<1>3. Sends("up", << msg >>)
  <2>1. wbuf["up"] = << >> /\ wbuf' = [wbuf EXCEPT !["up"] = << msg >>] /\ UNCHANGED <<net, rbuf>>
    BY <1>2 DEF Connected, Control, Sockets, Sides
  <2> QED
    BY <2>1, SendsOne DEF Control, Sides
<1>4. PICK s2 : s2 = Stream("up")' /\ Adds(s2, s, "Handshake") /\ Stream("down")' = r
  BY <1>1, <1>2, <1>3, SendsKinds, Peers DEF Control, Sides, Known
<1>5. /\ status["up"] = "Starting"
      /\ UNCHANGED <<payload, choice, status, mgr, content>>
  BY DEF Connected, Constant, Control, Sockets, Sides
<1>6. Known(p, u, d, ch, s2, r, mu, cu, md, cd)'
  BY <1>1, <1>4, <1>5 DEF Known
<1>7. u = "Starting" /\ Fewer(r, r) /\ "Starting" \notin Final
  BY <1>1, <1>5, NoKinds DEF Known, Final
<1>8. /\ Joint(p, u, d, ch, s2, r, mu, cu, md, cd)
      /\ Told(p, u, d, ch, md.done, u, d, ch, md.done)
  BY <1>1, <1>4, <1>7, JointUpAsks
<1> QED
  BY <1>1, <1>6, <1>8, PairStep

LEMMA PairUpGreets ==
  ASSUME Control, Pair, ReceiveHandshake("up")
  PROVE  Pair' /\ Tells
<1>1. PICK p, u, d, ch, s, r, mu, cu, md, cd :
        /\ Known(p, u, d, ch, s, r, mu, cu, md, cd)
        /\ Joint(p, u, d, ch, s, r, mu, cu, md, cd)
  BY PairKnown
<1>2. PICK msg \in Messages : msg = Msg("Offer") /\ msg.kind = "Offer"
  BY MessageTypes
<1>3. Takes("up", << msg >>)
  <2>1. /\ Readable("up") /\ Take("up") /\ UNCHANGED net
        /\ wbuf' = [wbuf EXCEPT !["up"] = Append(wbuf["up"], msg)]
    BY <1>2 DEF ReceiveHandshake, Taking
  <2> QED
    BY <2>1, TakesAndSends DEF Control, Sides
<1>4. /\ Adds(Stream("up")', s, "Offer") /\ Fewer(Stream("down")', r)
  BY <1>1, <1>2, <1>3, TakesKinds, Peers DEF Control, Sides, Known
<1>5. /\ status["up"] = "Starting" /\ status'["up"] = "WaitingForPeerAnswer"
      /\ status'["down"] = status["down"]
      /\ UNCHANGED <<payload, choice, mgr, content>>
  BY DEF ReceiveHandshake, Taking, Constant, Control, Greeting, Types, Sides
<1>6. PICK s2, r2 : s2 = Stream("up")' /\ r2 = Stream("down")'
  OBVIOUS
<1>7. Known(p, "WaitingForPeerAnswer", d, ch, s2, r2, mu, cu, md, cd)'
  BY <1>1, <1>5, <1>6 DEF Known
<1>8. /\ u = "Starting" /\ Fewer(r2, r) /\ Adds(s2, s, "Offer")
      /\ "WaitingForPeerAnswer" \notin Final
  BY <1>1, <1>4, <1>5, <1>6 DEF Known, Final
<1>9. /\ Joint(p, "WaitingForPeerAnswer", d, ch, s2, r2, mu, cu, md, cd)
      /\ Told(p, u, d, ch, md.done, "WaitingForPeerAnswer", d, ch, md.done)
  BY <1>1, <1>8, JointUpAsks
<1> QED
  BY <1>1, <1>7, <1>9, PairStep

\* Nothing on its way, nothing in a buffer.
LEMMA EmptyParts ==
  ASSUME NEW a \in Seq(Messages), NEW b \in Seq(Messages), NEW c \in Seq(Messages),
         Joined(a, b, c) = << >>
  PROVE  a = << >> /\ b = << >> /\ c = << >>
<1>1. Len((a \o b) \o c) = 0
  BY EmptySeq DEF Joined
<1>2. /\ a \o b \in Seq(Messages) /\ Len(a \o b) = Len(a) + Len(b)
      /\ Len((a \o b) \o c) = Len(a \o b) + Len(c)
      /\ Len(a) \in Nat /\ Len(b) \in Nat /\ Len(c) \in Nat
  BY ConcatProperties, LenProperties
<1>3. Len(a) = 0 /\ Len(b) = 0 /\ Len(c) = 0
  BY <1>1, <1>2
<1> QED
  BY <1>3, EmptySeq

LEMMA EmptyStream ==
  ASSUME BuffersOK, NEW e \in Sides, Stream(e) = << >>
  PROVE  rbuf[Peer(e)] = << >> /\ wbuf[e] = << >>
<1>1. PICK a, b, c : a = rbuf[Peer(e)] /\ b = net[e] /\ c = wbuf[e]
  OBVIOUS
<1>2. a \in Seq(Messages) /\ b \in Seq(Messages) /\ c \in Seq(Messages)
  BY <1>1, Peers DEF BuffersOK
<1>3. Joined(a, b, c) = << >>
  BY <1>1 DEF Stream
<1> QED
  BY <1>1, <1>2, <1>3, EmptyParts

\* Once the upload has the answer that ends it, both sides are done.
LEMMA Settled ==
  ASSUME Control, Pair, status["up"] \in {"Completed", "Rejected"}, NEW e \in Sides
  PROVE  ~Readable(e) /\ ~Aborting(e)
<1>1. /\ status["down"] = status["up"]
      /\ Stream("up") = << >> /\ Stream("down") = << >>
  BY DEF Pair, Joint, Agreed, Over
<1>2. rbuf[e] = << >> /\ wbuf[e] = << >>
  BY <1>1, EmptyStream, Peers DEF Control, Sides
<1>3. status[e] \in Final /\ status[e] # "Starting"
  BY <1>1 DEF Final, Sides
<1>4. sock[e] \notin {"Connecting", "Connected", "Closing"}
  BY <1>2, <1>3 DEF Control, Sockets
<1> QED
  BY <1>2, <1>4 DEF Readable, Aborting, RemoteClosed, Reset, NetworkError, ProtocolError

LEMMA AllOfIt ==
  ASSUME NEW s \in Seq(Messages)
  PROVE  Len(s) \in 0 .. Len(s) /\ Prefix(s, Len(s)) = s
BY LenProperties, SubSeqFull DEF Prefix

\* The handlers of the upload that fail.
LEMMA PairUpAborts ==
  ASSUME Control, Pair, Aborting("up")
  PROVE  Pair' /\ Tells
<1>1. PICK p, u, d, ch, s, r, mu, cu, md, cd :
        /\ Known(p, u, d, ch, s, r, mu, cu, md, cd)
        /\ Joint(p, u, d, ch, s, r, mu, cu, md, cd)
        /\ s \in Seq(Messages)
  BY PairKnown
<1>2. u \notin {"Completed", "Rejected"}
  BY <1>1, Settled DEF Known, Sides
<1>3. Loses("up")
  BY AbortingLoses, Peers DEF Control, Sockets, Sides
<1>4. PICK s2, r2, mu2 : s2 = Stream("up")' /\ r2 = Stream("down")' /\ mu2 = mgr'["up"]
  OBVIOUS
<1>5. (\E k \in 0 .. Len(s) : s2 = Prefix(s, k)) /\ Fewer(r2, r)
  <2>1. \E k \in 0 .. Len(s) : s2 = Prefix(s, k)
    BY <1>1, <1>3, <1>4 DEF Loses, Known
  <2>2. Fewer(r2, r)
    BY <1>1, <1>3, <1>4, LosesKinds, Peers DEF Known, Control, Sides
  <2> QED
    BY <2>1, <2>2
<1>6. /\ status'["up"] = "Error" /\ status'["down"] = status["down"]
      /\ mgr'["down"] = mgr["down"]
      /\ UNCHANGED <<payload, choice, content>>
  BY DEF Aborting, RemoteClosed, Reset, NetworkError, ProtocolError, SocketError, Failed,
         Constant, Control, Types, Sides
<1>7. Known(p, "Error", d, ch, s2, r2, mu2, cu, md, cd)'
  BY <1>1, <1>4, <1>6 DEF Known
<1>8. /\ Joint(p, "Error", d, ch, s2, r2, mu2, cu, md, cd)
      /\ Told(p, u, d, ch, md.done, "Error", d, ch, md.done)
  BY <1>1, <1>2, <1>5, JointUpFails
<1> QED
  BY <1>1, <1>7, <1>8, PairStep

\* The versions differ.
LEMMA PairUpRefuses ==
  ASSUME Control, Pair, VersionMismatch("up")
  PROVE  Pair' /\ Tells
<1>1. PICK p, u, d, ch, s, r, mu, cu, md, cd :
        /\ Known(p, u, d, ch, s, r, mu, cu, md, cd)
        /\ Joint(p, u, d, ch, s, r, mu, cu, md, cd)
        /\ s \in Seq(Messages)
  BY PairKnown
<1>2. PICK msg \in Messages : msg = Msg("Error") /\ msg.kind = "Error"
  BY MessageTypes
<1>3. Takes("up", << msg >>)
  <2>1. /\ Readable("up") /\ Take("up") /\ UNCHANGED net
        /\ wbuf' = [wbuf EXCEPT !["up"] = Append(wbuf["up"], msg)]
    BY <1>2 DEF VersionMismatch, Taking, Close
  <2> QED
    BY <2>1, TakesAndSends DEF Control, Sides
<1>4. PICK s2, r2, mu2 : s2 = Stream("up")' /\ r2 = Stream("down")' /\ mu2 = mgr'["up"]
  OBVIOUS
<1>5. Adds(s2, s, "Error") /\ Fewer(r2, r)
  BY <1>1, <1>2, <1>3, <1>4, TakesKinds, Peers DEF Control, Sides, Known
<1>6. /\ status["up"] = "Starting" /\ status'["up"] = "Error"
      /\ status'["down"] = status["down"] /\ mgr'["down"] = mgr["down"]
      /\ UNCHANGED <<payload, choice, content>>
  BY DEF VersionMismatch, Taking, Failed, Constant, Control, Greeting, Types, Sides
<1>7. Known(p, "Error", d, ch, s2, r2, mu2, cu, md, cd)'
  BY <1>1, <1>4, <1>6 DEF Known
<1>8. u = "Starting"
  BY <1>1, <1>6 DEF Known
<1>9. /\ Joint(p, "Error", d, ch, s2, r2, mu2, cu, md, cd)
      /\ Told(p, u, d, ch, md.done, "Error", d, ch, md.done)
  BY <1>1, <1>5, <1>8, JointUpFails
<1> QED
  BY <1>1, <1>7, <1>9, PairStep

\* The peer's failure, and the end of the flush it caused.
LEMMA PairUpGivesUp ==
  ASSUME Control, Pair,
         UpFlushEnds \/ (ReceiveError("up") /\ status["up"] # "Transfering")
  PROVE  Pair' /\ Tells
<1>1. PICK p, u, d, ch, s, r, mu, cu, md, cd :
        /\ Known(p, u, d, ch, s, r, mu, cu, md, cd)
        /\ Joint(p, u, d, ch, s, r, mu, cu, md, cd)
        /\ s \in Seq(Messages)
  BY PairKnown
<1>2. PICK s2, r2, mu2 : s2 = Stream("up")' /\ r2 = Stream("down")' /\ mu2 = mgr'["up"]
  OBVIOUS
<1>3. s2 = s /\ Fewer(r2, r)
  <2>1. CASE UpFlushEnds
    <3>1. Keeps("up")
      BY <2>1, MovingKeeps DEF Moving, Control, Sides
    <3>2. s2 = s /\ r2 = r
      BY <1>1, <1>2, <3>1, Peers DEF Keeps, Sides, Known
    <3> QED
      BY <3>2, NoKinds
  <2>2. CASE ReceiveError("up") /\ status["up"] # "Transfering"
    <3>1. /\ Readable("up") /\ Take("up") /\ UNCHANGED net
          /\ wbuf' = [wbuf EXCEPT !["up"] = wbuf["up"]]
      BY <2>2 DEF ReceiveError, Taking, Close
    <3>2. Takes("up", << >>)
      BY <3>1, TakesOnly DEF Control, Sides
    <3> QED
      BY <1>1, <1>2, <3>2, TakesKinds, Peers DEF Control, Sides, Known
  <2> QED
    BY <2>1, <2>2
<1>4. /\ status["up"] \notin {"Completed", "Rejected"}
      /\ status'["up"] = "Error" /\ status'["down"] = status["down"]
      /\ mgr'["down"] = mgr["down"]
      /\ UNCHANGED <<payload, choice, content>>
  <2>1. CASE UpFlushEnds
    BY <2>1 DEF UpFlushEnds, Failed, Constant, Control, Handling, Types, Sides
  <2>2. CASE ReceiveError("up") /\ status["up"] # "Transfering"
    <3>1. status["up"] \notin {"Completed", "Rejected"}
      BY <2>2, Settled DEF ReceiveError, Taking, Sides
    <3> QED
      BY <2>2, <3>1 DEF ReceiveError, Failed, Constant, Control, Types, Sides
  <2> QED
    BY <2>1, <2>2
<1>5. Known(p, "Error", d, ch, s2, r2, mu2, cu, md, cd)'
  BY <1>1, <1>2, <1>4 DEF Known
<1>6. u \notin {"Completed", "Rejected"} /\ \E k \in 0 .. Len(s) : s2 = Prefix(s, k)
  BY <1>1, <1>3, <1>4, AllOfIt DEF Known
<1>7. /\ Joint(p, "Error", d, ch, s2, r2, mu2, cu, md, cd)
      /\ Told(p, u, d, ch, md.done, "Error", d, ch, md.done)
  BY <1>1, <1>3, <1>6, JointUpFails, Zenon
<1> QED
  BY <1>1, <1>5, <1>7, PairStep

LEMMA TakesTook ==
  ASSUME BuffersOK, NEW e \in Sides, Takes(e, << >>)
  PROVE  /\ Took(Stream(Peer(e))', Stream(Peer(e)), Incoming(e).kind)
         /\ Stream(e)' = Stream(e)
BY TakesKinds DEF Took

\* The handlers of the upload that take an answer.
LEMMA PairUpAnswered ==
  ASSUME Control, Pair,
         \/ ReceiveAccept \/ ReceiveReject \/ ReceiveCompleted
         \/ ReceiveError("up") /\ status["up"] = "Transfering"
  PROVE  Pair' /\ Tells
<1>1. PICK p, u, d, ch, s, r, mu, cu, md, cd :
        /\ Known(p, u, d, ch, s, r, mu, cu, md, cd)
        /\ Joint(p, u, d, ch, s, r, mu, cu, md, cd)
  BY PairKnown
<1>2. PICK kind, u2, r2, mu2 : /\ kind = Incoming("up").kind /\ u2 = status'["up"]
                               /\ r2 = Stream("down")' /\ mu2 = mgr'["up"]
  OBVIOUS
<1>3. Takes("up", << >>)
  <2>1. /\ Readable("up") /\ Take("up") /\ UNCHANGED net
        /\ wbuf' = wbuf \/ wbuf' = [wbuf EXCEPT !["up"] = wbuf["up"]]
    BY DEF ReceiveAccept, ReceiveReject, ReceiveCompleted, ReceiveError, Taking, Close
  <2> QED
    BY <2>1, TakesOnly DEF Control, Sides
<1>4. Took(r2, r, kind) /\ Stream("up")' = s
  BY <1>1, <1>2, <1>3, TakesTook, Peers DEF Control, Sides, Known
<1>5. /\ status'["down"] = status["down"] /\ mgr'["down"] = mgr["down"]
      /\ UNCHANGED <<payload, choice, content>>
  BY DEF ReceiveAccept, ReceiveReject, ReceiveCompleted, ReceiveError, Constant, Control, Types,
         Sides
<1>6. Known(p, u2, d, ch, s, r2, mu2, cu, md, cd)'
  BY <1>1, <1>2, <1>4, <1>5 DEF Known
<1>7. \/ u = "WaitingForPeerAnswer" /\ u2 = "Transfering" /\ kind = "Accept"
           /\ Position(mu2) = StartPosition
      \/ u = "WaitingForPeerAnswer" /\ u2 = "Rejected" /\ kind = "Reject"
      \/ u = "Transfering" /\ u2 = "Completed" /\ kind = "Completed"
      \/ u = "Transfering" /\ u2 = "Transfering" /\ kind = "Error" /\ mu2 = mu
  <2>1. CASE ReceiveAccept
    <3>1. mu2 = StartTransfer(mgr["up"], "Sending")
      BY <1>2, <2>1 DEF ReceiveAccept, Control, Types, Sides
    <3>2. Position(mu2) = StartPosition
      BY <3>1 DEF StartTransfer, Position, StartPosition
    <3> QED
      BY <1>1, <1>2, <2>1, <3>2 DEF ReceiveAccept, Taking, Expected, Control, Types, Sides, Known
  <2>2. CASE ReceiveReject
    BY <1>1, <1>2, <2>2 DEF ReceiveReject, Taking, Expected, Control, Types, Sides, Known
  <2>3. CASE ReceiveCompleted
    BY <1>1, <1>2, <2>3 DEF ReceiveCompleted, Taking, Expected, Control, Types, Sides, Known
  <2>4. CASE ReceiveError("up") /\ status["up"] = "Transfering"
    BY <1>1, <1>2, <2>4 DEF ReceiveError, Taking, Control, Types, Sides, Known
  <2> QED
    BY <2>1, <2>2, <2>3, <2>4
<1>8. /\ Joint(p, u2, d, ch, s, r2, mu2, cu, md, cd)
      /\ Told(p, u, d, ch, md.done, u2, d, ch, md.done)
  BY <1>1, <1>4, <1>7, JointUpAnswered
<1> QED
  BY <1>1, <1>6, <1>8, PairStep

\* The handlers of the upload that send the data.
LEMMA PairUpSends ==
  ASSUME Control, Pair, SendNextChunk
  PROVE  Pair' /\ Tells
<1>1. PICK p, u, d, ch, s, r, mu, cu, md, cd :
        /\ Known(p, u, d, ch, s, r, mu, cu, md, cd)
        /\ Joint(p, u, d, ch, s, r, mu, cu, md, cd)
        /\ IsPayload(p) /\ s \in Seq(Messages)
  BY PairKnown
<1>2. PICK s2, mu2, cu2 : s2 = Stream("up")' /\ mu2 = mgr'["up"] /\ cu2 = content'["up"]
  OBVIOUS
<1>3. u = "Transfering" /\ Sender(p, mu, cu)
  BY <1>1, SendFacts DEF Known
<1>4. PICK n \in 1 .. Remaining(p, mu) :
        \E after \in Moved(p, mu, n), msgs \in Seq(Messages) :
          /\ msgs = << ChunkMsg(Span(mu.total, n, {})) >> \o PendingMsgs(p, after, cu2)
          /\ Sends("up", msgs)
          /\ cu2 \in Seq(Nat) /\ Len(cu2) = mu.total + n
          /\ \A k \in 1 .. Len(cu) : cu2[k] = cu[k]
          /\ mu2 = TakePendingChecksums(p, after)
          /\ Sender(p, mu2, cu2)
  <2>1. PICK n \in 1 .. Remaining(payload, mgr["up"]) :
          \E after \in Moved(payload, mgr["up"], n), msgs \in Seq(Messages) :
              /\ msgs = << ChunkMsg(Span(mgr["up"].total, n, {})) >>
                          \o PendingMsgs(payload, after, content'["up"])
              /\ Sends("up", msgs)
              /\ content'["up"] \in Seq(Nat) /\ Len(content'["up"]) = mgr["up"].total + n
              /\ \A k \in 1 .. Len(content["up"]) : content'["up"][k] = content["up"][k]
              /\ mgr'["up"] = TakePendingChecksums(payload, after)
              /\ Sender(payload, mgr'["up"], content'["up"])
    BY SendFacts, Zenon
  <2>2. p = payload /\ mu = mgr["up"] /\ cu = content["up"]
    BY <1>1 DEF Known
  <2> QED
    BY <1>2, <2>1, <2>2, Zenon
<1>5. PICK after \in Moved(p, mu, n), msgs \in Seq(Messages) :
          /\ msgs = << ChunkMsg(Span(mu.total, n, {})) >> \o PendingMsgs(p, after, cu2)
          /\ Sends("up", msgs)
          /\ cu2 \in Seq(Nat) /\ Len(cu2) = mu.total + n
          /\ \A k \in 1 .. Len(cu) : cu2[k] = cu[k]
          /\ mu2 = TakePendingChecksums(p, after)
          /\ Sender(p, mu2, cu2)
  BY <1>4
<1>6. /\ Stream("up")' = Stream("up") \o msgs /\ Stream("down")' = Stream("down")
  BY <1>5, Peers DEF Sends, Sides
<1>7. /\ status' = status /\ mgr'["down"] = mgr["down"] /\ content'["down"] = content["down"]
      /\ UNCHANGED <<payload, choice>>
  <2>1. /\ \E x : content' = [content EXCEPT !["up"] = x]
        /\ \E x : mgr' = [mgr EXCEPT !["up"] = x]
    BY Zenon DEF SendNextChunk
  <2> QED
    BY <2>1 DEF SendNextChunk, Constant, Control, Types, Sides
<1>8. Known(p, u, d, ch, s2, r, mu2, cu2, md, cd)'
  BY <1>1, <1>2, <1>6, <1>7 DEF Known
<1>9. s2 = s \o << ChunkMsg(Span(mu.total, n, {})) >> \o PendingMsgs(p, after, cu2)
  <2>1. PICK a, b : a = << ChunkMsg(Span(mu.total, n, {})) >> /\ b = PendingMsgs(p, after, cu2)
    OBVIOUS
  <2>2. a \in Seq(Messages) /\ b \in Seq(Messages)
    <3>1. mu \in Managers(p) /\ Position(mu) \in Positions(p)
      BY <1>3 DEF Sender
    <3>2. /\ after \in Managers(p) /\ Position(after) \in Positions(p)
          /\ after.total = mu.total + n
      BY <1>1, <3>1, MovedPosition
    <3>3. mu.total \in Nat /\ n \in Nat
      BY <1>1, <1>3, HashedInside
    <3>4. after.total <= Len(cu2) /\ cu2 \in Seq(Nat)
      <4>1. after.total = Len(cu2) /\ Len(cu2) \in Nat
        BY <1>5, <3>2, LenProperties
      <4> QED
        BY <1>5, <4>1
    <3> QED
      BY <1>1, <2>1, <3>2, <3>3, <3>4, SentMsgs
  <2>3. s \o (a \o b) = (s \o a) \o b
    BY <1>1, <2>2, Associative
  <2>4. s2 = s \o (a \o b)
    BY <1>1, <1>2, <1>5, <1>6, <2>1 DEF Known
  <2> QED
    BY <2>1, <2>3, <2>4
<1>10. Joint(p, "Transfering", d, ch, s, r, mu, cu, md, cd)
  BY <1>1, <1>3
<1>11. Told(p, "Transfering", d, ch, md.done, "Transfering", d, ch, md.done)
  BY DEF Told
<1>12. Joint(p, "Transfering", d, ch, s2, r, mu2, cu2, md, cd)
  <2>1. IsPayload(p) /\ s \in Seq(Messages) /\ Sender(p, mu, cu)
    BY <1>1, <1>3
  <2>2. /\ cu2 \in Seq(Nat) /\ Len(cu2) = mu.total + n
        /\ \A k \in 1 .. Len(cu) : cu2[k] = cu[k]
        /\ mu2 = TakePendingChecksums(p, after)
        /\ n \in 1 .. Remaining(p, mu) /\ after \in Moved(p, mu, n)
    BY <1>5
  <2> QED
    BY <1>9, <1>10, <2>1, <2>2, JointUpSends
<1> QED
  BY <1>1, <1>3, <1>8, <1>11, <1>12, PairStep

\* A file that cannot be opened.
LEMMA PairUpCuts ==
  ASSUME Control, Pair, SendFails
  PROVE  Pair' /\ Tells
<1>1. PICK p, u, d, ch, s, r, mu, cu, md, cd :
        /\ Known(p, u, d, ch, s, r, mu, cu, md, cd)
        /\ Joint(p, u, d, ch, s, r, mu, cu, md, cd)
        /\ IsPayload(p) /\ s \in Seq(Messages)
  BY PairKnown
<1>2. PICK mu2, cu2 : mu2 = mgr'["up"] /\ cu2 = content'["up"]
  OBVIOUS
<1>3. u = "Transfering" /\ Sender(p, mu, cu)
  BY <1>1, SendFailsFacts DEF Known
<1>4. PICK n \in 1 .. Remaining(p, mu), good \in Nat, cut \in Seq(Messages) :
        /\ good < n /\ cut \in CutChunks(mu.total, n, good)
        /\ Sends("up", cut)
        /\ cu2 \in Seq(Nat) /\ Len(cu2) = mu.total + good
        /\ \A k \in 1 .. Len(cu) : cu2[k] = cu[k]
  <2>1. \E n \in 1 .. Remaining(payload, mgr["up"]), good \in Nat, cut \in Seq(Messages) :
              /\ good < n /\ cut \in CutChunks(mgr["up"].total, n, good)
              /\ BuffersOK' /\ Sends("up", cut)
              /\ content'["up"] \in Seq(Nat) /\ Len(content'["up"]) = mgr["up"].total + good
              /\ \A k \in 1 .. Len(content["up"]) : content'["up"][k] = content["up"][k]
    BY SendFailsFacts, Zenon
  <2>2. p = payload /\ mu = mgr["up"] /\ cu = content["up"]
    BY <1>1 DEF Known
  <2> QED
    BY <1>2, <2>1, <2>2, Zenon
<1>6. /\ Stream("up")' = s \o cut /\ Stream("down")' = r
  BY <1>1, <1>4, Peers DEF Sends, Sides, Known
<1>7. /\ status'["up"] = "Error" /\ status'["down"] = status["down"]
      /\ mgr'["down"] = mgr["down"] /\ content'["down"] = content["down"]
      /\ UNCHANGED <<payload, choice>>
  <2>1. /\ status' = [status EXCEPT !["up"] = "Error"]
        /\ mgr'["down"] = mgr["down"] /\ content'["down"] = content["down"]
    BY SendFailsFacts
  <2>2. UNCHANGED <<payload, choice>>
    BY DEF SendFails, Constant
  <2> QED
    BY <2>1, <2>2 DEF Control, Types, Sides
<1>8. Known(p, "Error", d, ch, s \o cut, r, mu2, cu2, md, cd)'
  BY <1>1, <1>2, <1>6, <1>7 DEF Known
<1>10. Joint(p, "Transfering", d, ch, s, r, mu, cu, md, cd)
  BY <1>1, <1>3
<1>11. Told(p, "Transfering", d, ch, md.done, "Error", d, ch, md.done)
  BY DEF Told, Shown, Final
<1>12. Joint(p, "Error", d, ch, s \o cut, r, mu2, cu2, md, cd)
  <2>1. IsPayload(p) /\ s \in Seq(Messages) /\ Sender(p, mu, cu)
    BY <1>1, <1>3
  <2>2. /\ cu2 \in Seq(Nat) /\ Len(cu2) = mu.total + good
        /\ \A k \in 1 .. Len(cu) : cu2[k] = cu[k]
        /\ good < n /\ cut \in CutChunks(mu.total, n, good)
        /\ n \in 1 .. Remaining(p, mu) /\ good \in Nat
    BY <1>4
  <2> QED
    BY <1>10, <2>1, <2>2, JointUpCuts
<1> QED
  BY <1>1, <1>3, <1>8, <1>11, <1>12, PairStep

\* The handlers of the download that lead to its offer.
LEMMA PairDownAsks ==
  ASSUME Control, Pair, NewDownload \/ ReceiveHandshake("down") \/ ReceiveOffer
  PROVE  Pair' /\ Tells
<1>1. PICK p, u, d, ch, s, r, mu, cu, md, cd :
        /\ Known(p, u, d, ch, s, r, mu, cu, md, cd)
        /\ Joint(p, u, d, ch, s, r, mu, cu, md, cd)
        /\ IsPayload(p)
  BY PairKnown
<1>2. PICK d2, s2, r2 : d2 = status'["down"] /\ s2 = Stream("up")' /\ r2 = Stream("down")'
  OBVIOUS
<1>3. \/ d = "None" /\ d2 = "Starting" /\ s2 = s /\ Adds(r2, r, "Handshake")
      \/ d = "Starting" /\ d2 = "WaitingForOffer" /\ Fewer(s2, s) /\ r2 = r
      \/ d = "WaitingForOffer" /\ d2 = "WaitingForUserChoice" /\ Took(s2, s, "Offer") /\ r2 = r
  <2>1. CASE NewDownload
    <3>1. PICK msg \in Messages : msg = HandshakeMsg(versions["down"]) /\ msg.kind = "Handshake"
      <4>1. versions["down"] \in Nat
        BY DEF Control, Types, Sides
      <4> QED
        BY <4>1, MessageTypes
    <3>2. /\ wbuf["down"] = << >> /\ wbuf' = [wbuf EXCEPT !["down"] = << msg >>]
          /\ UNCHANGED <<net, rbuf>>
      BY <2>1, <3>1 DEF NewDownload, Control, Sockets, Sides
    <3>3. Sends("down", << msg >>)
      BY <3>2, SendsOne DEF Control, Sides
    <3>4. Adds(r2, r, "Handshake") /\ s2 = s
      BY <1>1, <1>2, <3>1, <3>3, SendsKinds, Peers DEF Control, Sides, Known
    <3>5. d = "None" /\ d2 = "Starting"
      BY <1>1, <1>2, <2>1 DEF NewDownload, Control, Types, Sides, Known
    <3> QED
      BY <3>4, <3>5
  <2>2. CASE ReceiveHandshake("down") \/ ReceiveOffer
    <3>1. Readable("down") /\ Take("down") /\ UNCHANGED <<net, wbuf>>
      BY <2>2 DEF ReceiveHandshake, ReceiveOffer, Taking
    <3>2. Takes("down", << >>)
      BY <3>1, TakesOnly DEF Control, Sides
    <3>3. Took(s2, s, Incoming("down").kind) /\ r2 = r
      BY <1>1, <1>2, <3>2, TakesTook, Peers DEF Control, Sides, Known
    <3>4. CASE ReceiveHandshake("down")
      <4>1. d = "Starting" /\ d2 = "WaitingForOffer"
        BY <1>1, <1>2, <3>4
           DEF ReceiveHandshake, Taking, Control, Greeting, Types, Sides, Known
      <4> QED
        BY <3>3, <4>1 DEF Took
    <3>5. CASE ReceiveOffer
      <4>1. /\ d = "WaitingForOffer" /\ d2 = "WaitingForUserChoice"
            /\ Incoming("down").kind = "Offer"
        BY <1>1, <1>2, <3>5 DEF ReceiveOffer, Taking, Expected, Control, Types, Sides, Known
      <4> QED
        BY <3>3, <4>1
    <3> QED
      BY <2>2, <3>4, <3>5
  <2> QED
    BY <2>1, <2>2
<1>4. status'["up"] = status["up"] /\ UNCHANGED <<payload, choice, mgr, content>>
  BY DEF NewDownload, ReceiveHandshake, ReceiveOffer, Constant, Control, Types, Sides
<1>5. Known(p, u, d2, ch, s2, r2, mu, cu, md, cd)'
  BY <1>1, <1>2, <1>4 DEF Known
<1>6. /\ Joint(p, u, d2, ch, s2, r2, mu, cu, md, cd)
      /\ Told(p, u, d, ch, md.done, u, d2, ch, md.done)
  BY <1>1, <1>3, JointDownAsks
<1> QED
  BY <1>1, <1>5, <1>6, PairStep

\* After its end the download has nothing to read.
LEMMA NothingToRead ==
  ASSUME Control, Pair, status["down"] \in {"Completed", "Rejected"}
  PROVE  /\ ~Readable("down")
         /\ Aborting("down") => wbuf["down"] # << >>
<1>1. Stream("up") = << >>
  BY DEF Pair, Joint, Agreed, Before
<1>2. rbuf["down"] = << >>
  BY <1>1, EmptyStream, Peers DEF Control, Sides
<1>3. ~Readable("down")
  BY <1>2 DEF Readable
<1>4. status["down"] \in Final /\ status["down"] # "Starting"
  BY DEF Final
<1>5. ASSUME Aborting("down")
      PROVE  wbuf["down"] # << >>
  <2>1. sock["down"] \in {"Connecting", "Connected", "Closing"}
    BY <1>3, <1>5 DEF Aborting, RemoteClosed, Reset, NetworkError, ProtocolError
  <2> QED
    BY <1>4, <2>1 DEF Control, Sockets, Sides
<1> QED
  BY <1>3, <1>5

\* The handlers of the download that fail.
LEMMA PairDownFails ==
  ASSUME Control, Pair, Aborting("down") \/ VersionMismatch("down") \/ ReceiveError("down")
  PROVE  Pair' /\ Tells
<1>1. PICK p, u, d, ch, s, r, mu, cu, md, cd :
        /\ Known(p, u, d, ch, s, r, mu, cu, md, cd)
        /\ Joint(p, u, d, ch, s, r, mu, cu, md, cd)
  BY PairKnown
<1>2. PICK s2, r2, md2 : s2 = Stream("up")' /\ r2 = Stream("down")' /\ md2 = mgr'["down"]
  OBVIOUS
<1>3. u \notin {"Completed", "Rejected"}
  <2>1. Readable("down") \/ Aborting("down")
    BY DEF VersionMismatch, ReceiveError, Taking
  <2> QED
    BY <1>1, <2>1, Settled DEF Known, Sides
<1>4. /\ status'["down"] = "Error" /\ status'["up"] = status["up"]
      /\ mgr'["up"] = mgr["up"] /\ md2 = StopTransfer(payload, mgr["down"])
      /\ UNCHANGED <<payload, choice, content>>
  BY <1>2
     DEF Aborting, RemoteClosed, Reset, NetworkError, ProtocolError, SocketError,
         VersionMismatch, ReceiveError, Failed, Constant, Control, Types, Sides
<1>5. /\ Fewer(s2, s)
      /\ \/ d \notin Final /\ Adds(r2, r, "Error")
         \/ Fewer(r2, r) /\ (d \in {"Completed", "Rejected"} => Kinds(r2, {"Handshake", "Accept"}))
  <2>1. CASE Aborting("down")
    <3>1. Loses("down")
      BY <2>1, AbortingLoses, Peers DEF Control, Sockets, Sides
    <3>2. /\ Fewer(s2, s) /\ Fewer(r2, r)
          /\ wbuf["down"] # << >> => \A K : Inner(r, K) => Kinds(r2, K)
      BY <1>1, <1>2, <3>1, LosesKinds, Peers DEF Control, Sides, Known
    <3>3. ASSUME d \in {"Completed", "Rejected"}
          PROVE  Kinds(r2, {"Handshake", "Accept"})
      <4>1. wbuf["down"] # << >>
        BY <1>1, <2>1, <3>3, NothingToRead DEF Known
      <4>2. Inner(r, {"Handshake", "Accept"})
        BY <1>1 DEF Joint, Agreed, Answers
      <4> QED
        BY <3>2, <4>1, <4>2
    <3> QED
      BY <3>2, <3>3
  <2>2. CASE VersionMismatch("down")
    <3>1. PICK msg \in Messages : msg = Msg("Error") /\ msg.kind = "Error"
      BY MessageTypes
    <3>2. /\ Readable("down") /\ Take("down") /\ UNCHANGED net
          /\ wbuf' = [wbuf EXCEPT !["down"] = Append(wbuf["down"], msg)]
      BY <2>2, <3>1 DEF VersionMismatch, Taking, Close
    <3>3. Takes("down", << msg >>)
      BY <3>2, TakesAndSends DEF Control, Sides
    <3>4. Adds(r2, r, "Error") /\ Fewer(s2, s)
      BY <1>1, <1>2, <3>1, <3>3, TakesKinds, Peers DEF Control, Sides, Known
    <3>5. d \notin Final
      BY <1>1, <2>2 DEF VersionMismatch, Taking, Control, Greeting, Sides, Known, Final
    <3> QED
      BY <3>4, <3>5
  <2>3. CASE ReceiveError("down")
    <3>1. /\ Readable("down") /\ Take("down") /\ UNCHANGED net
          /\ wbuf' = [wbuf EXCEPT !["down"] = wbuf["down"]]
      BY <2>3 DEF ReceiveError, Taking, Close
    <3>2. Takes("down", << >>)
      BY <3>1, TakesOnly DEF Control, Sides
    <3>3. r2 = r /\ Fewer(s2, s)
      BY <1>1, <1>2, <3>2, TakesKinds, Peers DEF Control, Sides, Known
    <3>4. d \notin {"Completed", "Rejected"}
      BY <1>1, <3>1, NothingToRead DEF Known
    <3> QED
      BY <3>3, <3>4, NoKinds
  <2> QED
    BY <2>1, <2>2, <2>3
<1>6. md2.total = md.total /\ md2.done = md.done
  BY <1>1, <1>4 DEF StopTransfer, Known
<1>7. Known(p, u, "Error", ch, s2, r2, mu, cu, md2, cd)'
  BY <1>1, <1>2, <1>4 DEF Known
<1>8. /\ Joint(p, u, "Error", ch, s2, r2, mu, cu, md2, cd)
      /\ Told(p, u, d, ch, md.done, u, "Error", ch, md2.done)
  BY <1>1, <1>3, <1>5, <1>6, JointDownFails
<1> QED
  BY <1>1, <1>7, <1>8, PairStep

\* give_user_choice, when its message is written.
LEMMA PairUser ==
  ASSUME Control, Pair, UserAccepts \/ UserRejects
  PROVE  Pair' /\ Tells
<1>1. PICK p, u, d, ch, s, r, mu, cu, md, cd :
        /\ Known(p, u, d, ch, s, r, mu, cu, md, cd)
        /\ Joint(p, u, d, ch, s, r, mu, cu, md, cd)
        /\ IsPayload(p)
  BY PairKnown
<1>2. PICK d2, ch2, r2, md2 :
        d2 = status'["down"] /\ ch2 = choice' /\ r2 = Stream("down")' /\ md2 = mgr'["down"]
  OBVIOUS
<1>3. PICK msg \in Messages :
        /\ msg = Msg(choice') /\ msg.kind = choice' /\ choice' \in {"Accept", "Reject"}
        /\ wbuf' = [wbuf EXCEPT !["down"] = Append(wbuf["down"], msg)]
        /\ UNCHANGED <<net, rbuf>>
  BY MessageTypes DEF UserAccepts, UserRejects, Close
<1>4. Sends("down", << msg >>)
  BY <1>3, SendsOne DEF Control, Sides
<1>5. Adds(r2, r, ch2) /\ Stream("up")' = s
  BY <1>1, <1>2, <1>3, <1>4, SendsKinds, Peers DEF Control, Sides, Known
<1>6. /\ status["down"] = "WaitingForUserChoice" /\ status'["up"] = status["up"]
      /\ mgr'["up"] = mgr["up"] /\ UNCHANGED <<payload, content>>
  BY DEF UserAccepts, UserRejects, Constant, Control, Types, Sides
<1>7. Known(p, u, d2, ch2, s, r2, mu, cu, md2, cd)'
  BY <1>1, <1>2, <1>5, <1>6 DEF Known
<1>8. \/ /\ ch2 = "Accept" /\ d2 = "Transfering" /\ Adds(r2, r, "Accept")
         /\ md2 = StartTransfer(md, "Receiving")
      \/ /\ ch2 = "Reject" /\ d2 = "Rejected" /\ Adds(r2, r, "Reject")
         /\ md2.total = md.total /\ md2.done = md.done
  <2>1. CASE UserAccepts
    BY <1>1, <1>2, <1>5, <2>1 DEF UserAccepts, Control, Types, Sides, Known
  <2>2. CASE UserRejects
    BY <1>1, <1>2, <1>5, <2>2 DEF UserRejects, Control, Types, Sides, Known
  <2> QED
    BY <2>1, <2>2
<1>9. d = "WaitingForUserChoice"
  BY <1>1, <1>6 DEF Known
<1>10. Joint(p, u, "WaitingForUserChoice", ch, s, r, mu, cu, md, cd)
  BY <1>1, <1>9
<1>11. /\ Joint(p, u, d2, ch2, s, r2, mu, cu, md2, cd)
       /\ Told(p, u, "WaitingForUserChoice", ch, md.done, u, d2, ch2, md2.done)
  BY <1>1, <1>8, <1>10, JointDownChooses
<1> QED
  BY <1>1, <1>7, <1>9, <1>11, PairStep

LEMMA IncomingIsHead ==
  ASSUME BuffersOK, NEW e \in Sides, rbuf[e] # << >>
  PROVE  Stream(Peer(e)) # << >> /\ Head(Stream(Peer(e))) = Incoming(e)
<1>1. PICK a, b, c : a = rbuf[e] /\ b = net[Peer(e)] /\ c = wbuf[Peer(e)]
  OBVIOUS
<1>2. a \in Seq(Messages) /\ b \in Seq(Messages) /\ c \in Seq(Messages) /\ a # << >>
  BY <1>1, Peers DEF BuffersOK
<1>3. Stream(Peer(e)) = Joined(a, b, c) /\ Incoming(e) = Head(a)
  BY <1>1, Peers DEF Stream, Incoming
<1> QED
  BY <1>2, <1>3, TakesHead

\* What a download that transfers is about to take.
LEMMA PairTaking ==
  ASSUME Control, Pair, Readable("down"), status["down"] = "Transfering"
  PROVE  \E p, u, ch, s, r, mu, cu, md, cd :
           /\ Known(p, u, "Transfering", ch, s, r, mu, cu, md, cd)
           /\ Joint(p, u, "Transfering", ch, s, r, mu, cu, md, cd)
           /\ IsPayload(p) /\ u \in UpStatuses /\ s \in Seq(Messages)
           /\ s # << >> /\ Head(s) = Incoming("down")
           /\ u \notin {"Completed", "Rejected"}
<1>1. PICK p, u, d, ch, s, r, mu, cu, md, cd :
        /\ Known(p, u, d, ch, s, r, mu, cu, md, cd)
        /\ Joint(p, u, d, ch, s, r, mu, cu, md, cd)
        /\ IsPayload(p) /\ u \in UpStatuses /\ s \in Seq(Messages)
  BY PairKnown
<1>2. d = "Transfering"
  BY <1>1 DEF Known
<1>3. u \notin {"Completed", "Rejected"}
  BY <1>1, Settled DEF Known, Sides
<1>4. s # << >> /\ Head(s) = Incoming("down")
  BY <1>1, IncomingIsHead, Peers DEF Control, Known, Readable, Sides
<1> QED
  BY <1>1, <1>2, <1>3, <1>4

\* The data is refused, or a file cannot be created.
LEMMA PairReceiveFails ==
  ASSUME Control, Pair, Receives, UNCHANGED payload, NEW after, DownFailure(after),
         after.done # payload.nb
  PROVE  Pair' /\ Tells
<1>1. PICK p, u, ch, s, r, mu, cu, md, cd :
        /\ Known(p, u, "Transfering", ch, s, r, mu, cu, md, cd)
        /\ Joint(p, u, "Transfering", ch, s, r, mu, cu, md, cd)
        /\ u \notin {"Completed", "Rejected"}
  BY PairTaking DEF Receives, Taking
<1>2. PICK s2, r2, md2, cd2 : /\ s2 = Stream("up")' /\ r2 = Stream("down")' /\ md2 = mgr'["down"]
                              /\ cd2 = content'["down"]
  OBVIOUS
<1>3. Adds(r2, r, "Error") /\ Fewer(s2, s)
  <2>1. PICK msg \in Messages : msg = Msg("Error") /\ msg.kind = "Error"
    BY MessageTypes
  <2>2. /\ Readable("down") /\ Take("down") /\ UNCHANGED net
        /\ wbuf' = [wbuf EXCEPT !["down"] = Append(wbuf["down"], msg)]
    BY <2>1 DEF Receives, DownFailure, Taking, Close
  <2>3. Takes("down", << msg >>)
    BY <2>2, TakesAndSends DEF Control, Sides
  <2> QED
    BY <1>1, <1>2, <2>1, <2>3, TakesKinds, Peers DEF Control, Sides, Known
<1>4. /\ status'["down"] = "Error" /\ status'["up"] = status["up"]
      /\ mgr'["up"] = mgr["up"] /\ content'["up"] = content["up"]
      /\ md2.done = after.done
      /\ UNCHANGED <<payload, choice>>
  BY <1>2
     DEF Receives, DownFailure, Failed, StopTransfer, Constant, Control, Types, Sides
<1>5. Known(p, u, "Error", ch, s2, r2, mu, cu, md2, cd2)'
  BY <1>1, <1>2, <1>4 DEF Known
<1>6. md2.done # p.nb /\ "Transfering" \notin Final
  BY <1>1, <1>4 DEF Known, Final
<1>7. /\ Joint(p, u, "Error", ch, s2, r2, mu, cu, md2, cd2)
      /\ Told(p, u, "Transfering", ch, md.done, u, "Error", ch, md2.done)
  BY <1>1, <1>3, <1>6, JointDownFails
<1> QED
  BY <1>1, <1>5, <1>7, PairStep

\* What the download takes and does not answer.
LEMMA PairReceivesOn ==
  ASSUME Control, Receives, UNCHANGED wbuf
  PROVE  /\ Stream("up")' = Tail(Stream("up")) /\ Stream("down")' = Stream("down")
<1>1. Takes("down", << >>)
  BY TakesOnly DEF Receives, Taking, Control, Sides
<1>2. Stream("up")' = Tail(Stream("up"))
  BY <1>1, Peers DEF Takes, Sides
<1>3. Stream("down")' = Stream("down")
  BY <1>1, TakesTook DEF Control, Sides
<1> QED
  BY <1>2, <1>3

\* receive_chunk.
LEMMA PairDownChunk ==
  ASSUME Control, Pair, ReceiveChunk
  PROVE  Pair' /\ Tells
<1>0. Receives /\ UNCHANGED payload
  BY ReceivesFacts DEF ReceiveChunk, Constant
<1>1. PICK p, u, ch, s, r, mu, cu, md, cd :
        /\ Known(p, u, "Transfering", ch, s, r, mu, cu, md, cd)
        /\ Joint(p, u, "Transfering", ch, s, r, mu, cu, md, cd)
        /\ IsPayload(p) /\ u \in UpStatuses /\ s \in Seq(Messages)
        /\ s # << >> /\ Head(s) = Incoming("down")
  BY <1>0, PairTaking DEF Receives, Taking
<1>2. /\ p = payload /\ md = mgr["down"] /\ cd = content["down"] /\ s = Stream("up")
      /\ r = Stream("down")
  BY <1>1 DEF Known
<1>3. PICK after \in Received(p, md, Len(Head(s).data), "disk" \in faults) :
        /\ content' = [content EXCEPT !["down"] =
                          Extend(cd, md.total, after.total - md.total, Head(s).data)]
        /\ \/ after.error /\ DownFailure(after)
           \/ /\ ~after.error /\ mgr' = [mgr EXCEPT !["down"] = after]
              /\ UNCHANGED <<status, wbuf>>
  BY <1>1, <1>2 DEF ReceiveChunk
<1>4. PICK cd2 : cd2 = Extend(cd, md.total, after.total - md.total, Head(s).data)
  OBVIOUS
<1>5. content'["down"] = cd2
  BY <1>3, <1>4 DEF Control, Types, Sides
<1>6. Head(s).kind = "Chunk"
  BY <1>1 DEF ReceiveChunk, Taking
<1>7. /\ after.done # p.nb
      /\ ~after.error =>
           /\ Joint(p, u, "Transfering", ch, Tail(s), r, mu, cu, after, cd2)
           /\ Told(p, u, "Transfering", ch, md.done, u, "Transfering", ch, after.done)
  BY <1>1, <1>4, <1>6, JointDownChunk
<1>8. CASE after.error /\ DownFailure(after)
  BY <1>0, <1>2, <1>7, <1>8, PairReceiveFails
<1>9. CASE ~after.error /\ mgr' = [mgr EXCEPT !["down"] = after] /\ UNCHANGED <<status, wbuf>>
  <2>1. PICK t : t = Tail(s) /\ Stream("up")' = t /\ Stream("down")' = r
    BY <1>0, <1>2, <1>9, PairReceivesOn
  <2>2. /\ status' = status /\ mgr'["up"] = mgr["up"] /\ content'["up"] = content["up"]
        /\ mgr'["down"] = after
        /\ UNCHANGED <<payload, choice>>
    BY <1>0, <1>9 DEF Receives, Control, Types, Sides
  <2>3. Known(p, u, "Transfering", ch, t, r, mu, cu, after, cd2)'
    BY <1>1, <1>5, <2>1, <2>2 DEF Known
  <2>4. /\ Joint(p, u, "Transfering", ch, t, r, mu, cu, after, cd2)
        /\ Told(p, u, "Transfering", ch, md.done, u, "Transfering", ch, after.done)
    BY <1>7, <1>9, <2>1
  <2> QED
    BY <1>1, <2>3, <2>4, PairStep
<1> QED
  BY <1>3, <1>8, <1>9

\* test_checksums, and what follows.
LEMMA PairDownChecksums ==
  ASSUME Control, Pair, ReceiveChecksums
  PROVE  Pair' /\ Tells
<1>0. Receives /\ UNCHANGED payload
  BY ReceivesFacts DEF ReceiveChecksums, Constant
<1>1. PICK p, u, ch, s, r, mu, cu, md, cd :
        /\ Known(p, u, "Transfering", ch, s, r, mu, cu, md, cd)
        /\ Joint(p, u, "Transfering", ch, s, r, mu, cu, md, cd)
        /\ IsPayload(p) /\ u \in UpStatuses /\ s \in Seq(Messages)
        /\ s # << >> /\ Head(s) = Incoming("down")
  BY <1>0, PairTaking DEF Receives, Taking
<1>2. /\ p = payload /\ md = mgr["down"] /\ cd = content["down"] /\ s = Stream("up")
      /\ r = Stream("down")
  BY <1>1 DEF Known
<1>3. PICK m \in TestChecksums(p, md, cd, Head(s).sums) :
        \/ m.error /\ DownFailure(m)
        \/ /\ ~m.error /\ IsTransferComplete(p, m)
           /\ mgr' = [mgr EXCEPT !["down"] = m]
           /\ wbuf' = [wbuf EXCEPT !["down"] = Append(wbuf["down"], Msg("Completed"))]
           /\ status' = [status EXCEPT !["down"] = "Completed"]
        \/ /\ ~m.error /\ ~IsTransferComplete(p, m)
           /\ mgr' = [mgr EXCEPT !["down"] = m]
           /\ UNCHANGED <<status, wbuf>>
  BY <1>1, <1>2 DEF ReceiveChecksums, Close
<1>4. UNCHANGED content
  BY DEF ReceiveChecksums
<1>5. Head(s).kind = "Checksums"
  BY <1>1 DEF ReceiveChecksums, Taking
<1>6. PICK t : t = Tail(s)
  OBVIOUS
<1>7. /\ m.error => m.done # p.nb
      /\ ~m.error /\ ~IsTransferComplete(p, m) =>
           /\ Joint(p, u, "Transfering", ch, Tail(s), r, mu, cu, m, cd)
           /\ Told(p, u, "Transfering", ch, md.done, u, "Transfering", ch, m.done)
      /\ ~m.error /\ IsTransferComplete(p, m) =>
           /\ Tail(s) = << >>
           /\ \A r2 : Adds(r2, r, "Completed") =>
                /\ Joint(p, u, "Completed", ch, << >>, r2, mu, cu, m, cd)
                /\ Told(p, u, "Transfering", ch, md.done, u, "Completed", ch, m.done)
  BY <1>1, <1>5, JointDownChecksums
<1>8. CASE m.error /\ DownFailure(m)
  BY <1>0, <1>2, <1>7, <1>8, PairReceiveFails
<1>9. CASE /\ ~m.error /\ IsTransferComplete(p, m)
           /\ mgr' = [mgr EXCEPT !["down"] = m]
           /\ wbuf' = [wbuf EXCEPT !["down"] = Append(wbuf["down"], Msg("Completed"))]
           /\ status' = [status EXCEPT !["down"] = "Completed"]
  <2>1. PICK msg \in Messages : msg = Msg("Completed") /\ msg.kind = "Completed"
    BY MessageTypes
  <2>2. Takes("down", << msg >>)
    BY <1>0, <1>9, <2>1, TakesAndSends DEF Receives, Taking, Control, Sides
  <2>3. PICK r2 : r2 = Stream("down")' /\ Adds(r2, r, "Completed")
    BY <1>2, <2>1, <2>2, TakesKinds DEF Control, Sides
  <2>4. Stream("up")' = t
    BY <1>2, <1>6, <2>2, Peers DEF Takes, Sides
  <2>5. /\ status'["up"] = status["up"] /\ status'["down"] = "Completed"
        /\ mgr'["up"] = mgr["up"] /\ mgr'["down"] = m
        /\ UNCHANGED <<payload, choice, content>>
    BY <1>0, <1>4, <1>9 DEF Receives, Control, Types, Sides
  <2>6. Known(p, u, "Completed", ch, t, r2, mu, cu, m, cd)'
    BY <1>1, <2>3, <2>4, <2>5 DEF Known
  <2>7. /\ Joint(p, u, "Completed", ch, t, r2, mu, cu, m, cd)
        /\ Told(p, u, "Transfering", ch, md.done, u, "Completed", ch, m.done)
    BY <1>6, <1>7, <1>9, <2>3
  <2> QED
    BY <1>1, <2>6, <2>7, PairStep
<1>10. CASE /\ ~m.error /\ ~IsTransferComplete(p, m)
            /\ mgr' = [mgr EXCEPT !["down"] = m]
            /\ UNCHANGED <<status, wbuf>>
  <2>1. Stream("up")' = t /\ Stream("down")' = r
    BY <1>0, <1>2, <1>6, <1>10, PairReceivesOn
  <2>2. /\ status' = status /\ mgr'["up"] = mgr["up"] /\ mgr'["down"] = m
        /\ UNCHANGED <<payload, choice, content>>
    BY <1>0, <1>4, <1>10 DEF Receives, Control, Types, Sides
  <2>3. Known(p, u, "Transfering", ch, t, r, mu, cu, m, cd)'
    BY <1>1, <2>1, <2>2 DEF Known
  <2>4. /\ Joint(p, u, "Transfering", ch, t, r, mu, cu, m, cd)
        /\ Told(p, u, "Transfering", ch, md.done, u, "Transfering", ch, m.done)
    BY <1>6, <1>7, <1>10
  <2> QED
    BY <1>1, <2>3, <2>4, PairStep
<1> QED
  BY <1>3, <1>8, <1>9, <1>10

\* give_user_choice, when its message is lost.
LEMMA PairUserUnheard ==
  ASSUME Control, Pair, UserRejectsUnheard
  PROVE  Pair' /\ Tells
<1>1. PICK p, u, d, ch, s, r, mu, cu, md, cd :
        /\ Known(p, u, d, ch, s, r, mu, cu, md, cd)
        /\ Joint(p, u, d, ch, s, r, mu, cu, md, cd)
        /\ IsPayload(p)
  BY PairKnown
<1>2. PICK r2, md2 : r2 = Stream("down")' /\ md2 = mgr'["down"]
  OBVIOUS
<1>3. /\ d = "WaitingForUserChoice" /\ status'["down"] = "Rejected" /\ choice' = "Reject"
      /\ status'["up"] = status["up"] /\ mgr'["up"] = mgr["up"] /\ UNCHANGED <<payload, content>>
      /\ md2.total = md.total /\ md2.done = md.done
  BY <1>1, <1>2
     DEF UserRejectsUnheard, FlushFails, StopTransfer, Constant, Control, Types, Sides, Known
<1>4. Loses("down")
  BY UnheardFacts DEF FailsUnheard
<1>5. Fewer(r2, r) /\ Fewer(Stream("up")', s)
  BY <1>1, <1>2, <1>4, LosesKinds, Peers DEF Control, Sides, Known
<1>6. s = << >> /\ Stream("up")' = s
  BY <1>1, <1>3, <1>5 DEF Joint, Agreed, Before, Fewer
<1>7. Known(p, u, "Rejected", "Reject", s, r2, mu, cu, md2, cd)'
  BY <1>1, <1>2, <1>3, <1>6 DEF Known
<1>8. Joint(p, u, "WaitingForUserChoice", ch, s, r, mu, cu, md, cd)
  BY <1>1, <1>3
<1>9. /\ Joint(p, u, "Rejected", "Reject", s, r2, mu, cu, md2, cd)
      /\ Told(p, u, "WaitingForUserChoice", ch, md.done, u, "Rejected", "Reject", md2.done)
  BY <1>1, <1>3, <1>5, <1>8, JointDownChooses
<1> QED
  BY <1>1, <1>3, <1>7, <1>9, PairStep

\* on_receive_checksums, when its last message is lost.
LEMMA PairChecksumsUnheard ==
  ASSUME Control, Pair, ReceiveChecksumsUnheard
  PROVE  Pair' /\ Tells
<1>1. PICK p, u, ch, s, r, mu, cu, md, cd :
        /\ Known(p, u, "Transfering", ch, s, r, mu, cu, md, cd)
        /\ Joint(p, u, "Transfering", ch, s, r, mu, cu, md, cd)
        /\ IsPayload(p) /\ u \in UpStatuses /\ s \in Seq(Messages)
        /\ s # << >> /\ Head(s) = Incoming("down")
  BY PairTaking DEF ReceiveChecksumsUnheard, Taking, Expected
<1>2. Head(s).kind = "Checksums" /\ Readable("down")
  BY <1>1 DEF ReceiveChecksumsUnheard, Taking
<1>3. PICK m \in TestChecksums(p, md, cd, Head(s).sums) :
        /\ ~m.error /\ IsTransferComplete(p, m)
        /\ mgr' = [mgr EXCEPT !["down"] = StopTransfer(p, m)]
  BY <1>1 DEF ReceiveChecksumsUnheard, FlushFails, Known
<1>4. PICK r2, md2 : r2 = Stream("down")' /\ md2 = mgr'["down"]
  OBVIOUS
<1>5. /\ status'["down"] = "Completed" /\ status'["up"] = status["up"]
      /\ mgr'["up"] = mgr["up"] /\ md2.done = m.done
      /\ UNCHANGED <<payload, choice, content>>
  BY <1>3, <1>4 DEF ReceiveChecksumsUnheard, StopTransfer, Constant, Control, Types, Sides
<1>6. Loses("down") /\ rbuf'["down"] = << >> /\ wbuf'["up"] = wbuf["up"] /\ net' = net
  BY UnheardFacts DEF FailsUnheard, Control, BuffersOK, Sides
<1>7. Fewer(r2, r)
  BY <1>1, <1>4, <1>6, LosesKinds, Peers DEF Control, Sides, Known
<1>8. /\ Tail(s) = << >>
      /\ \A r3, m3 : Fewer(r3, r) /\ m3.done = m.done =>
           /\ Joint(p, u, "Completed", ch, << >>, r3, mu, cu, m3, cd)
           /\ Told(p, u, "Transfering", ch, md.done, u, "Completed", ch, m3.done)
  BY <1>1, <1>2, <1>3, JointDownChecksums
<1>9. Stream("up")' = << >>
  <2>1. PICK a, b, c : a = rbuf["down"] /\ b = net["up"] /\ c = wbuf["up"]
    OBVIOUS
  <2>2. a \in Seq(Messages) /\ b \in Seq(Messages) /\ c \in Seq(Messages) /\ a # << >>
    BY <1>2, <2>1 DEF Readable, Control, BuffersOK, Sides
  <2>6. s = Joined(a, b, c)
    BY <1>1, <2>1, Peers DEF Known, Stream, Sides
  <2>3. Joined(Tail(a), b, c) = << >> /\ Tail(a) \in Seq(Messages)
    BY <1>8, <2>2, <2>6, TakesHead
  <2>4. b = << >> /\ c = << >>
    BY <2>2, <2>3, EmptyParts
  <2>5. << >> \o << >> \o << >> = << >>
    BY MessageTypes, ConcatEmptySeq
  <2> QED
    BY <1>6, <2>1, <2>4, <2>5, Peers DEF Stream, Joined, Sides
<1>10. Known(p, u, "Completed", ch, << >>, r2, mu, cu, md2, cd)'
  BY <1>1, <1>4, <1>5, <1>9 DEF Known
<1>11. /\ Joint(p, u, "Completed", ch, << >>, r2, mu, cu, md2, cd)
       /\ Told(p, u, "Transfering", ch, md.done, u, "Completed", ch, md2.done)
  BY <1>5, <1>7, <1>8
<1> QED
  BY <1>1, <1>10, <1>11, PairStep

LEMMA PairInit == Init => Control /\ Pair
<1> SUFFICES ASSUME Init
             PROVE  Pair
  BY ControlInit
<1>1. PICK p, m : p = payload /\ m = NewManager(p)
  OBVIOUS
<1>2. /\ status["up"] = "Init" /\ status["down"] = "None" /\ choice = "None"
      /\ mgr["up"] = m /\ mgr["down"] = m
      /\ content["up"] = << >> /\ content["down"] = << >>
      /\ IsPayload(p)
  BY <1>1, TransferAssumption DEF Init, Environment, Both, Sides
<1>3. Stream("up") = << >> /\ Stream("down") = << >>
  <2>1. << >> \o << >> \o << >> = << >>
    BY MessageTypes, ConcatEmptySeq
  <2> QED
    BY <2>1, Peers DEF Init, Both, Sides, Stream, Joined
<1>4. Agreed(p, "Init", "None", "None", << >>, << >>, m, << >>)
  <2>1. Answers("None", "None", << >>)
    BY NoKinds DEF Answers
  <2>2. m.total = 0 /\ m.done = 0
    BY <1>1 DEF NewManager
  <2>3. Consent("Init", "None", << >>, m)
    BY <2>2, NoKinds DEF Consent, Unanswered
  <2>4. Before(p, "Init", "None", "None", << >>, m, << >>)
    BY <1>1, NoKinds DEF Before, Asking
  <2>5. Over("Init", "None", << >>, << >>)
    BY DEF Over
  <2> QED
    BY <2>1, <2>3, <2>4, <2>5 DEF Agreed
<1>5. Data(p, "Init", "None", << >>, m, << >>, m, << >>)
  BY DEF Data
<1>6. Done(p, "Init", "None", "None", m, << >>, m, << >>)
  <2>1. m.done # p.nb
    BY <1>1, <1>2, NothingDone
  <2>2. << >> \in Seq(Nat) /\ Len(<< >>) = 0 /\ TotalSize(p) \in Nat
    BY <1>2, EmptySeq, PayloadFacts
  <2> QED
    BY <2>1, <2>2 DEF Done
<1> QED
  BY <1>1, <1>2, <1>3, <1>4, <1>5, <1>6 DEF Pair, Joint

\* Every step of the two sides keeps the invariant, and is a step of the
\* contract or none.
LEMMA PairNext == Control /\ Pair /\ [Next]_vars => Pair' /\ Tells
<1> SUFFICES ASSUME Control, Pair, [Next]_vars
             PROVE  Pair' /\ Tells
  OBVIOUS
<1>1. ASSUME Handle("up")
      PROVE  Pair' /\ Tells
  BY <1>1, PairMoving, PairUpAborts, PairUpGreets, PairUpRefuses, PairUpGivesUp, PairUpAnswered
     DEF Handle, Aborting, Sides
<1>2. ASSUME Handle("down")
      PROVE  Pair' /\ Tells
  BY <1>2, PairMoving, PairDownAsks, PairDownFails DEF Handle, Aborting, Sides
<1>3. CASE UNCHANGED vars
  BY <1>3, PairSame DEF vars, Stream, Joined
<1>4. CASE UpStep
  BY <1>1, <1>4, PairConnect, PairConnected, PairUpAnswered, PairUpSends, PairRefills, PairUpCuts,
     PairUpGivesUp
     DEF UpStep
<1>5. CASE DownStep
  BY <1>2, <1>5, PairDownAsks, PairDownChunk, PairDownChecksums, PairChecksumsUnheard
     DEF DownStep
<1>6. CASE User
  BY <1>6, PairUser, PairUserUnheard DEF User
<1>7. CASE \E e \in Sides : NetworkError(e)
  BY <1>7, PairUpAborts, PairDownFails DEF Aborting, Sides
<1> QED
  BY <1>3, <1>4, <1>5, <1>6, <1>7 DEF Next

LEMMA AlwaysPair == Spec => [](Control /\ Pair)
<1>1. Control /\ Pair /\ [Next]_vars => (Control /\ Pair)'
  BY ControlNext, PairNext
<1> QED
  BY <1>1, PairInit, PTL DEF Spec

\* A failure that was recorded is shown as soon as the event loop is idle
\* (Base::failure, Upload and Download::on_failed), unless it was reported
\* within connectToHost or within the flush of the download's own last message,
\* whose callers then set a status of their own; and the answers of the
\* download find the upload with nothing to flush, so that no failure is
\* reported within on_receive_reject or on_receive_completed.
THEOREM FailuresAreShown == Spec => []FailureIsShown
<1>1. ASSUME Control, NEW e \in Sides, pc[e] = "Loop", error[e] # "None"
      PROVE  status[e] = "Error" \/ NeverConnected(e) \/ Unheard(e)
  BY <1>1 DEF Control, Failures, NeverConnected
<1>2. ASSUME Control, Pair, NEW kind \in {"Reject", "Completed"}, Taking("up", kind)
      PROVE  wbuf["up"] = << >>
  <2>1. PICK p, u, d, ch, s, r, mu, cu, md, cd :
          /\ Known(p, u, d, ch, s, r, mu, cu, md, cd)
          /\ Joint(p, u, d, ch, s, r, mu, cu, md, cd)
          /\ d \in DownStatuses /\ r \in Seq(Messages)
    BY <1>2, PairKnown
  <2>2. r # << >> /\ Head(r).kind = kind
    BY <1>2, <2>1, IncomingIsHead, Peers DEF Control, Known, Taking, Readable, Sides
  <2>3. \A K : Kinds(r, K) => kind \in K
    BY <2>1, <2>2, TailLeft
  <2>4. d \in {"Completed", "Rejected"}
    BY <1>2, <2>1, <2>3 DEF Joint, Agreed, Answers, Final
  <2>5. Stream("up") = << >>
    BY <2>1, <2>4 DEF Joint, Agreed, Before, Known
  <2> QED
    BY <1>2, <2>5, EmptyStream DEF Control, Sides
<1>3. Control /\ Pair => FailureIsShown
  BY <1>1, <1>2 DEF FailureIsShown, NothingToFlush
<1> QED
  BY <1>3, AlwaysPair, PTL

\* A message of a buffer is on the stream.
LEMMA JoinedKinds ==
  ASSUME NEW a \in Seq(Messages), NEW b \in Seq(Messages), NEW c \in Seq(Messages), NEW K,
         Kinds(Joined(a, b, c), K)
  PROVE  Kinds(a, K) /\ Kinds(b, K) /\ Kinds(c, K)
<1>1. PICK t : t = a \o b
  OBVIOUS
<1>2. /\ t \in Seq(Messages) /\ Len(t) = Len(a) + Len(b)
      /\ \A i \in 1 .. Len(a) + Len(b) : t[i] = IF i <= Len(a) THEN a[i] ELSE b[i - Len(a)]
      /\ Len(a) \in Nat /\ Len(b) \in Nat /\ Len(c) \in Nat
  BY <1>1, ConcatProperties, LenProperties
<1>3. PICK j : j = t \o c
  OBVIOUS
<1>4. /\ Len(j) = Len(t) + Len(c)
      /\ \A i \in 1 .. Len(t) + Len(c) : j[i] = IF i <= Len(t) THEN t[i] ELSE c[i - Len(t)]
  <2>1. t \in Seq(Messages)
    BY <1>2
  <2> QED
    BY <1>3, <2>1, ConcatProperties
<1>5. Kinds(j, K)
  BY <1>1, <1>3 DEF Joined
<1>6. ASSUME NEW i \in 1 .. Len(a)
      PROVE  a[i].kind \in K
  <2>1. i \in 1 .. Len(j) /\ j[i] = a[i]
    BY <1>2, <1>4
  <2> QED
    BY <1>5, <2>1 DEF Kinds
<1>7. ASSUME NEW i \in 1 .. Len(b)
      PROVE  b[i].kind \in K
  <2>1. PICK k : k = Len(a) + i
    OBVIOUS
  <2>2. k \in 1 .. Len(j) /\ j[k] = b[i]
    <3>1. k \in 1 .. Len(t) /\ k \in 1 .. Len(j) /\ ~(k <= Len(a)) /\ k - Len(a) = i
      BY <1>2, <1>4, <2>1
    <3>2. t[k] = b[i] /\ j[k] = t[k]
      BY <1>2, <1>4, <3>1
    <3> QED
      BY <3>1, <3>2
  <2> QED
    BY <1>5, <2>2 DEF Kinds
<1>8. ASSUME NEW i \in 1 .. Len(c)
      PROVE  c[i].kind \in K
  <2>1. PICK k : k = Len(t) + i
    OBVIOUS
  <2>2. k \in 1 .. Len(j) /\ ~(k <= Len(t)) /\ k - Len(t) = i
    BY <1>2, <1>4, <2>1
  <2>3. j[k] = c[i]
    BY <1>4, <2>2
  <2> QED
    BY <1>5, <2>2, <2>3 DEF Kinds
<1> QED
  BY <1>6, <1>7, <1>8 DEF Kinds

\* No chunk leaves the sender, and nothing is written by the receiver, before
\* the user of the download has accepted (Download::give_user_choice,
\* Upload::on_receive_accept).
THEOREM ConsentIsNeeded == Spec => []NothingWithoutConsent
<1>1. Control /\ Pair => NothingWithoutConsent
  <2> SUFFICES ASSUME Control, Pair, choice # "Accept"
               PROVE  ~InFlight("up", "Chunk") /\ mgr["down"].total = 0
    BY DEF NothingWithoutConsent
  <2>1. Kinds(Stream("up"), Questions) /\ mgr["down"].total = 0
    BY DEF Pair, Joint, Agreed, Consent
  <2>2. PICK a, b, c : a = rbuf["down"] /\ b = net["up"] /\ c = wbuf["up"]
    OBVIOUS
  <2>3. a \in Seq(Messages) /\ b \in Seq(Messages) /\ c \in Seq(Messages)
    BY <2>2 DEF Control, BuffersOK, Sides
  <2>4. Kinds(Joined(a, b, c), Questions)
    BY <2>1, <2>2, Peers DEF Stream, Sides
  <2>5. Kinds(a, Questions) /\ Kinds(b, Questions) /\ Kinds(c, Questions)
    BY <2>3, <2>4, JoinedKinds
  <2>6. DOMAIN a = 1 .. Len(a) /\ DOMAIN b = 1 .. Len(b) /\ DOMAIN c = 1 .. Len(c)
    BY <2>3, LenProperties
  <2>7. ASSUME NEW buf \in {c, b, a}, NEW k \in DOMAIN buf, buf[k].kind = "Chunk"
        PROVE  FALSE
    <3>1. buf[k].kind \in Questions
      BY <2>5, <2>6, <2>7 DEF Kinds
    <3> QED
      BY <2>7, <3>1 DEF Questions
  <2>8. ~InFlight("up", "Chunk")
    BY <2>2, <2>7, Peers DEF InFlight, Sides
  <2> QED
    BY <2>1, <2>8
<1> QED
  BY <1>1, AlwaysPair, PTL

\* The files are delivered when the last checksum has been tested.
LEMMA PairDelivered == Pair => (Delivered <=> mgr["down"].done = payload.nb)
<1>1. Pair => (mgr["down"].done = payload.nb =>
                /\ content["down"] = [k \in 1 .. TotalSize(payload) |-> k]
                /\ content["up"] = content["down"])
  BY DEF Pair, Joint, Done
<1> QED
  BY <1>1 DEF Delivered

LEMMA PairDeliveredNext == Pair' => (Delivered' <=> mgr'["down"].done = payload'.nb)
<1>1. Pair' => (mgr'["down"].done = payload'.nb =>
                /\ content'["down"] = [k \in 1 .. TotalSize(payload') |-> k]
                /\ content'["up"] = content'["down"])
  BY DEF Pair, Joint, Done
<1> QED
  BY <1>1 DEF Delivered

\* A step of the contract, or none, from what is shown.
Step(a, b, ch, f, a2, b2, ch2, f2) ==
  \/ a2 = a /\ b2 = b /\ ch2 = ch /\ f2 = f
  \/ b = "Open" /\ ch = "None" /\ ch2 = "Accept" /\ a2 = a /\ b2 = b /\ f2 = f
  \/ b = "Open" /\ ch = "None" /\ ch2 = "Reject" /\ b2 = "Rejected" /\ a2 = a /\ f2 = f
  \/ b = "Open" /\ ch = "Accept" /\ f2 = TRUE /\ b2 = "Completed" /\ a2 = a /\ ch2 = ch
  \/ a = "Open" /\ b \in {"Completed", "Rejected"} /\ a2 = b /\ b2 = b /\ ch2 = ch /\ f2 = f
  \/ a = "Open" /\ a2 = "Error" /\ b2 = b /\ ch2 = ch /\ f2 = f
  \/ /\ b # "Error" /\ a \notin {"Completed", "Rejected"} /\ b2 = "Error"
     /\ a2 = a /\ ch2 = ch /\ f2 = f

LEMMA StepOfContract ==
  ASSUME NEW p, NEW u, NEW d, NEW ch, NEW k, NEW u2, NEW d2, NEW ch2, NEW k2,
         Told(p, u, d, ch, k, u2, d2, ch2, k2),
         NEW f \in BOOLEAN, NEW f2 \in BOOLEAN, f <=> k = p.nb, f2 <=> k2 = p.nb
  PROVE  Step(Shown(u), Shown(d), ch, f, Shown(u2), Shown(d2), ch2, f2)
BY DEF Told, Step, Shown, Final

LEMMA ContractInit == Init => Contract!Init
<1> SUFFICES ASSUME Init
             PROVE  Contract!Init
  OBVIOUS
<1>1. Outcome("up") = "Open" /\ Outcome("down") = "Open" /\ choice = "None"
  BY DEF Init, Both, Sides, Outcome, Final
<1>2. ~Delivered
  <2>1. mgr["down"] = NewManager(payload) /\ IsPayload(payload)
    BY TransferAssumption DEF Init, Environment, Both, Sides
  <2>2. mgr["down"].done # payload.nb
    BY <2>1, NothingDone
  <2> QED
    BY <2>2 DEF Delivered
<1>3. Delivered \in BOOLEAN
  BY DEF Delivered
<1> QED
  BY <1>1, <1>2, <1>3 DEF Contract!Init

LEMMA ContractNext ==
  Control /\ Pair /\ [Next]_vars => [Contract!Next]_(Contract!vars)
<1> SUFFICES ASSUME Control, Pair, [Next]_vars
             PROVE  [Contract!Next]_(Contract!vars)
  OBVIOUS
<1>1. Pair' /\ Tells
  BY PairNext
<1>2. /\ Outcome("up") = Shown(status["up"]) /\ Outcome("down") = Shown(status["down"])
      /\ Outcome("up")' = Shown(status'["up"]) /\ Outcome("down")' = Shown(status'["down"])
  BY DEF Outcome, Shown
<1>3. /\ Delivered <=> mgr["down"].done = payload.nb
      /\ Delivered' <=> mgr'["down"].done = payload.nb
  BY <1>1, PairDelivered, PairDeliveredNext DEF Tells
<1>4. Delivered \in BOOLEAN /\ Delivered' \in BOOLEAN
  BY DEF Delivered
<1>5. PICK a, a2, b, b2, ch, ch2, f, f2 :
        /\ a = Outcome("up") /\ a2 = Outcome("up")' /\ b = Outcome("down") /\ b2 = Outcome("down")'
        /\ ch = choice /\ ch2 = choice' /\ f = Delivered /\ f2 = Delivered'
  OBVIOUS
<1>6. Step(a, b, ch, f, a2, b2, ch2, f2)
  <2>1. PICK u, u2, d, d2, k, k2, p :
          /\ u = status["up"] /\ u2 = status'["up"] /\ d = status["down"] /\ d2 = status'["down"]
          /\ k = mgr["down"].done /\ k2 = mgr'["down"].done /\ p = payload
    OBVIOUS
  <2>2. Told(p, u, d, ch, k, u2, d2, ch2, k2)
    BY <1>1, <1>5, <2>1 DEF Tells
  <2>3. a = Shown(u) /\ a2 = Shown(u2) /\ b = Shown(d) /\ b2 = Shown(d2)
    BY <1>2, <1>5, <2>1
  <2>4. /\ f \in BOOLEAN /\ f2 \in BOOLEAN /\ (f <=> k = p.nb) /\ (f2 <=> k2 = p.nb)
    BY <1>3, <1>4, <1>5, <2>1
  <2>5. Step(Shown(u), Shown(d), ch, f, Shown(u2), Shown(d2), ch2, f2)
    BY <2>2, <2>4, StepOfContract
  <2> QED
    BY <2>3, <2>5
<1>7. a2 = a /\ b2 = b /\ ch2 = ch /\ f2 = f => UNCHANGED Contract!vars
  BY <1>5 DEF Contract!vars
<1>8. b = "Open" /\ ch = "None" /\ ch2 = "Accept" /\ a2 = a /\ b2 = b /\ f2 = f => Contract!Accept
  BY <1>5 DEF Contract!Accept
<1>9. b = "Open" /\ ch = "None" /\ ch2 = "Reject" /\ b2 = "Rejected" /\ a2 = a /\ f2 = f =>
        Contract!Reject
  BY <1>5 DEF Contract!Reject
<1>10. b = "Open" /\ ch = "Accept" /\ f2 = TRUE /\ b2 = "Completed" /\ a2 = a /\ ch2 = ch =>
         Contract!Deliver
  BY <1>5 DEF Contract!Deliver
<1>11. a = "Open" /\ b \in {"Completed", "Rejected"} /\ a2 = b /\ b2 = b /\ ch2 = ch /\ f2 = f =>
         Contract!Report
  BY <1>5 DEF Contract!Report
<1>12. a = "Open" /\ a2 = "Error" /\ b2 = b /\ ch2 = ch /\ f2 = f => Contract!FailUp
  BY <1>5 DEF Contract!FailUp
<1>13. b # "Error" /\ a \notin {"Completed", "Rejected"} /\ b2 = "Error" /\ a2 = a /\ ch2 = ch
         /\ f2 = f => Contract!FailDown
  BY <1>5 DEF Contract!FailDown
<1> QED
  BY <1>6, <1>7, <1>8, <1>9, <1>10, <1>11, <1>12, <1>13
     DEF Step, Contract!Next

\* Upload and Download, the messages, the buffers and the sockets between them
\* implement TransferContract: every step of theirs is a step of it, or changes
\* nothing that it shows.  The files are complete and verified when the
\* download reports Completed (on_receive_checksums), and the upload reports
\* what the download decided (on_receive_completed, on_receive_reject) or Error.
THEOREM TransferKeepsContract == Spec => ImplementsContract
<1> QED
  BY ContractInit, ContractNext, AlwaysPair, PTL DEF Spec, ImplementsContract, Contract!Spec

----------------------------------------------------------------------------
(* When nothing goes wrong.  The upload reads the messages of the download  *)
(* one by one: which one is on its way follows from the two statuses.       *)

Reply(v, u, d) ==
  CASE u = "Starting" /\ d # "None" -> << HandshakeMsg(v) >>
    [] u = "WaitingForPeerAnswer" /\ d = "Transfering" -> << Msg("Accept") >>
    [] u = "WaitingForPeerAnswer" /\ d = "Rejected" -> << Msg("Reject") >>
    [] u = "Transfering" /\ d = "Completed" -> << Msg("Completed") >>
    [] OTHER -> << >>

\* Nobody has failed, the reply is on its way and nothing else, the download
\* can use what it is sent, what was hashed is what the files hold, and the
\* upload has sent everything when the download has completed.
Smooth(v, p, u, d, s, r, mu, cu) ==
  /\ u # "Error" /\ d # "Error"
  /\ r = Reply(v, u, d)
  /\ d = "None" => u \in {"Init", "Starting"}
  /\ d \in {"None", "Starting"} =>
       s \in {<< >>, << HandshakeMsg(v) >>, << HandshakeMsg(v), Msg("Offer") >>}
  /\ d = "WaitingForOffer" => s \in {<< >>, << Msg("Offer") >>}
  /\ d = "Completed" /\ u = "Transfering" => mu.next = End(p)
  /\ \A k \in 1 .. Len(cu) : cu[k] = k

\* The buffers and sockets: a message is in the read buffer of the upload only
\* while its handler runs, so that the end of the connection never overtakes it.
Orderly ==
  /\ versions["up"] = versions["down"] /\ error = Both("None", "None")
  /\ pc["up"] \notin {"Flush", "Flushed"}
  /\ rbuf["up"] # << >> => pc["up"] = "Reading"
  /\ sock["up"] = "None" => status["down"] = "None"
  /\ sock["up"] = "Connecting" => status["down"] \in {"None", "Starting"}
  /\ sock["up"] \in {"None", "Connecting"} => Stream("up") = << >>
  /\ status["down"] \in {"None", "Starting"} /\ Stream("up") = << >> =>
       sock["up"] \in {"None", "Connecting"}
  /\ status["up"] = "Starting" => sock["up"] \in {"Connecting", "Connected"}
  /\ status["down"] = "Starting" => sock["down"] = "Connected"

Calm ==
  /\ Orderly
  /\ Smooth(versions["up"], payload, status["up"], status["down"], Stream("up"), Stream("down"),
            mgr["up"], content["up"])

FairWeather == faults = {} /\ changed = {}

\* Which statuses go together.
LEMMA SmoothStatuses ==
  ASSUME NEW v, NEW p, NEW u \in UpStatuses, NEW d \in DownStatuses, NEW ch, NEW s, NEW r,
         NEW mu, NEW cu, NEW md, NEW cd,
         Joint(p, u, d, ch, s, r, mu, cu, md, cd), Smooth(v, p, u, d, s, r, mu, cu)
  PROVE  /\ u # "Error" /\ d # "Error"
         /\ d \in Asking \cup {"WaitingForUserChoice"} => u \in Unanswered
         /\ d = "WaitingForUserChoice" => u = "WaitingForPeerAnswer"
         /\ d = "Transfering" => u \in {"WaitingForPeerAnswer", "Transfering"}
         /\ d = "Completed" => u \in {"Transfering", "Completed"}
         /\ d = "Rejected" => u \in {"WaitingForPeerAnswer", "Rejected"}
         /\ d \in {"WaitingForUserChoice", "Completed", "Rejected"} => s = << >>
<1> USE DEF Joint, Agreed, Smooth
<1>1. u # "Error" /\ d # "Error"
  OBVIOUS
<1>2. d \in {"WaitingForUserChoice", "Completed", "Rejected"} => s = << >>
  BY DEF Before
<1>3. u \in {"Completed", "Rejected"} => d = u
  BY DEF Over
<1>4. d \in Asking \cup {"WaitingForUserChoice"} => u \in Unanswered
  <2>1. d \in Asking \cup {"WaitingForUserChoice"} => ch # "Accept"
    BY DEF Before
  <2> QED
    BY <1>1, <1>3, <2>1 DEF Consent, Asking
<1>5. d = "WaitingForUserChoice" => u = "WaitingForPeerAnswer"
  BY <1>1 DEF Before
<1>6. d \in {"Transfering", "Completed", "Rejected"} => u \notin {"Init", "Starting"}
  BY DEF Before
<1>7. d = "Completed" => u \in {"Transfering", "Error", "Completed"}
  BY DEF Done
<1>8. d = "Rejected" => u \in Unanswered \cup {"Rejected", "Error"}
  BY DEF Before, Consent
<1> QED
  BY <1>1, <1>2, <1>3, <1>4, <1>5, <1>6, <1>7, <1>8 DEF UpStatuses, Final, Unanswered

\* The first of a stream of one or two messages.
LEMMA FewMessages ==
  ASSUME NEW m \in Messages, NEW n \in Messages
  PROVE  /\ << m >> # << >> /\ Head(<< m >>) = m /\ Tail(<< m >>) = << >>
         /\ << m, n >> # << >> /\ Head(<< m, n >>) = m /\ Tail(<< m, n >>) = << n >>
         /\ << m >> \o << n >> = << m, n >> /\ << >> \o << n >> = << n >>
<1>1. << m >> # << >> /\ Head(<< m >>) = m /\ << m, n >> # << >> /\ Head(<< m, n >>) = m
  OBVIOUS
<1>2. Tail(<< m >>) = << >>
  OBVIOUS
<1>3. Tail(<< m, n >>) = << n >>
  OBVIOUS
<1>4. << m >> \o << n >> = << m, n >>
  <2>1. PICK s, t : s = << m >> /\ t = << m, n >>
    OBVIOUS
  <2>2. /\ s \in Seq(Messages) /\ Len(s) = 1 /\ s[1] = m
        /\ t \in Seq(Messages) /\ Len(t) = 2 /\ t[1] = m /\ t[2] = n
    BY <2>1
  <2>3. PICK a : a = Append(s, n)
    OBVIOUS
  <2>4. a \in Seq(Messages) /\ Len(a) = 2 /\ a[1] = m /\ a[2] = n
    <3>1. /\ a \in Seq(Messages) /\ Len(a) = Len(s) + 1
          /\ \A i \in 1 .. Len(s) : a[i] = s[i]
          /\ a[Len(s) + 1] = n
      BY <2>2, <2>3, AppendProperties
    <3>2. 1 \in 1 .. Len(s) /\ Len(s) + 1 = 2
      BY <2>2
    <3> QED
      BY <2>2, <3>1, <3>2
  <2>5. a = t
    <3>1. \A i \in 1 .. Len(a) : a[i] = t[i]
      BY <2>2, <2>4
    <3> QED
      BY <2>2, <2>4, <3>1, SeqEqual
  <2> QED
    BY <2>1, <2>2, <2>3, <2>5, OneMore
<1>5. << >> \o << n >> = << n >>
  OBVIOUS
<1> QED
  BY <1>1, <1>2, <1>3, <1>4, <1>5

LEMMA WhatIsSent ==
  ASSUME NEW v \in Nat
  PROVE  /\ HandshakeMsg(v) \in Messages /\ HandshakeMsg(v).kind = "Handshake"
         /\ HandshakeMsg(v).version = v
         /\ \A k \in {"Offer", "Accept", "Reject", "Completed"} :
              Msg(k) \in Messages /\ Msg(k).kind = k
BY MessageTypes DEF HandshakeMsg

\* The reply is there when the upload can read it, and the upload waits for it.
LEMMA ReplyIsExpected ==
  ASSUME NEW v \in Nat, NEW u, NEW d, NEW r, r = Reply(v, u, d), r # << >>
  PROVE  /\ Tail(r) = << >>
         /\ \/ u = "Starting" /\ d # "None" /\ Head(r) = HandshakeMsg(v)
            \/ u = "WaitingForPeerAnswer" /\ d = "Transfering" /\ Head(r) = Msg("Accept")
            \/ u = "WaitingForPeerAnswer" /\ d = "Rejected" /\ Head(r) = Msg("Reject")
            \/ u = "Transfering" /\ d = "Completed" /\ Head(r) = Msg("Completed")
<1>1. \A m \in Messages : Head(<< m >>) = m /\ Tail(<< m >>) = << >>
  BY FewMessages
<1>2. /\ HandshakeMsg(v) \in Messages /\ Msg("Accept") \in Messages
      /\ Msg("Reject") \in Messages /\ Msg("Completed") \in Messages
  BY WhatIsSent
<1>3. \/ u = "Starting" /\ d # "None" /\ r = << HandshakeMsg(v) >>
      \/ u = "WaitingForPeerAnswer" /\ d = "Transfering" /\ r = << Msg("Accept") >>
      \/ u = "WaitingForPeerAnswer" /\ d = "Rejected" /\ r = << Msg("Reject") >>
      \/ u = "Transfering" /\ d = "Completed" /\ r = << Msg("Completed") >>
  BY DEF Reply
<1> QED
  BY <1>1, <1>2, <1>3

\* What the download reads before the offer.
LEMMA HeadOfAsked ==
  ASSUME NEW v \in Nat, NEW d, NEW s, s # << >>,
         d \in {"None", "Starting"} =>
           s \in {<< >>, << HandshakeMsg(v) >>, << HandshakeMsg(v), Msg("Offer") >>},
         d = "WaitingForOffer" => s \in {<< >>, << Msg("Offer") >>}
  PROVE  /\ d \in {"None", "Starting"} =>
              Head(s) = HandshakeMsg(v) /\ Tail(s) \in {<< >>, << Msg("Offer") >>}
         /\ d = "WaitingForOffer" => Head(s) = Msg("Offer") /\ Tail(s) = << >>
<1>1. HandshakeMsg(v) \in Messages /\ Msg("Offer") \in Messages
  BY WhatIsSent
<1>2. PICK m \in Messages, n \in Messages : m = HandshakeMsg(v) /\ n = Msg("Offer")
  BY <1>1
<1>3. /\ Head(<< m >>) = m /\ Tail(<< m >>) = << >>
      /\ Head(<< n >>) = n /\ Tail(<< n >>) = << >>
      /\ Head(<< m, n >>) = m /\ Tail(<< m, n >>) = << n >>
  BY FewMessages
<1> QED
  BY <1>2, <1>3

\* Names for the values of the state.
Telling(v, p, u, d, ch, s, r, mu, cu, md, cd) ==
  /\ v = versions["up"] /\ v = versions["down"] /\ v \in Nat
  /\ Known(p, u, d, ch, s, r, mu, cu, md, cd)
  /\ Joint(p, u, d, ch, s, r, mu, cu, md, cd) /\ Smooth(v, p, u, d, s, r, mu, cu)
  /\ IsPayload(p) /\ u \in UpStatuses /\ d \in DownStatuses
  /\ s \in Seq(Messages) /\ r \in Seq(Messages)

LEMMA CalmKnown ==
  ASSUME Control, Pair, Calm
  PROVE  \E v, p, u, d, ch, s, r, mu, cu, md, cd :
           Telling(v, p, u, d, ch, s, r, mu, cu, md, cd)
<1>1. PICK p, u, d, ch, s, r, mu, cu, md, cd :
        /\ Known(p, u, d, ch, s, r, mu, cu, md, cd)
        /\ Joint(p, u, d, ch, s, r, mu, cu, md, cd)
        /\ IsPayload(p) /\ u \in UpStatuses /\ d \in DownStatuses
        /\ s \in Seq(Messages) /\ r \in Seq(Messages)
  BY PairKnown
<1>2. versions["up"] = versions["down"] /\ versions["up"] \in Nat
  BY DEF Control, Types, Sides, Calm, Orderly
<1>3. Smooth(versions["up"], p, u, d, s, r, mu, cu)
  BY <1>1 DEF Known, Calm
<1> QED
  BY <1>1, <1>2, <1>3 DEF Telling

LEMMA GreetedWhen ==
  ASSUME Control, Calm, NEW e \in Sides
  PROVE  greeted[e] <=> status[e] \notin {"Init", "None", "Starting"}
<1>1. status["up"] # "Error" /\ status["down"] # "Error"
  BY DEF Calm, Smooth
<1>2. status[e] # "Error"
  BY <1>1 DEF Sides
<1> QED
  BY <1>2 DEF Control, Greeting

\* What a handler of the upload finds is what it waits for.
LEMMA UpReads ==
  ASSUME Control, Pair, Calm, rbuf["up"] # << >>
  PROVE  /\ Incoming("up").kind \notin {"Incomplete", "Error"}
         /\ ~greeted["up"] => /\ Incoming("up").kind = "Handshake"
                              /\ Incoming("up").version = versions["up"]
         /\ greeted["up"] => Expected("up", Incoming("up").kind)
         /\ Tail(Stream("down")) = << >>
<1>1. PICK v, p, u, d, ch, s, r, mu, cu, md, cd :
        Telling(v, p, u, d, ch, s, r, mu, cu, md, cd)
  BY CalmKnown
<1>2. r # << >> /\ Head(r) = Incoming("up")
  BY <1>1, IncomingIsHead, Peers DEF Telling, Known, Control, Sides
<1>3. r = Reply(v, u, d)
  BY <1>1 DEF Telling, Smooth
<1>4. /\ Tail(r) = << >>
      /\ \/ u = "Starting" /\ d # "None" /\ Head(r) = HandshakeMsg(v)
         \/ u = "WaitingForPeerAnswer" /\ d = "Transfering" /\ Head(r) = Msg("Accept")
         \/ u = "WaitingForPeerAnswer" /\ d = "Rejected" /\ Head(r) = Msg("Reject")
         \/ u = "Transfering" /\ d = "Completed" /\ Head(r) = Msg("Completed")
  <2>1. v \in Nat
    BY <1>1 DEF Telling
  <2> QED
    BY <1>2, <1>3, <2>1, ReplyIsExpected
<1>5. greeted["up"] <=> u \notin {"Init", "None", "Starting"}
  BY <1>1, GreetedWhen DEF Telling, Known, Sides
<1>6. ASSUME u = "Transfering", d = "Completed"
      PROVE  IsTransferComplete(payload, mgr["up"])
  <2>1. Sender(p, mu, cu)
    BY <1>1, <1>6 DEF Telling, Known, Control, Sending
  <2>2. mu.next = End(p)
    BY <1>1, <1>6 DEF Telling, Smooth
  <2>3. mu.total = TotalSize(p)
    BY <1>1, <1>6 DEF Telling, Joint, Done
  <2>4. IsTransferComplete(p, mu)
    BY <2>1, <2>2, <2>3 DEF Sender, IsTransferComplete
  <2> QED
    BY <1>1, <2>4 DEF Telling, Known
<1>7. /\ HandshakeMsg(v).kind = "Handshake" /\ HandshakeMsg(v).version = v
      /\ Msg("Accept").kind = "Accept" /\ Msg("Reject").kind = "Reject"
      /\ Msg("Completed").kind = "Completed"
  BY <1>1, WhatIsSent DEF Telling
<1>8. v = versions["up"] /\ u = status["up"] /\ r = Stream("down")
  BY <1>1 DEF Telling, Known
<1>9. CASE u = "Starting" /\ Head(r) = HandshakeMsg(v)
  BY <1>2, <1>4, <1>5, <1>7, <1>8, <1>9
<1>10. CASE u = "WaitingForPeerAnswer" /\ Head(r) \in {Msg("Accept"), Msg("Reject")}
  BY <1>2, <1>4, <1>5, <1>7, <1>8, <1>10 DEF Expected
<1>11. CASE u = "Transfering" /\ d = "Completed" /\ Head(r) = Msg("Completed")
  BY <1>2, <1>4, <1>5, <1>6, <1>7, <1>8, <1>11 DEF Expected
<1> QED
  BY <1>4, <1>9, <1>10, <1>11

\* So is what a handler of the download finds.
LEMMA DownReads ==
  ASSUME Control, Pair, Calm, rbuf["down"] # << >>
  PROVE  /\ Incoming("down").kind \notin {"Incomplete", "Error"}
         /\ ~greeted["down"] => /\ Incoming("down").kind = "Handshake"
                                /\ Incoming("down").version = versions["down"]
                                /\ Tail(Stream("up")) \in {<< >>, << Msg("Offer") >>}
         /\ greeted["down"] => Expected("down", Incoming("down").kind)
<1>1. PICK v, p, u, d, ch, s, r, mu, cu, md, cd :
        Telling(v, p, u, d, ch, s, r, mu, cu, md, cd)
  BY CalmKnown
<1>2. s # << >> /\ Head(s) = Incoming("down")
  BY <1>1, IncomingIsHead, Peers DEF Telling, Known, Control, Sides
<1>3. /\ d \in {"None", "Starting"} =>
              Head(s) = HandshakeMsg(v) /\ Tail(s) \in {<< >>, << Msg("Offer") >>}
      /\ d = "WaitingForOffer" => Head(s) = Msg("Offer")
  BY <1>1, <1>2, HeadOfAsked DEF Telling, Smooth
<1>4. greeted["down"] <=> d \notin {"Init", "None", "Starting"}
  BY <1>1, GreetedWhen DEF Telling, Known, Sides
<1>5. /\ HandshakeMsg(v).kind = "Handshake" /\ HandshakeMsg(v).version = v
      /\ Msg("Offer").kind = "Offer"
  BY <1>1, WhatIsSent DEF Telling
<1>6. v = versions["down"] /\ d = status["down"] /\ s = Stream("up") /\ d \in DownStatuses
  BY <1>1 DEF Telling, Known
<1>7. /\ d \notin {"WaitingForUserChoice", "Completed", "Rejected", "Error"}
      /\ d = "Transfering" => u \in {"WaitingForPeerAnswer", "Transfering"}
  BY <1>1, <1>2, SmoothStatuses DEF Telling
<1>8. CASE d \in {"None", "Starting"}
  BY <1>2, <1>3, <1>4, <1>5, <1>6, <1>8
<1>9. CASE d = "WaitingForOffer"
  BY <1>2, <1>3, <1>4, <1>5, <1>6, <1>9 DEF Expected
<1>10. CASE d = "Transfering"
  <2>1. Tracked(p, u, s, mu, cu, md, cd)
    BY <1>1, <1>10 DEF Telling, Joint, Data, Misled, Smooth
  <2>2. u = "Transfering" /\ Kinds(s, DataKinds)
    BY <1>2, <1>7, <1>10, <2>1 DEF Tracked
  <2>3. Head(s).kind \in DataKinds
    BY <1>1, <1>2, <2>2, HeadKinds DEF Telling
  <2> QED
    BY <1>2, <1>4, <1>6, <1>10, <2>3 DEF Expected, DataKinds
<1> QED
  BY <1>6, <1>7, <1>8, <1>9, <1>10 DEF DownStatuses, Final

\* A side whose socket is closed has ended; its peer, if it has not, has a
\* message to read.
LEMMA NoAborts ==
  ASSUME Control, Pair, Calm, faults = {}, NEW e \in Sides
  PROVE  ~RemoteClosed(e) /\ ~Reset(e) /\ ~NetworkError(e) /\ ~FailsUnheard
<1>1. PICK v, p, u, d, ch, s, r, mu, cu, md, cd :
        Telling(v, p, u, d, ch, s, r, mu, cu, md, cd)
  BY CalmKnown
<1>2. /\ u = status["up"] /\ d = status["down"] /\ s = Stream("up") /\ r = Stream("down")
      /\ u \in UpStatuses /\ d \in DownStatuses /\ r = Reply(v, u, d)
  BY <1>1 DEF Telling, Known, Smooth
<1>3. /\ u # "Error" /\ d # "Error"
      /\ d = "Completed" => u \in {"Transfering", "Completed"}
      /\ d = "Rejected" => u \in {"WaitingForPeerAnswer", "Rejected"}
      /\ d \in {"WaitingForUserChoice", "Completed", "Rejected"} => s = << >>
  BY <1>1, SmoothStatuses DEF Telling
<1>4. u \in {"Completed", "Rejected"} => d = u /\ s = << >> /\ r = << >>
  BY <1>1 DEF Telling, Joint, Agreed, Over
<1>5. ~NetworkError(e)
  BY DEF NetworkError
<1>6. sock["up"] = "Unconnected" => u \in {"Completed", "Rejected"}
  BY <1>2, <1>3 DEF Control, Sockets, Sides, Calm, Orderly, UpStatuses, DownStatuses, Final
<1>7. sock["down"] = "Unconnected" => d \in {"Completed", "Rejected"}
  BY <1>2, <1>3 DEF Control, Sockets, Sides, Calm, Orderly, UpStatuses, DownStatuses, Final
<1>8. \A x \in Sides : /\ sock[x] = "Connected" => status[x] \notin Final
                       /\ sock[x] = "Closing" => wbuf[x] # << >>
                       /\ sock[x] \notin {"Connected", "Closing"} => wbuf[x] = << >>
  BY DEF Control, Sockets
<1>11. ~FailsUnheard
  <2> SUFFICES ASSUME FailsUnheard
               PROVE  FALSE
    OBVIOUS
  <2>1. sock["up"] = "Unconnected"
    BY Peers
       DEF FailsUnheard, UserRejectsUnheard, ReceiveChecksumsUnheard, FlushFails, Broken, Sides
  <2>2. d \in {"WaitingForUserChoice", "Transfering"}
    BY <1>2, UnheardFacts
  <2> QED
    BY <1>4, <1>6, <2>1, <2>2
<1>9. CASE e = "down"
  <2>1. SUFFICES ASSUME sock["down"] \in {"Connected", "Closing"}, sock["up"] = "Unconnected"
                 PROVE  FALSE
    BY <1>5, <1>9, <1>11, Peers DEF RemoteClosed, Reset, Sides
  <2>2. d \in Final /\ r = << >>
    BY <1>4, <1>6, <2>1 DEF Final
  <2>3. wbuf["down"] = << >>
    BY <1>2, <2>2, EmptyStream DEF Control, Sides
  <2> QED
    BY <1>2, <1>8, <2>1, <2>2, <2>3 DEF Sides
<1>10. CASE e = "up"
  <2>1. ~Reset("up")
    <3> SUFFICES ASSUME Reset("up")
                 PROVE  FALSE
      OBVIOUS
    <3>1. s = << >> /\ net["up"] # << >>
      BY <1>3, <1>7, Peers DEF Reset, Sides
    <3>2. PICK a, b, c : a = rbuf["down"] /\ b = net["up"] /\ c = wbuf["up"]
      OBVIOUS
    <3>3. a \in Seq(Messages) /\ b \in Seq(Messages) /\ c \in Seq(Messages)
      BY <3>2, Peers DEF Control, BuffersOK, Sides
    <3>4. Joined(a, b, c) = << >>
      BY <1>2, <3>1, <3>2, Peers DEF Stream, Sides
    <3>5. b = << >>
      BY <3>3, <3>4, EmptyParts
    <3> QED
      BY <3>1, <3>2, <3>5
  <2>2. ~RemoteClosed("up")
    <3> SUFFICES ASSUME RemoteClosed("up")
                 PROVE  FALSE
      OBVIOUS
    <3>1. /\ sock["up"] = "Connected" /\ sock["down"] = "Unconnected" /\ net["down"] = << >>
          /\ pc["up"] = "Loop"
      BY Peers DEF RemoteClosed, SocketError, Sides
    <3>2. rbuf["up"] = << >> /\ wbuf["down"] = << >>
      BY <1>8, <3>1 DEF Calm, Orderly, Sides
    <3>3. r = << >>
      <4>1. << >> \o << >> \o << >> = << >>
        BY MessageTypes, ConcatEmptySeq
      <4> QED
        BY <1>2, <3>1, <3>2, <4>1, Peers DEF Stream, Joined, Sides
    <3>4. /\ d \in {"Completed", "Rejected"} /\ u \notin Final
      BY <1>2, <1>7, <1>8, <3>1 DEF Sides
    <3>5. r # << >>
      <4>1. \/ d = "Completed" /\ u = "Transfering"
            \/ d = "Rejected" /\ u = "WaitingForPeerAnswer"
        BY <1>3, <3>4 DEF Final
      <4>2. r = << Msg("Completed") >> \/ r = << Msg("Reject") >>
        BY <1>2, <4>1 DEF Reply
      <4>3. << Msg("Completed") >> # << >> /\ << Msg("Reject") >> # << >>
        BY FewMessages, WhatIsSent
      <4> QED
        BY <4>2, <4>3
    <3> QED
      BY <3>3, <3>5
  <2> QED
    BY <1>5, <1>10, <1>11, <2>1, <2>2
<1> QED
  BY <1>9, <1>10 DEF Sides

\* No handler fails.
LEMMA NoFailures ==
  ASSUME Control, Pair, Calm, FairWeather, NEW e \in Sides
  PROVE  /\ ~Aborting(e) /\ ~NetworkError(e)
         /\ ~VersionMismatch(e) /\ ~ReceiveError(e)
         /\ ~SendFails /\ ~UpFlush /\ ~UpFlushEnds /\ ~FailsUnheard
<1>1. ~RemoteClosed(e) /\ ~Reset(e) /\ ~NetworkError(e) /\ ~FailsUnheard
  BY NoAborts DEF FairWeather
<1>2. ~ProtocolError(e) /\ ~VersionMismatch(e) /\ ~ReceiveError(e)
  <2>1. CASE e = "up"
    BY <2>1, UpReads DEF ProtocolError, VersionMismatch, ReceiveError, Taking, Readable
  <2>2. CASE e = "down"
    BY <2>2, DownReads DEF ProtocolError, VersionMismatch, ReceiveError, Taking, Readable
  <2> QED
    BY <2>1, <2>2 DEF Sides
<1>3. ~SendFails
  BY DEF FairWeather, SendFails
<1>4. ~UpFlush /\ ~UpFlushEnds
  BY DEF Calm, Orderly, UpFlush, UpFlushEnds
<1> QED
  BY <1>1, <1>2, <1>3, <1>4 DEF Aborting

\* The files open, and a chunk the download is sent is never too long.
LEMMA ChunkIsTaken ==
  ASSUME NEW p, IsPayload(p), NEW u \in {"WaitingForPeerAnswer", "Transfering"},
         NEW s \in Seq(Messages), s # << >>, NEW mu, NEW cu, NEW md, NEW cd,
         Data(p, u, "Transfering", s, mu, cu, md, cd), Head(s).kind = "Chunk",
         NEW unreliable, ~unreliable, NEW after \in Received(p, md, Len(Head(s).data), unreliable)
  PROVE  ~after.error
<1>0. Kinds(s, StreamKinds) /\ Inner(s, DataKinds)
  BY DEF Data
<1>1. PICK h : History(p, cu, s, h) /\ Receiver(p, md, h[0], cu, cd)
  BY DEF Data, Tracked, Misled
<1>2. Link(p, cu, Head(s), h[0], h[1]) /\ h[1] \in Positions(p)
  BY <1>0, <1>1, TakenHead
<1>3. ChunkFits(p, md, Len(Head(s).data))
  <2>1. PICK msg, x, y : msg = Head(s) /\ x = h[0] /\ y = h[1]
    OBVIOUS
  <2>2. /\ Receiver(p, md, x, cu, cd) /\ y \in Positions(p) /\ msg.kind = "Chunk"
        /\ Link(p, cu, msg, x, y) /\ after \in Received(p, md, Len(msg.data), unreliable)
    BY <1>1, <1>2, <2>1
  <2>3. PICK longer : longer = Extend(cd, md.total, after.total - md.total, msg.data)
    OBVIOUS
  <2> QED
    BY <2>1, <2>2, <2>3, ReceiverTakesChunk
<1>4. after \in Moved(p, md, Len(Head(s).data))
  BY <1>3 DEF Received
<1>5. after.error = md.error
  BY <1>4 DEF Moved, Advanced
<1> QED
  BY <1>1, <1>5 DEF Receiver

\* The checksums are those of what was received, as both sides have the bytes
\* of the files, and the last ones find the upload at its end.
LEMMA SumsMatch ==
  ASSUME NEW p, IsPayload(p), NEW u \in {"WaitingForPeerAnswer", "Transfering"},
         NEW s \in Seq(Messages), s # << >>, NEW mu, NEW cu, NEW md, NEW cd,
         Data(p, u, "Transfering", s, mu, cu, md, cd), Head(s).kind = "Checksums",
         cu \in Seq(Nat), \A k \in 1 .. Len(cu) : cu[k] = k,
         NEW r \in TestChecksums(p, md, cd, Head(s).sums)
  PROVE  /\ ~r.error
         /\ IsTransferComplete(p, r) => u = "Transfering" /\ mu.next = End(p)
<1>0. Kinds(s, StreamKinds) /\ Inner(s, DataKinds)
  BY DEF Data
<1>1. PICK h : /\ History(p, cu, s, h) /\ Receiver(p, md, h[0], cu, cd)
               /\ u = "Transfering" /\ LastPosition(s, h) = Position(mu)
  BY DEF Data, Tracked, Misled
<1>2. Link(p, cu, Head(s), h[0], h[1]) /\ h[1] \in Positions(p) /\ h[1].total <= Len(cu)
  BY <1>0, <1>1, TakenHead
<1>3. PICK x, sums : x = h[0] /\ sums = Head(s).sums
  OBVIOUS
<1>4. /\ md \in Managers(p) /\ x \in Positions(p) /\ ~md.error
      /\ x.current = md.current /\ x.next = md.next /\ x.total = md.total
      /\ cd = [k \in 1 .. md.total |-> k]
  BY <1>1, <1>3 DEF Receiver, Position
<1>5. /\ md.current \in 1 .. End(p) /\ md.next \in 1 .. End(p) /\ md.total \in Nat
      /\ p.start[md.current] <= md.total
      /\ End(p) \in Nat
      /\ \A i \in 1 .. End(p) : p.start[i] \in Nat
      /\ \A i, j \in 1 .. End(p) : i <= j => p.start[i] <= p.start[j]
  BY <1>4, PayloadFacts DEF Positions, Managers
<1>6. /\ x.next < x.current /\ sums = ChecksumsAt(p, cu, x) /\ md.total <= Len(cu)
      /\ Len(sums) = md.current - md.next
  <2>1. x.next < x.current /\ sums = ChecksumsAt(p, cu, x) /\ h[1] = AfterChecksums(x)
    BY <1>2, <1>3 DEF Link
  <2>2. h[1].total = md.total
    BY <1>4, <2>1 DEF AfterChecksums
  <2>3. md.total <= Len(cu)
    BY <1>2, <2>2
  <2>4. Len(ChecksumsAt(p, cu, x)) = x.current - x.next
    BY <1>4, <2>1, LenOfChecksums DEF Positions
  <2> QED
    BY <1>4, <2>1, <2>3, <2>4
<1>7. ASSUME NEW f \in md.next .. md.current - 1
      PROVE  FileBytes(p, cu, f) = FileBytes(p, cd, f)
  <2>1. /\ f \in 1 .. End(p) /\ f + 1 \in 1 .. End(p) /\ f + 1 <= md.current
    BY <1>5
  <2>2. p.start[f] \in Nat /\ p.start[f + 1] \in Nat /\ p.start[f + 1] <= md.total
    <3>1. PICK a, b, t, e : a = p.start /\ b = md.current /\ t = md.total /\ e = End(p)
      OBVIOUS
    <3>2. /\ f \in 1 .. e /\ f + 1 \in 1 .. e /\ f + 1 <= b /\ b \in 1 .. e /\ e \in Nat
          /\ \A i \in 1 .. e : a[i] \in Nat
          /\ t \in Nat /\ a[b] <= t
      BY <1>5, <2>1, <3>1
    <3>3. \A i, j \in 1 .. e : i <= j => a[i] <= a[j]
      BY <1>5, <3>1
    <3>4. a[f + 1] <= a[b]
      BY <3>2, <3>3
    <3>5. a[f] \in Nat /\ a[f + 1] \in Nat /\ a[f + 1] <= t
      <4>1. a[f] \in Nat /\ a[f + 1] \in Nat /\ a[b] \in Nat
        BY <3>2
      <4> QED
        BY <3>2, <3>4, <4>1
    <3> QED
      BY <3>1, <3>5
  <2>3. ASSUME NEW k \in 1 .. FileSize(p, f)
        PROVE  cu[p.start[f] + k] = cd[p.start[f] + k]
    <3>1. PICK a, b, t, l : a = p.start[f] /\ b = p.start[f + 1] /\ t = md.total /\ l = Len(cu)
      OBVIOUS
    <3>2. a \in Nat /\ b \in Nat /\ t \in Nat /\ l \in Nat /\ b <= t /\ t <= l
      BY <1>5, <1>6, <2>2, <3>1, LenProperties
    <3>3. k \in 1 .. b - a
      BY <3>1 DEF FileSize
    <3>4. a + k \in 1 .. t /\ a + k \in 1 .. l
      BY <3>2, <3>3
    <3>5. cu[a + k] = a + k
      BY <3>1, <3>4
    <3>6. cd[a + k] = a + k
      BY <1>4, <3>1, <3>4
    <3> QED
      BY <3>1, <3>5, <3>6
  <2> QED
    BY <2>3 DEF FileBytes
<1>8. Matching(p, md, cd, sums, Len(sums))
  <2> SUFFICES ASSUME NEW j \in 1 .. Len(sums)
               PROVE  md.next + j - 1 < md.current /\ sums[j] = FileBytes(p, cd, md.next + j - 1)
    BY DEF Matching
  <2>1. md.next + j - 1 \in md.next .. md.current - 1 /\ j \in 1 .. x.current - x.next
    BY <1>4, <1>5, <1>6
  <2>2. sums[j] = FileBytes(p, cu, md.next + j - 1)
    BY <1>4, <1>6, <2>1 DEF ChecksumsAt
  <2>3. FileBytes(p, cu, md.next + j - 1) = FileBytes(p, cd, md.next + j - 1)
    BY <1>7, <2>1
  <2> QED
    BY <1>5, <2>1, <2>2, <2>3
<1>9. r = Checksummed(p, md, Len(sums))
  BY <1>3, <1>8 DEF TestChecksums
<1>10. ~r.error
  BY <1>4, <1>9 DEF Checksummed, StopTransfer, Seen
<1>11. ASSUME IsTransferComplete(p, r)
       PROVE  mu.next = End(p)
  <2>1. \/ r.error \/ Receiver(p, r, h[1], cu, cd) \/ Finished(p, r, h[1], cu, cd)
    BY <1>1, <1>2, ReceiverTakesChecksums
  <2>2. ~Receiver(p, r, h[1], cu, cd)
    BY <1>11 DEF Receiver, IsTransferComplete
  <2>3. Finished(p, r, h[1], cu, cd)
    BY <1>10, <2>1, <2>2
  <2>4. h[1].next = End(p) /\ h[1].current = End(p) /\ h[1].total = TotalSize(p)
    BY <2>3 DEF Finished
  <2>5. LastPosition(s, h) = h[1]
    BY <1>0, <1>1, <2>4, TrackedEnd
  <2> QED
    BY <1>1, <2>4, <2>5 DEF Position
<1> QED
  BY <1>1, <1>10, <1>11

----------------------------------------------------------------------------
(* Each handler leaves the two sides calm. *)

LEMMA CalmStep ==
  ASSUME NEW v, NEW p, NEW u, NEW d, NEW s, NEW r, NEW mu, NEW cu,
         v = versions["up"], UNCHANGED <<versions, payload>>, Orderly',
         p = payload, u = status'["up"], d = status'["down"],
         s = Stream("up")', r = Stream("down")', mu = mgr'["up"], cu = content'["up"],
         Smooth(v, p, u, d, s, r, mu, cu)
  PROVE  Calm'
<1>1. Smooth(versions'["up"], payload', status'["up"], status'["down"], Stream("up")',
             Stream("down")', mgr'["up"], content'["up"])
  OBVIOUS
<1> QED
  BY <1>1, Zenon DEF Calm

\* Nothing on its way, nothing in the read buffer.
LEMMA NothingLeft ==
  ASSUME BuffersOK', Stream("down")' = << >>
  PROVE  rbuf'["up"] = << >>
<1>1. PICK a, b, c : a = rbuf'["up"] /\ b = net'["down"] /\ c = wbuf'["down"]
  OBVIOUS
<1>2. a \in Seq(Messages) /\ b \in Seq(Messages) /\ c \in Seq(Messages)
  BY <1>1 DEF BuffersOK, Sides
<1>3. Joined(a, b, c) = << >>
  BY <1>1, Peers DEF Stream, Sides
<1> QED
  BY <1>1, <1>2, <1>3, EmptyParts

\* The handlers that move messages along.
LEMMA CalmMoving ==
  ASSUME Control, Pair, Calm, NEW e \in Sides, Write(e) \/ Arrive(e) \/ Timer(e) \/ Starved(e)
  PROVE  Calm'
<1>1. Stream("up")' = Stream("up") /\ Stream("down")' = Stream("down")
  <2>1. Keeps(e)
    BY MovingKeeps DEF Moving, Control
  <2> QED
    BY <2>1, Peers DEF Keeps, Sides
<1>2. UNCHANGED <<payload, versions, status, error, mgr, content>>
  BY DEF Write, Arrive, Timer, Starved, Constant
<1>3. /\ sock' = sock \/ (sock[e] = "Closing" /\ sock' = [sock EXCEPT ![e] = "Unconnected"])
      /\ pc' = pc \/ \E h \in {"Written", "Reading", "Loop"} : pc' = [pc EXCEPT ![e] = h]
  BY DEF Write, Arrive, Timer, Starved, Stop
<1>4. /\ sock \in [Sides -> SocketStates] /\ pc \in [Sides -> Handlers]
      /\ rbuf \in [Sides -> Seq(Messages)]
  BY DEF Control, Types, BuffersOK
<1>5. pc'["up"] \notin {"Flush", "Flushed"}
  BY <1>3, <1>4 DEF Calm, Orderly, Sides
<1>6. rbuf'["up"] # << >> => pc'["up"] = "Reading"
  <2>1. CASE e = "up" /\ (Arrive(e) \/ Timer(e))
    BY <1>4, <2>1 DEF Arrive, Timer, Sides
  <2>2. CASE e = "up" /\ Write(e)
    BY <1>4, <2>2 DEF Write, Calm, Orderly, Sides
  <2>3. CASE e = "up" /\ Starved(e)
    BY <2>3, UpReads DEF Starved, Readable
  <2>4. CASE e = "down"
    <3>1. rbuf'["up"] = rbuf["up"] /\ pc'["up"] = pc["up"]
      BY <1>3, <1>4, <2>4 DEF Write, Arrive, Timer, Starved, Sides
    <3> QED
      BY <3>1 DEF Calm, Orderly
  <2> QED
    BY <2>1, <2>2, <2>3, <2>4 DEF Sides
<1>7. Orderly'
  <2>1. /\ sock'["up"] = sock["up"] \/ (sock["up"] = "Closing" /\ sock'["up"] = "Unconnected")
        /\ sock'["down"] = sock["down"]
             \/ (sock["down"] = "Closing" /\ sock'["down"] = "Unconnected")
    BY <1>3, <1>4 DEF Sides
  <2> QED
    BY <1>1, <1>2, <1>5, <1>6, <2>1 DEF Calm, Orderly
<1> QED
  BY <1>1, <1>2, <1>7, CalmStep DEF Calm

\* Upload::connect, on_socket_connected.
LEMMA CalmConnects ==
  ASSUME Control, Pair, Calm, FairWeather, Connect \/ Connected
  PROVE  Calm'
<1>1. PICK v, p, u, d, ch, s, r, mu, cu, md, cd :
        Telling(v, p, u, d, ch, s, r, mu, cu, md, cd)
  BY CalmKnown
<1>2. /\ v = versions["up"] /\ p = payload /\ u = status["up"] /\ d = status["down"]
      /\ s = Stream("up") /\ r = Stream("down") /\ mu = mgr["up"] /\ cu = content["up"]
      /\ Smooth(v, p, u, d, s, r, mu, cu) /\ v \in Nat
  BY <1>1 DEF Telling, Known
<1>3. /\ sock \in [Sides -> SocketStates] /\ status \in [Sides -> UpStatuses \cup DownStatuses]
  BY DEF Control, Types
<1>4. CASE Connect
  <2>1. /\ status' = [status EXCEPT !["up"] = "Starting"]
        /\ sock' = [sock EXCEPT !["up"] = "Connecting"]
        /\ UNCHANGED <<payload, versions, error, pc, rbuf, wbuf, net, mgr, content>>
        /\ u = "Init"
    BY <1>2, <1>4 DEF Connect, Constant, FairWeather
  <2>2. sock["up"] = "None" /\ s = << >> /\ d = "None"
    BY <1>2, <2>1 DEF Control, Sockets, Sides, Calm, Orderly
  <2>3. Stream("up")' = s /\ Stream("down")' = r
    BY <1>2, <2>1 DEF Stream
  <2>4. status'["up"] = "Starting" /\ status'["down"] = d
        /\ sock'["up"] = "Connecting" /\ sock'["down"] = sock["down"]
    BY <1>2, <1>3, <2>1 DEF Sides
  <2>5. Orderly'
    BY <1>2, <2>1, <2>2, <2>3, <2>4 DEF Calm, Orderly
  <2>6. Reply(v, "Starting", d) = Reply(v, u, d)
    BY <2>1, <2>2 DEF Reply
  <2>7. Smooth(v, p, "Starting", d, s, r, mu, cu)
    BY <1>2, <2>2, <2>6 DEF Smooth
  <2> QED
    BY <1>2, <2>1, <2>3, <2>4, <2>5, <2>7, CalmStep
<1>5. CASE Connected
  <2>1. /\ sock' = [sock EXCEPT !["up"] = "Connected"] /\ sock["up"] = "Connecting"
        /\ wbuf' = [wbuf EXCEPT !["up"] = << HandshakeMsg(v) >>]
        /\ UNCHANGED <<payload, versions, status, error, pc, rbuf, net, mgr, content>>
    BY <1>2, <1>5 DEF Connected, Constant
  <2>2. PICK msg \in Messages : msg = HandshakeMsg(v)
    BY <1>2, WhatIsSent
  <2>3. s = << >> /\ d \in {"None", "Starting"} /\ wbuf["up"] = << >> /\ u = "Starting"
    BY <1>2, <2>1 DEF Control, Sockets, Sides, Calm, Orderly
  <2>4. Sends("up", << msg >>)
    BY <2>1, <2>2, <2>3, SendsOne DEF Control, Sides
  <2>5. Stream("up")' = << msg >> /\ Stream("down")' = r
    BY <1>2, <2>3, <2>4, FewMessages, Peers DEF Sends, Sides
  <2>6. << msg >> # << >>
    BY FewMessages
  <2>7. sock'["up"] = "Connected" /\ sock'["down"] = sock["down"]
    BY <1>3, <2>1 DEF Sides
  <2>8. Orderly'
    BY <1>2, <2>1, <2>3, <2>5, <2>6, <2>7 DEF Calm, Orderly
  <2>9. Smooth(v, p, u, d, << msg >>, r, mu, cu)
    BY <1>2, <2>2, <2>3 DEF Smooth
  <2> QED
    BY <1>2, <2>1, <2>5, <2>8, <2>9, CalmStep
<1> QED
  BY <1>4, <1>5

\* The upload asks.
LEMMA CalmUpGreets ==
  ASSUME Control, Pair, Calm, ReceiveHandshake("up")
  PROVE  Calm'
<1>1. PICK v, p, u, d, ch, s, r, mu, cu, md, cd :
        Telling(v, p, u, d, ch, s, r, mu, cu, md, cd)
  BY CalmKnown
<1>2. /\ v = versions["up"] /\ p = payload /\ u = status["up"] /\ d = status["down"]
      /\ s = Stream("up") /\ r = Stream("down") /\ mu = mgr["up"] /\ cu = content["up"]
      /\ Smooth(v, p, u, d, s, r, mu, cu) /\ v \in Nat
  BY <1>1 DEF Telling, Known
<1>3. PICK msg \in Messages : msg = Msg("Offer") /\ msg.kind = "Offer"
  BY MessageTypes
<1>4. Takes("up", << msg >>)
  <2>1. /\ Readable("up") /\ Take("up") /\ UNCHANGED net
        /\ wbuf' = [wbuf EXCEPT !["up"] = Append(wbuf["up"], msg)]
    BY <1>3 DEF ReceiveHandshake, Taking
  <2> QED
    BY <2>1, TakesAndSends DEF Control, Sides
<1>5. /\ u = "Starting" /\ status'["up"] = "WaitingForPeerAnswer" /\ status'["down"] = d
      /\ sock["up"] = "Connected" /\ pc["up"] = "Reading" /\ rbuf["up"] # << >>
      /\ UNCHANGED <<payload, versions, error, pc, sock, mgr, content>>
  BY <1>2 DEF ReceiveHandshake, Taking, Readable, Constant, Control, Greeting, Types, Sides, Calm,
              Smooth
<1>6. Stream("up")' = s \o << msg >> /\ Stream("down")' = << >> /\ r # << >>
  <2>1. Stream("up")' = s \o << msg >> /\ Stream("down")' = Tail(r) /\ r # << >>
    BY <1>2, <1>4, Peers DEF Takes, Sides
  <2>2. Tail(r) = << >>
    BY <1>2, <1>5, UpReads
  <2> QED
    BY <2>1, <2>2
<1>7. d \in Asking /\ d # "None"
  <2>1. d \in DownStatuses /\ u # "Error" /\ d # "Error"
    BY <1>1 DEF Telling, Smooth
  <2>2. d \notin {"WaitingForUserChoice", "Transfering", "Completed", "Rejected"}
    BY <1>1, <1>5, SmoothStatuses DEF Telling
  <2>3. d # "None"
    <3>1. Reply(v, "Starting", "None") = << >>
      BY DEF Reply
    <3> QED
      BY <1>2, <1>5, <1>6, <3>1 DEF Smooth
  <2> QED
    BY <2>1, <2>2, <2>3 DEF DownStatuses, Final, Asking
<1>8. Reply(v, "WaitingForPeerAnswer", d) = << >>
  BY <1>7 DEF Reply, Asking
<1>9. /\ d = "Starting" => s \o << msg >> = << HandshakeMsg(v), msg >>
      /\ d = "WaitingForOffer" => s \o << msg >> = << msg >>
      /\ s \o << msg >> # << >>
  <2>1. PICK hello \in Messages : hello = HandshakeMsg(v)
    BY <1>2, WhatIsSent
  <2>2. Kinds(s, {"Handshake"})
    BY <1>1, <1>5 DEF Telling, Joint, Agreed, Before
  <2>3. s # << msg >> /\ s # << hello, msg >>
    <3>1. s \in Seq(Messages)
      BY <1>1 DEF Telling
    <3>2. CASE s = << msg >>
      <4>1. s # << >> /\ Head(s) = msg
        BY <3>2, FewMessages
      <4> QED
        BY <1>3, <2>2, <3>1, <4>1, HeadKinds
    <3>3. CASE s = << hello, msg >>
      <4>1. Len(s) = 2 /\ s[2] = msg
        BY <3>3
      <4>2. s[2].kind \in {"Handshake"}
        BY <2>2, <4>1 DEF Kinds
      <4> QED
        BY <1>3, <4>1, <4>2
    <3> QED
      BY <3>2, <3>3
  <2>4. /\ d = "Starting" => s = << hello >>
        /\ d = "WaitingForOffer" => s = << >>
    BY <1>2, <1>3, <1>5, <2>1, <2>3 DEF Smooth, Calm, Orderly
  <2>5. /\ << hello >> \o << msg >> = << hello, msg >> /\ << >> \o << msg >> = << msg >>
        /\ << hello, msg >> # << >> /\ << msg >> # << >>
    BY FewMessages
  <2> QED
    BY <1>7, <2>1, <2>4, <2>5 DEF Asking
<1>10. rbuf'["up"] = << >>
  <2>1. BuffersOK'
    BY ControlNext DEF Control, Next, UpStep, Handle
  <2> QED
    BY <1>6, <2>1, NothingLeft
<1>11. Orderly'
  BY <1>2, <1>5, <1>6, <1>7, <1>9, <1>10 DEF Calm, Orderly, Asking
<1>12. Smooth(v, p, "WaitingForPeerAnswer", d, s \o << msg >>, << >>, mu, cu)
  BY <1>2, <1>3, <1>7, <1>8, <1>9 DEF Smooth, Asking
<1> QED
  BY <1>2, <1>5, <1>6, <1>11, <1>12, CalmStep

\* It takes the answer.
LEMMA CalmUpAnswered ==
  ASSUME Control, Pair, Calm, ReceiveAccept \/ ReceiveReject \/ ReceiveCompleted
  PROVE  Calm'
<1>1. PICK v, p, u, d, ch, s, r, mu, cu, md, cd :
        Telling(v, p, u, d, ch, s, r, mu, cu, md, cd)
  BY CalmKnown
<1>2. /\ v = versions["up"] /\ p = payload /\ u = status["up"] /\ d = status["down"]
      /\ s = Stream("up") /\ r = Stream("down") /\ cu = content["up"]
      /\ Smooth(v, p, u, d, s, r, mu, cu) /\ v \in Nat
  BY <1>1 DEF Telling, Known
<1>3. PICK u2, mu2 : u2 = status'["up"] /\ mu2 = mgr'["up"]
  OBVIOUS
<1>4. Takes("up", << >>)
  <2>1. /\ Readable("up") /\ Take("up") /\ UNCHANGED net
        /\ wbuf' = wbuf \/ wbuf' = [wbuf EXCEPT !["up"] = wbuf["up"]]
    BY DEF ReceiveAccept, ReceiveReject, ReceiveCompleted, Taking, Close
  <2> QED
    BY <2>1, TakesOnly DEF Control, Sides
<1>5. /\ pc["up"] = "Reading" /\ rbuf["up"] # << >>
      /\ UNCHANGED <<payload, versions, error, content>>
      /\ status'["down"] = d /\ sock'["down"] = sock["down"]
      /\ pc'["up"] \in {"Accepted", "Loop", "Reading"}
      /\ u \in {"WaitingForPeerAnswer", "Transfering"}
      /\ u2 \in {"Transfering", "Rejected", "Completed"}
      /\ u2 = "Transfering" => u = "WaitingForPeerAnswer" /\ Incoming("up").kind = "Accept"
      /\ sock'["up"] \in {sock["up"], "Unconnected", "Closing"}
  <2>1. /\ sock \in [Sides -> SocketStates] /\ pc \in [Sides -> Handlers]
        /\ status \in [Sides -> UpStatuses \cup DownStatuses]
    BY DEF Control, Types
  <2>2. CASE ReceiveAccept
    BY <1>2, <1>3, <2>1, <2>2 DEF ReceiveAccept, Taking, Readable, Expected, Constant, Sides
  <2>3. CASE ReceiveReject
    BY <1>2, <1>3, <2>1, <2>3
       DEF ReceiveReject, Taking, Readable, Expected, Constant, Close, Stop, Sides
  <2>4. CASE ReceiveCompleted
    BY <1>2, <1>3, <2>1, <2>4
       DEF ReceiveCompleted, Taking, Readable, Expected, Constant, Close, Continue, Sides
  <2> QED
    BY <2>2, <2>3, <2>4
<1>6. Stream("up")' = s /\ Stream("down")' = << >> /\ r # << >> /\ Head(r) = Incoming("up")
  <2>1. /\ Stream("up")' = s /\ Stream("down")' = Tail(r) /\ r # << >>
        /\ Head(r) = Incoming("up")
    BY <1>2, <1>4, TakesTook, Peers DEF Takes, Control, Sides
  <2>2. Tail(r) = << >>
    BY <1>2, <1>5, UpReads
  <2> QED
    BY <2>1, <2>2
<1>7. /\ u = "WaitingForPeerAnswer" => d \in {"Transfering", "Rejected"}
      /\ u = "Transfering" => d = "Completed"
      /\ u2 = "Transfering" => d = "Transfering"
  <2>1. r = Reply(v, u, d) /\ v \in Nat
    BY <1>2 DEF Smooth
  <2>2. \/ u = "Starting" /\ d # "None" /\ Head(r) = HandshakeMsg(v)
        \/ u = "WaitingForPeerAnswer" /\ d = "Transfering" /\ Head(r) = Msg("Accept")
        \/ u = "WaitingForPeerAnswer" /\ d = "Rejected" /\ Head(r) = Msg("Reject")
        \/ u = "Transfering" /\ d = "Completed" /\ Head(r) = Msg("Completed")
    BY <1>6, <2>1, ReplyIsExpected
  <2>3. Msg("Reject").kind # "Accept"
    BY DEF Msg
  <2> QED
    BY <1>5, <1>6, <2>2, <2>3
<1>8. Reply(v, u2, d) = << >>
  BY <1>5, <1>7 DEF Reply
<1>9. d \notin {"None", "Starting", "WaitingForOffer"} /\ (u2 = "Transfering" => d # "Completed")
  BY <1>5, <1>7
<1>10. rbuf'["up"] = << >>
  <2>1. BuffersOK'
    BY ControlNext DEF Control, Next, UpStep
  <2> QED
    BY <1>6, <2>1, NothingLeft
<1>11. Orderly'
  BY <1>2, <1>3, <1>5, <1>6, <1>9, <1>10 DEF Calm, Orderly
<1>12. Smooth(v, p, u2, d, s, << >>, mu2, cu)
  BY <1>2, <1>5, <1>8, <1>9 DEF Smooth
<1> QED
  BY <1>2, <1>3, <1>5, <1>6, <1>11, <1>12, CalmStep

\* The bytes the upload hashes are those of its files.
LEMMA HashesTheFiles ==
  ASSUME NEW cu \in Seq(Nat), \A k \in 1 .. Len(cu) : cu[k] = k, NEW n \in Nat,
         NEW cu2, cu2 = Extend(cu, Len(cu), n, Span(Len(cu), n, {}))
  PROVE  \A k \in 1 .. Len(cu2) : cu2[k] = k
<1>1. PICK l, values : l = Len(cu) /\ values = Span(Len(cu), n, {})
  OBVIOUS
<1>2. l \in Nat
  BY <1>1, LenProperties
<1>3. \A k \in 1 .. n : values[k] = l + k
  BY <1>1, <1>2, SpanFacts
<1>4. cu2 = [k \in 1 .. l + n |-> IF k <= l THEN cu[k] ELSE values[k - l]]
  BY <1>1 DEF Extend
<1>5. l + n \in Nat /\ \A k \in 1 .. l + n : cu2[k] = k
  <2> SUFFICES ASSUME NEW k \in 1 .. l + n
               PROVE  cu2[k] = k
    BY <1>2
  <2>1. CASE k <= l
    BY <1>1, <1>2, <1>4, <2>1
  <2>2. CASE ~(k <= l)
    <3>1. k - l \in 1 .. n /\ l + (k - l) = k
      BY <1>2, <2>2
    <3> QED
      BY <1>3, <1>4, <2>2, <3>1
  <2> QED
    BY <2>1, <2>2
<1>6. Len(cu2) = l + n
  BY <1>4, <1>5
<1> QED
  BY <1>5, <1>6

\* The upload sends the data.
LEMMA CalmUpSends ==
  ASSUME Control, Pair, Calm, FairWeather, SendNextChunk \/ RefillEnds
  PROVE  Calm'
<1>1. PICK v, p, u, d, ch, s, r, mu, cu, md, cd :
        Telling(v, p, u, d, ch, s, r, mu, cu, md, cd)
  BY CalmKnown
<1>2. /\ v = versions["up"] /\ p = payload /\ u = status["up"] /\ d = status["down"]
      /\ s = Stream("up") /\ r = Stream("down") /\ mu = mgr["up"] /\ cu = content["up"]
      /\ Smooth(v, p, u, d, s, r, mu, cu) /\ v \in Nat /\ u # "Error" /\ d \in DownStatuses
  BY <1>1 DEF Telling, Known, Smooth
<1>3. PICK s2, mu2, cu2 : s2 = Stream("up")' /\ mu2 = mgr'["up"] /\ cu2 = content'["up"]
  OBVIOUS
<1>4. u = "Transfering" /\ pc["up"] \in Refilling
  BY <1>2 DEF SendNextChunk, RefillEnds, Control, Handling
<1>5. rbuf["up"] = << >>
  BY <1>4 DEF Calm, Orderly, Refilling
<1>6. d \notin {"None", "Starting", "WaitingForOffer"}
  BY <1>1, <1>4, SmoothStatuses DEF Telling, Asking, Unanswered
<1>7. /\ UNCHANGED <<payload, versions, status, error, sock, rbuf>>
      /\ pc'["up"] \in {pc["up"], "Reading", "Loop"}
  <2>1. pc["up"] # "Flushed" /\ pc \in [Sides -> Handlers]
    BY DEF Calm, Orderly, Control, Types
  <2> QED
    BY <2>1 DEF SendNextChunk, RefillEnds, RefillReturns, Continue, Stop, Constant, Sides
<1>8. Orderly'
  BY <1>2, <1>4, <1>5, <1>6, <1>7 DEF Calm, Orderly, Refilling
<1>9. Stream("down")' = r
  <2>1. CASE SendNextChunk
    BY <1>2, <2>1, SendFacts, Peers DEF Sends, Sides
  <2>2. CASE RefillEnds
    BY <1>2, <2>2 DEF RefillEnds, Stream
  <2> QED
    BY <2>1, <2>2
<1>10. /\ d = "Completed" => mu2.next = End(p)
       /\ \A k \in 1 .. Len(cu2) : cu2[k] = k
  <2>1. CASE RefillEnds
    BY <1>2, <1>3, <1>4, <2>1 DEF RefillEnds, Smooth
  <2>2. CASE SendNextChunk
    <3>1. Sender(p, mu, cu)
      BY <1>2, <1>4 DEF Control, Sending
    <3>2. d # "Completed"
      <4>1. d = "Completed" => mu.total = TotalSize(p)
        BY <1>1, <1>4 DEF Telling, Joint, Done
      <4>2. mu.total < TotalSize(p)
        BY <1>2, <2>2 DEF SendNextChunk, MayRefill
      <4>3. TotalSize(p) \in Nat
        BY <1>1, PayloadFacts DEF Telling
      <4> QED
        BY <4>1, <4>2, <4>3
    <3>3. PICK n : n = NextChunkSize(p, mu)
      OBVIOUS
    <3>4. n \in Nat
      <4>1. mu \in Managers(p) /\ mu.total < TotalSize(p) /\ IsPayload(p)
        BY <1>1, <1>2, <2>2, <3>1 DEF Telling, Sender, SendNextChunk, MayRefill
      <4>2. n \in 1 .. Remaining(p, mu)
        BY <3>3, <4>1, NextChunk
      <4> QED
        BY <4>2
    <3>5. content' = [content EXCEPT !["up"] = Extend(cu, mu.total, n, Span(mu.total, n, {}))]
      BY <1>2, <2>2, <3>3 DEF SendNextChunk, FairWeather
    <3>6. cu2 = Extend(cu, mu.total, n, Span(mu.total, n, {}))
      BY <1>2, <1>3, <3>5 DEF Control, Types, Sides
    <3>7. cu \in Seq(Nat) /\ Len(cu) = mu.total /\ \A k \in 1 .. Len(cu) : cu[k] = k
      BY <1>2, <3>1 DEF Sender, Smooth
    <3> QED
      BY <3>2, <3>4, <3>6, <3>7, HashesTheFiles
  <2> QED
    BY <2>1, <2>2
<1>11. Smooth(v, p, u, d, s2, r, mu2, cu2)
  BY <1>2, <1>6, <1>10 DEF Smooth
<1> QED
  BY <1>2, <1>3, <1>7, <1>8, <1>9, <1>11, CalmStep

\* What the upload reads is the same before and after these.
LEMMA SameReply ==
  ASSUME NEW v, NEW u, NEW d \in {"Starting", "WaitingForOffer"},
         NEW d2 \in {"Starting", "WaitingForOffer", "WaitingForUserChoice"}
  PROVE  Reply(v, u, d2) = Reply(v, u, d)
BY DEF Reply

\* The server builds the download.
LEMMA CalmNewDownload ==
  ASSUME Control, Pair, Calm, NewDownload
  PROVE  Calm'
<1>1. PICK v, p, u, d, ch, s, r, mu, cu, md, cd :
        Telling(v, p, u, d, ch, s, r, mu, cu, md, cd)
  BY CalmKnown
<1>2. /\ v = versions["up"] /\ p = payload /\ u = status["up"] /\ d = status["down"]
      /\ s = Stream("up") /\ r = Stream("down") /\ mu = mgr["up"] /\ cu = content["up"]
      /\ Smooth(v, p, u, d, s, r, mu, cu) /\ v \in Nat /\ v = versions["down"]
  BY <1>1 DEF Telling, Known
<1>3. PICK msg \in Messages : msg = HandshakeMsg(v)
  BY <1>2, WhatIsSent
<1>4. /\ d = "None" /\ status' = [status EXCEPT !["down"] = "Starting"]
      /\ sock["up"] \in {"Connecting", "Connected"}
      /\ sock' = [sock EXCEPT !["down"] = "Connected"]
      /\ wbuf' = [wbuf EXCEPT !["down"] = << msg >>] /\ wbuf["down"] = << >>
      /\ UNCHANGED <<payload, versions, error, pc, net, rbuf, mgr, content>>
  BY <1>2, <1>3 DEF NewDownload, Constant, Control, Sockets, Sides
<1>5. u = "Starting"
  <2>1. u \in {"Init", "Starting"}
    BY <1>2, <1>4 DEF Smooth
  <2>2. u # "Init"
    BY <1>2, <1>4 DEF Control, Sockets, Sides
  <2> QED
    BY <2>1, <2>2
<1>6. Sends("down", << msg >>)
  BY <1>4, SendsOne DEF Control, Sides
<1>7. r = << >>
  BY <1>2, <1>4 DEF Smooth, Reply
<1>8. Stream("up")' = s /\ Stream("down")' = << msg >>
  BY <1>2, <1>6, <1>7, FewMessages, Peers DEF Sends, Sides
<1>9. /\ status'["up"] = u /\ status'["down"] = "Starting"
      /\ sock'["up"] = sock["up"] /\ sock'["down"] = "Connected"
  BY <1>2, <1>4 DEF Control, Types, Sides
<1>10. Orderly'
  BY <1>2, <1>4, <1>8, <1>9 DEF Calm, Orderly
<1>11. Reply(v, u, "Starting") = << msg >>
  BY <1>3, <1>5 DEF Reply
<1>12. Smooth(v, p, u, "Starting", s, << msg >>, mu, cu)
  BY <1>2, <1>4, <1>11 DEF Smooth
<1> QED
  BY <1>2, <1>4, <1>8, <1>9, <1>10, <1>12, CalmStep

\* The download takes the handshake and the offer.
LEMMA CalmDownAsks ==
  ASSUME Control, Pair, Calm, ReceiveHandshake("down") \/ ReceiveOffer
  PROVE  Calm'
<1>1. PICK v, p, u, d, ch, s, r, mu, cu, md, cd :
        Telling(v, p, u, d, ch, s, r, mu, cu, md, cd)
  BY CalmKnown
<1>2. /\ v = versions["up"] /\ p = payload /\ u = status["up"] /\ d = status["down"]
      /\ s = Stream("up") /\ r = Stream("down") /\ mu = mgr["up"] /\ cu = content["up"]
      /\ Smooth(v, p, u, d, s, r, mu, cu) /\ v \in Nat
  BY <1>1 DEF Telling, Known
<1>3. PICK d2, s2 : d2 = status'["down"] /\ s2 = Stream("up")'
  OBVIOUS
<1>4. Takes("down", << >>)
  <2>1. Readable("down") /\ Take("down") /\ UNCHANGED <<net, wbuf>>
    BY DEF ReceiveHandshake, ReceiveOffer, Taking
  <2> QED
    BY <2>1, TakesOnly DEF Control, Sides
<1>5. s # << >> /\ s2 = Tail(s) /\ Stream("down")' = r
  BY <1>2, <1>3, <1>4, TakesTook, Peers DEF Takes, Control, Sides
<1>6. /\ UNCHANGED <<payload, versions, error, sock, mgr, content>>
      /\ status'["up"] = u /\ rbuf'["up"] = rbuf["up"] /\ pc'["up"] = pc["up"]
      /\ \/ d = "Starting" /\ d2 = "WaitingForOffer"
         \/ d = "WaitingForOffer" /\ d2 = "WaitingForUserChoice"
  <2>1. /\ status \in [Sides -> UpStatuses \cup DownStatuses] /\ pc \in [Sides -> Handlers]
        /\ rbuf \in [Sides -> Seq(Messages)]
    BY DEF Control, Types, BuffersOK
  <2>2. CASE ReceiveHandshake("down")
    <3>1. d = "Starting"
      BY <1>2, <2>2 DEF ReceiveHandshake, Taking, Control, Greeting, Sides
    <3> QED
      BY <1>2, <1>3, <2>1, <2>2, <3>1 DEF ReceiveHandshake, Take, Constant, Sides
  <2>3. CASE ReceiveOffer
    BY <1>2, <1>3, <2>1, <2>3
       DEF ReceiveOffer, Taking, Take, Expected, Continue, Constant, Sides
  <2> QED
    BY <2>2, <2>3
<1>7. s2 \in {<< >>, << Msg("Offer") >>}
  BY <1>2, <1>5, <1>6, HeadOfAsked DEF Smooth
<1>8. r = Reply(v, u, d2)
  BY <1>2, <1>6, SameReply DEF Smooth
<1>9. sock["up"] \notin {"None", "Connecting"}
  BY <1>2, <1>5 DEF Calm, Orderly
<1>10. Orderly'
  BY <1>2, <1>3, <1>6, <1>9 DEF Calm, Orderly
<1>11. Smooth(v, p, u, d2, s2, r, mu, cu)
  BY <1>2, <1>6, <1>7, <1>8 DEF Smooth
<1> QED
  BY <1>2, <1>3, <1>5, <1>6, <1>10, <1>11, CalmStep

\* Its user answers.
LEMMA CalmUser ==
  ASSUME Control, Pair, Calm, UserAccepts \/ UserRejects
  PROVE  Calm'
<1>1. PICK v, p, u, d, ch, s, r, mu, cu, md, cd :
        Telling(v, p, u, d, ch, s, r, mu, cu, md, cd)
  BY CalmKnown
<1>2. /\ v = versions["up"] /\ p = payload /\ u = status["up"] /\ d = status["down"]
      /\ s = Stream("up") /\ r = Stream("down") /\ mu = mgr["up"] /\ cu = content["up"]
      /\ Smooth(v, p, u, d, s, r, mu, cu) /\ v \in Nat
  BY <1>1 DEF Telling, Known
<1>3. PICK msg \in Messages :
        /\ msg = Msg(choice')
        /\ wbuf' = [wbuf EXCEPT !["down"] = Append(wbuf["down"], msg)]
        /\ UNCHANGED <<net, rbuf>>
  BY MessageTypes DEF UserAccepts, UserRejects, Close
<1>4. Sends("down", << msg >>)
  BY <1>3, SendsOne DEF Control, Sides
<1>5. PICK d2 : d2 = status'["down"]
  OBVIOUS
<1>6. /\ d = "WaitingForUserChoice" /\ status'["up"] = u
      /\ UNCHANGED <<payload, versions, error, pc, content>>
      /\ mgr'["up"] = mu /\ sock'["up"] = sock["up"]
      /\ \/ d2 = "Transfering" /\ choice' = "Accept" /\ sock' = sock
         \/ d2 = "Rejected" /\ choice' = "Reject"
  BY <1>2, <1>5 DEF UserAccepts, UserRejects, Close, Constant, Control, Types, Sides
<1>7. u = "WaitingForPeerAnswer"
  BY <1>1, <1>6, SmoothStatuses DEF Telling
<1>8. r = << >>
  BY <1>2, <1>6, <1>7 DEF Smooth, Reply
<1>9. Stream("up")' = s /\ Stream("down")' = << msg >>
  BY <1>2, <1>4, <1>8, FewMessages, Peers DEF Sends, Sides
<1>10. << msg >> = Reply(v, u, d2)
  BY <1>3, <1>6, <1>7 DEF Reply
<1>11. Orderly'
  BY <1>2, <1>3, <1>5, <1>6, <1>9 DEF Calm, Orderly
<1>12. Smooth(v, p, u, d2, s, << msg >>, mu, cu)
  BY <1>2, <1>6, <1>7, <1>10 DEF Smooth
<1> QED
  BY <1>2, <1>5, <1>6, <1>9, <1>11, <1>12, CalmStep

\* It takes the data, and says when it is complete.
LEMMA CalmReceives ==
  ASSUME Control, Pair, Calm, Receives,
         \/ UNCHANGED <<status, error, sock, wbuf>>
         \/ /\ Close("down", Append(wbuf["down"], Msg("Completed")))
            /\ status' = [status EXCEPT !["down"] = "Completed"] /\ UNCHANGED error
            /\ status["up"] = "Transfering" /\ mgr["up"].next = End(payload)
  PROVE  Calm'
<1>1. PICK v, p, u, d, ch, s, r, mu, cu, md, cd :
        Telling(v, p, u, d, ch, s, r, mu, cu, md, cd)
  BY CalmKnown
<1>2. /\ v = versions["up"] /\ p = payload /\ u = status["up"] /\ d = status["down"]
      /\ s = Stream("up") /\ r = Stream("down") /\ mu = mgr["up"] /\ cu = content["up"]
      /\ Smooth(v, p, u, d, s, r, mu, cu) /\ v \in Nat
  BY <1>1 DEF Telling, Known
<1>3. PICK s2 : s2 = Stream("up")'
  OBVIOUS
<1>4. /\ UNCHANGED <<payload, versions>> /\ mgr'["up"] = mu /\ content'["up"] = cu
      /\ d = "Transfering" /\ rbuf'["up"] = rbuf["up"] /\ pc'["up"] = pc["up"]
  <2>1. pc \in [Sides -> Handlers] /\ rbuf \in [Sides -> Seq(Messages)]
    BY DEF Control, Types, BuffersOK
  <2> QED
    BY <1>2, <2>1 DEF Receives, Take, DownFailure, Stop, Continue, Sides
<1>5. CASE UNCHANGED <<status, error, sock, wbuf>>
  <2>1. Stream("down")' = r
    BY <1>2, <1>5, PairReceivesOn
  <2>2. Orderly'
    BY <1>2, <1>4, <1>5 DEF Calm, Orderly
  <2>3. Smooth(v, p, u, d, s2, r, mu, cu)
    BY <1>2, <1>4 DEF Smooth
  <2> QED
    BY <1>2, <1>3, <1>4, <1>5, <2>1, <2>2, <2>3, CalmStep
<1>6. CASE /\ Close("down", Append(wbuf["down"], Msg("Completed")))
           /\ status' = [status EXCEPT !["down"] = "Completed"] /\ UNCHANGED error
           /\ status["up"] = "Transfering" /\ mgr["up"].next = End(payload)
  <2>1. PICK msg \in Messages : msg = Msg("Completed")
    BY MessageTypes
  <2>2. Takes("down", << msg >>)
    <3>1. /\ Readable("down") /\ Take("down") /\ UNCHANGED net
          /\ wbuf' = [wbuf EXCEPT !["down"] = Append(wbuf["down"], msg)]
      BY <1>6, <2>1 DEF Receives, Taking, Close
    <3> QED
      BY <3>1, TakesAndSends DEF Control, Sides
  <2>3. r = << >>
    BY <1>2, <1>4, <1>6 DEF Smooth, Reply
  <2>4. Stream("down")' = << msg >>
    BY <1>2, <2>2, <2>3, FewMessages, Peers DEF Takes, Sides
  <2>5. status'["up"] = u /\ status'["down"] = "Completed" /\ sock'["up"] = sock["up"]
    BY <1>2, <1>6 DEF Close, Control, Types, Sides
  <2>6. sock["up"] \notin {"None", "Connecting"}
    BY <1>2, <1>4 DEF Calm, Orderly
  <2>7. Orderly'
    BY <1>2, <1>4, <1>6, <2>5, <2>6 DEF Calm, Orderly
  <2>8. << msg >> = Reply(v, u, "Completed")
    BY <1>2, <1>6, <2>1 DEF Reply
  <2>9. Smooth(v, p, u, "Completed", s2, << msg >>, mu, cu)
    BY <1>2, <1>6, <2>8 DEF Smooth
  <2> QED
    BY <1>2, <1>3, <1>4, <2>4, <2>5, <2>7, <2>9, CalmStep
<1> QED
  BY <1>5, <1>6

LEMMA CalmDownReceives ==
  ASSUME Control, Pair, Calm, FairWeather, ReceiveChunk \/ ReceiveChecksums
  PROVE  Calm'
<1>0. Receives
  BY ReceivesFacts
<1>1. PICK v, p, u, d, ch, s, r, mu, cu, md, cd :
        Telling(v, p, u, d, ch, s, r, mu, cu, md, cd)
  BY CalmKnown
<1>2. /\ p = payload /\ u = status["up"] /\ d = "Transfering" /\ s = Stream("up")
      /\ mu = mgr["up"] /\ cu = content["up"] /\ md = mgr["down"] /\ cd = content["down"]
      /\ IsPayload(p) /\ s \in Seq(Messages)
      /\ Data(p, u, "Transfering", s, mu, cu, md, cd)
      /\ cu \in Seq(Nat) /\ \A k \in 1 .. Len(cu) : cu[k] = k
  BY <1>0, <1>1 DEF Telling, Known, Joint, Done, Smooth, Receives
<1>3. u \in {"WaitingForPeerAnswer", "Transfering"}
  BY <1>1, <1>2, SmoothStatuses DEF Telling
<1>4. s # << >> /\ Head(s) = Incoming("down")
  <2>1. rbuf["down"] # << >>
    BY <1>0 DEF Receives, Taking, Readable
  <2> QED
    BY <1>2, <2>1, IncomingIsHead, Peers DEF Control, Sides
<1>5. CASE ReceiveChunk
  <2>1. PICK unreliable : unreliable = ("disk" \in faults)
    OBVIOUS
  <2>2. ~unreliable
    BY <2>1 DEF FairWeather
  <2>3. PICK after \in Received(p, md, Len(Head(s).data), unreliable) :
          \/ after.error
          \/ UNCHANGED <<status, error, sock, wbuf>>
    BY <1>2, <1>4, <1>5, <2>1 DEF ReceiveChunk
  <2>4. Head(s).kind = "Chunk"
    BY <1>4, <1>5 DEF ReceiveChunk, Taking
  <2>5. ~after.error
    BY <1>2, <1>3, <1>4, <2>2, <2>3, <2>4, ChunkIsTaken
  <2> QED
    BY <1>0, <2>3, <2>5, CalmReceives
<1>6. CASE ReceiveChecksums
  <2>1. PICK m \in TestChecksums(p, md, cd, Head(s).sums) :
          \/ m.error
          \/ /\ IsTransferComplete(p, m)
             /\ Close("down", Append(wbuf["down"], Msg("Completed")))
             /\ status' = [status EXCEPT !["down"] = "Completed"] /\ UNCHANGED error
          \/ UNCHANGED <<status, error, sock, wbuf>>
    BY <1>2, <1>4, <1>6 DEF ReceiveChecksums
  <2>2. Head(s).kind = "Checksums"
    BY <1>4, <1>6 DEF ReceiveChecksums, Taking
  <2>3. ~m.error /\ (IsTransferComplete(p, m) => u = "Transfering" /\ mu.next = End(p))
    BY <1>2, <1>3, <1>4, <2>1, <2>2, SumsMatch
  <2> QED
    BY <1>0, <1>2, <2>1, <2>3, CalmReceives
<1> QED
  BY <1>5, <1>6

LEMMA CalmInit == Init /\ FairWeather => Calm
<1> SUFFICES ASSUME Init, FairWeather
             PROVE  Calm
  OBVIOUS
<1>1. /\ status["up"] = "Init" /\ status["down"] = "None" /\ error = Both("None", "None")
      /\ sock["up"] = "None" /\ sock["down"] = "None" /\ pc["up"] = "Loop"
      /\ rbuf["up"] = << >> /\ content["up"] = << >>
      /\ versions["up"] = versions["down"]
  BY DEF Init, Environment, FairWeather, Both, Sides
<1>2. Stream("up") = << >> /\ Stream("down") = << >>
  <2>1. << >> \o << >> \o << >> = << >>
    BY MessageTypes, ConcatEmptySeq
  <2> QED
    BY <2>1, Peers DEF Init, Both, Sides, Stream, Joined
<1>3. Orderly
  BY <1>1, <1>2 DEF Orderly
<1>4. \A k \in 1 .. Len(content["up"]) : content["up"][k] = k
  <2>1. Len(<< >>) = 0
    BY EmptySeq
  <2> QED
    BY <1>1, <2>1
<1>5. Reply(versions["up"], "Init", "None") = << >>
  BY DEF Reply
<1> QED
  BY <1>1, <1>2, <1>3, <1>4, <1>5 DEF Calm, Smooth

LEMMA NextConstant == [Next]_vars => Constant
<1> SUFFICES ASSUME [Next]_vars
             PROVE  Constant
  OBVIOUS
<1>1. ASSUME NEW e \in Sides, Handle(e)
      PROVE  Constant
  BY <1>1 DEF Handle, Write, Arrive, Timer, Starved, RemoteClosed, Reset, ReceiveHandshake,
              SocketError, VersionMismatch, ProtocolError, ReceiveError
<1>2. ASSUME NEW e \in Sides, NetworkError(e)
      PROVE  Constant
  BY <1>2 DEF NetworkError, SocketError
<1>3. UpStep => Constant
  BY <1>1 DEF UpStep, Sides, Connect, Connected, ReceiveAccept, ReceiveReject,
              ReceiveCompleted, SendNextChunk, RefillEnds, SendFails, UpFlush, UpFlushEnds
<1>4. DownStep => Constant
  BY <1>1 DEF DownStep, Sides, NewDownload, ReceiveOffer, ReceiveChunk, ReceiveChecksums,
              ReceiveChecksumsUnheard
<1>5. User => Constant
  BY DEF User, UserAccepts, UserRejects, UserRejectsUnheard
<1> QED
  BY <1>2, <1>3, <1>4, <1>5 DEF Next, Constant, vars

LEMMA CalmNext ==
  Control /\ Pair /\ (FairWeather => Calm) /\ [Next]_vars => (FairWeather => Calm)'
<1> SUFFICES ASSUME Control, Pair, FairWeather => Calm, [Next]_vars, FairWeather'
             PROVE  Calm'
  OBVIOUS
<1>1. UNCHANGED <<faults, changed>>
  BY NextConstant DEF Constant
<1>2. FairWeather /\ Calm
  BY <1>1 DEF FairWeather
<1>3. ASSUME NEW e \in Sides, Handle(e)
      PROVE  Calm'
  <2>1. ~Aborting(e) /\ ~VersionMismatch(e) /\ ~ReceiveError(e)
    BY <1>2, NoFailures
  <2>2. CASE ReceiveHandshake(e)
    BY <1>2, <2>2, CalmUpGreets, CalmDownAsks DEF Sides
  <2>3. CASE Write(e) \/ Arrive(e) \/ Timer(e) \/ Starved(e)
    BY <1>2, <2>3, CalmMoving
  <2> QED
    BY <1>3, <2>1, <2>2, <2>3 DEF Handle, Aborting
<1>4. CASE UpStep
  <2>1. ~SendFails /\ ~UpFlush /\ ~UpFlushEnds /\ "up" \in Sides
    BY <1>2, NoFailures DEF Sides
  <2> QED
    BY <1>2, <1>3, <1>4, <2>1, CalmConnects, CalmUpAnswered, CalmUpSends DEF UpStep
<1>5. CASE DownStep
  <2>1. ~ReceiveChecksumsUnheard
    BY <1>2, NoFailures DEF FailsUnheard, Sides
  <2> QED
    BY <1>2, <1>3, <1>5, <2>1, CalmNewDownload, CalmDownAsks, CalmDownReceives DEF DownStep, Sides
<1>6. CASE User
  <2>1. ~UserRejectsUnheard
    BY <1>2, NoFailures DEF FailsUnheard, Sides
  <2> QED
    BY <1>2, <1>6, <2>1, CalmUser DEF User
<1>7. CASE \E e \in Sides : NetworkError(e)
  BY <1>2, <1>7, NoFailures
<1>8. CASE UNCHANGED vars
  <2>1. Stream("up")' = Stream("up") /\ Stream("down")' = Stream("down")
    BY <1>8 DEF vars, Stream
  <2> QED
    BY <1>2, <1>8, <2>1 DEF vars, Calm, Orderly
<1> QED
  BY <1>4, <1>5, <1>6, <1>7, <1>8 DEF Next

\* When nothing goes wrong around them, neither side reports an error: the
\* notice of the download is read before the end of its connection, no message
\* is unexpected, and every checksum matches (on_data_received, on_socket_error,
\* close_connection, receive_message and test_checksums).
THEOREM NothingGoesWrong == Spec => []NoError
<1>1. (FairWeather => Calm) => NoError
  BY DEF FairWeather, Calm, Orderly, NoError
<1>2. Init => Control /\ Pair /\ (FairWeather => Calm)
  BY PairInit, CalmInit
<1>3. Control /\ Pair /\ (FairWeather => Calm) /\ [Next]_vars =>
        (Control /\ Pair /\ (FairWeather => Calm))'
  BY ControlNext, PairNext, CalmNext
<1> QED
  BY <1>1, <1>2, <1>3, PTL DEF Spec

----------------------------------------------------------------------------
(* The contract. *)

Outcomes == {"Open", "Completed", "Rejected", "Error"}

ContractTypeOK ==
  /\ Outcome("up") \in Outcomes /\ Outcome("down") \in Outcomes
  /\ choice \in {"None", "Accept", "Reject"}
  /\ Delivered \in BOOLEAN

\* What the receiver reports is what its user chose, and delivered follows
\* the reports; after a failure of the receiver the sender has no good news.
\* Without the two last conjuncts Report would not preserve Agreement.
ContractInv ==
  /\ ContractTypeOK
  /\ Contract!Agreement
  /\ Outcome("down") = "Completed" => choice = "Accept" /\ Delivered
  /\ Outcome("down") = "Rejected" => choice = "Reject" /\ ~Delivered
  /\ choice = "Reject" => ~Delivered /\ Outcome("down") # "Open"
  /\ choice = "None" => ~Delivered

LEMMA ContractInitInv == Contract!Init => ContractInv
  BY DEF Contract!Init, ContractInv, ContractTypeOK, Contract!Agreement, Outcomes

LEMMA ContractStepInv == ContractInv /\ [Contract!Next]_(Contract!vars) => ContractInv'
  <1> SUFFICES ASSUME ContractInv, [Contract!Next]_(Contract!vars) PROVE ContractInv'
    OBVIOUS
  <1> USE DEF ContractInv, ContractTypeOK, Contract!Agreement, Outcomes
  <1>1. CASE Contract!Accept
    BY <1>1 DEF Contract!Accept
  <1>2. CASE Contract!Reject
    BY <1>2 DEF Contract!Reject
  <1>3. CASE Contract!Deliver
    BY <1>3 DEF Contract!Deliver
  <1>4. CASE Contract!Report
    BY <1>4 DEF Contract!Report
  <1>5. CASE Contract!FailUp
    BY <1>5 DEF Contract!FailUp
  <1>6. CASE Contract!FailDown
    BY <1>6 DEF Contract!FailDown
  <1>7. CASE UNCHANGED Contract!vars
    BY <1>7 DEF Contract!vars
  <1> QED
    BY <1>1, <1>2, <1>3, <1>4, <1>5, <1>6, <1>7 DEF Contract!Next

\* Whatever fails and when, a transfer that keeps the contract never reports
\* Completed or Rejected to the user of the upload unless this is how the
\* download ended, by the choice of its user, and with the files complete.
THEOREM ContractAgreement == Contract!Spec => []Contract!Agreement
  <1>1. ContractInv => Contract!Agreement
    BY DEF ContractInv
  <1> QED
    BY <1>1, ContractInitInv, ContractStepInv, PTL DEF Contract!Spec

\* So it is of every transfer: what Upload::set_status tells its user agrees
\* with what Download::set_status told the other one.
THEOREM TransferAgrees == Spec => []Contract!Agreement
  <1> QED
    BY TransferKeepsContract, ContractAgreement, PTL DEF ImplementsContract

----------------------------------------------------------------------------
(* Nobody waits for ever: when no handler has anything to do, both sides     *)
(* have ended.  The invariant says who has something to do until then.       *)

EndsWith(s, kind) == s # << >> /\ s[Len(s)].kind = kind

\* A side that listens has read what came, or is about to.
ReadsOn ==
  \A e \in Sides :
    /\ sock[e] \in {"None", "Connecting"} => rbuf[e] = << >>
    /\ sock[e] = "Connected" /\ pc[e] \in {"Loop", "Written"} /\ calls[e] = 0 => ~Readable(e)

\* A side that has started has a connection, or gets one.
Opened ==
  /\ status["up"] = "Init" => sock["down"] = "None"
  /\ status["up"] = "Starting" =>
       sock["up"] \in {"Connecting", "Connected"} \/ "unreachable" \in faults
  /\ status["down"] = "Starting" => sock["down"] = "Connected"

\* What a side waits for is on its way: the handshakes, the offer, the answer.
Asked ==
  /\ status["up"] = "Starting" /\ sock["up"] \in {"Connecting", "Connected"}
       /\ sock["down"] = "Connected" => Stream("down") # << >>
  /\ sock["up"] = "Connected" /\ status["down"] \in {"None", "Starting"} => Stream("up") # << >>
  /\ status["up"] = "WaitingForPeerAnswer" /\ status["down"] \in Asking =>
       EndsWith(Stream("up"), "Offer")
  /\ status["up"] = "WaitingForPeerAnswer" /\ status["down"] = "Transfering" =>
       EndsWith(Stream("down"), "Accept")

\* A sender that is not refilling its buffer has something in it, unless all
\* is sent; it stands where the loop of its last chunk stopped.
Refilled ==
  status["up"] = "Transfering" =>
    /\ pc["up"] \in {"Loop", "Reading"} /\ mgr["up"].total < TotalSize(payload) =>
         wbuf["up"] # << >>
    /\ \/ mgr["up"].total = 0
       \/ /\ mgr["up"].next = mgr["up"].current
          /\ StopsAt(payload, mgr["up"].current, mgr["up"].total)

Flow == ReadsOn /\ Opened /\ Asked /\ Refilled

LEMMA EndsAppended ==
  ASSUME NEW s \in Seq(Messages), NEW m \in Messages
  PROVE  EndsWith(s \o << m >>, m.kind) /\ s \o << m >> # << >>
<1>1. PICK t : t = s \o << m >>
  OBVIOUS
<1>2. t \in Seq(Messages) /\ Len(t) = Len(s) + 1 /\ t[Len(s) + 1] = m /\ Len(s) \in Nat
  BY <1>1, OneMore, AppendProperties, LenProperties
<1>3. t # << >>
  BY <1>2, EmptySeq
<1> QED
  BY <1>1, <1>2, <1>3 DEF EndsWith

LEMMA EndsTail ==
  ASSUME NEW s \in Seq(Messages), NEW kind, EndsWith(s, kind), Head(s).kind # kind
  PROVE  EndsWith(Tail(s), kind)
<1>1. /\ Tail(s) \in Seq(Messages) /\ Len(Tail(s)) = Len(s) - 1 /\ Head(s) = s[1]
      /\ \A i \in 1 .. Len(Tail(s)) : Tail(s)[i] = s[i + 1]
      /\ Len(s) \in Nat \ {0} /\ s[Len(s)].kind = kind
  BY HeadTailProperties, LenProperties, EmptySeq DEF EndsWith
<1>2. PICK t, n : t = Tail(s) /\ n = Len(s)
  OBVIOUS
<1>3. n # 1 /\ n \in Nat \ {0}
  BY <1>1, <1>2
<1>4. /\ t \in Seq(Messages) /\ Len(t) = n - 1 /\ \A i \in 1 .. n - 1 : t[i] = s[i + 1]
      /\ s[n].kind = kind
  BY <1>1, <1>2
<1>5. n - 1 \in 1 .. n - 1 /\ (n - 1) + 1 = n
  BY <1>3
<1>6. t[n - 1] = s[n]
  BY <1>4, <1>5
<1>7. t # << >>
  BY <1>3, <1>4, EmptySeq
<1> QED
  BY <1>2, <1>4, <1>6, <1>7 DEF EndsWith

\* Nothing is asked anew when the statuses and what is on its way stay.
LEMMA AskedKept ==
  ASSUME Asked, UNCHANGED status, Stream("up")' = Stream("up"), Stream("down")' = Stream("down"),
         \A e \in Sides : sock'[e] \in {"Connecting", "Connected"} => sock'[e] = sock[e]
  PROVE  Asked'
BY DEF Asked, Sides

\* The handlers that end the transfer of e.
Gone(e) ==
  /\ status[e] \notin {"Init", "None"}
  /\ status' = [status EXCEPT ![e] = status'[e]] /\ status'[e] \in Final
  /\ sock' = [sock EXCEPT ![e] = sock'[e]] /\ sock'[e] \in {"Unconnected", "Closing"}
  /\ UNCHANGED <<payload, faults>>
  /\ pc'[Peer(e)] = pc[Peer(e)] /\ calls'[Peer(e)] = calls[Peer(e)]
  /\ rbuf'[Peer(e)] = rbuf[Peer(e)] /\ wbuf'[Peer(e)] = wbuf[Peer(e)]
  /\ mgr'[Peer(e)] = mgr[Peer(e)]

LEMMA FlowEnds ==
  ASSUME Control, Flow, NEW e \in Sides, Gone(e)
  PROVE  Flow'
<1>1. /\ status'[e] \in Final /\ status'[Peer(e)] = status[Peer(e)]
      /\ sock'[e] \in {"Unconnected", "Closing"} /\ sock'[Peer(e)] = sock[Peer(e)]
      /\ status[e] \notin {"Init", "None"}
  BY Peers DEF Gone, Control, Types
<1>2. ReadsOn'
  BY <1>1, Peers DEF Gone, Flow, ReadsOn, Readable, Incoming
<1>3. Opened'
  <2>1. CASE e = "up"
    BY <1>1, <2>1, Peers DEF Gone, Flow, Opened, Final
  <2>2. CASE e = "down"
    BY <1>1, <2>2, Peers DEF Gone, Flow, Opened, Final, Control, Sockets, Sides
  <2> QED
    BY <2>1, <2>2 DEF Sides
<1>4. Asked'
  <2>1. CASE e = "up"
    BY <1>1, <2>1, Peers DEF Asked, Final
  <2>2. CASE e = "down"
    BY <1>1, <2>2, Peers DEF Asked, Final, Asking
  <2> QED
    BY <2>1, <2>2 DEF Sides
<1>5. Refilled'
  <2>1. CASE e = "up"
    BY <1>1, <2>1 DEF Refilled, Final
  <2>2. CASE e = "down"
    BY <1>1, <2>2, Peers DEF Gone, Flow, Refilled
  <2> QED
    BY <2>1, <2>2 DEF Sides
<1> QED
  BY <1>2, <1>3, <1>4, <1>5 DEF Flow

LEMMA FlowMoving ==
  ASSUME Control, Flow, NEW e \in Sides, Write(e) \/ Arrive(e) \/ Timer(e) \/ Starved(e)
  PROVE  Flow'
<1>1. /\ UNCHANGED <<payload, faults, status, mgr>> /\ Keeps(e)
      /\ \A d \in Sides : sock'[d] = sock[d]
                            \/ (sock[d] = "Closing" /\ sock'[d] = "Unconnected")
      /\ pc'[Peer(e)] = pc[Peer(e)] /\ calls'[Peer(e)] = calls[Peer(e)]
      /\ rbuf'[Peer(e)] = rbuf[Peer(e)] /\ wbuf'[Peer(e)] = wbuf[Peer(e)]
  <2>1. Keeps(e)
    BY MovingKeeps DEF Moving, Control
  <2> QED
    BY <2>1, Peers DEF Write, Arrive, Timer, Starved, Stop, Constant, Control, Types, BuffersOK
<1>2. Stream("up")' = Stream("up") /\ Stream("down")' = Stream("down")
  BY <1>1, Peers DEF Keeps, Sides
<1>3. \A d \in Sides : /\ sock'[d] = "Connected" => sock[d] = "Connected"
                       /\ sock'[d] \in {"None", "Connecting"} => sock[d] = sock'[d]
  BY <1>1
<1>4. ReadsOn'
  <2>1. /\ sock[e] \in {"None", "Connecting"} => rbuf'[e] = rbuf[e]
        /\ sock'[e] = "Connected" /\ pc'[e] \in {"Loop", "Written"} /\ calls'[e] = 0 =>
             /\ rbuf'[e] = rbuf[e]
             /\ ~Readable(e) \/ (pc[e] \in {"Loop", "Written"} /\ calls[e] = 0)
    <3>1. CASE Write(e)
      BY <3>1 DEF Write
    <3>2. CASE Arrive(e)
      BY <3>2 DEF Arrive, Control, Types
    <3>3. CASE Timer(e)
      BY <3>3 DEF Timer, Control, Types
    <3>4. CASE Starved(e)
      BY <3>4 DEF Starved, Stop
    <3> QED
      BY <3>1, <3>2, <3>3, <3>4
  <2>2. rbuf'[e] = rbuf[e] => (Readable(e)' <=> Readable(e))
    BY DEF Readable, Incoming
  <2>3. Readable(Peer(e))' <=> Readable(Peer(e))
    BY <1>1 DEF Readable, Incoming
  <2> QED
    BY <1>1, <1>3, <2>1, <2>2, <2>3, Peers DEF Flow, ReadsOn
<1>5. Opened'
  BY <1>1 DEF Flow, Opened, Sides
<1>6. Asked'
  BY <1>1, <1>2, AskedKept DEF Flow
<1>7. Refilled'
  <2>1. CASE e = "up"
    <3>1. pc'["up"] \in {"Loop", "Reading"} /\ status["up"] = "Transfering" =>
            pc["up"] \in {"Loop", "Reading"} /\ wbuf' = wbuf
      BY <2>1 DEF Write, Arrive, Timer, Starved, Control, Types, Sides
    <3> QED
      BY <1>1, <3>1 DEF Flow, Refilled
  <2>2. CASE e = "down"
    BY <1>1, <2>2, Peers DEF Flow, Refilled
  <2> QED
    BY <2>1, <2>2 DEF Sides
<1> QED
  BY <1>4, <1>5, <1>6, <1>7 DEF Flow

\* A step that changes nothing of this.
LEMMA FlowRefills ==
  ASSUME Control, Flow, RefillEnds \/ UpFlush
  PROVE  Flow'
<1>1. /\ UNCHANGED <<payload, faults, status, mgr, sock, rbuf>> /\ Keeps("up")
  <2>1. Keeps("up")
    BY MovingKeeps DEF Moving, Control, Sides
  <2> QED
    BY <2>1 DEF RefillEnds, UpFlush, Constant
<1>2. Stream("up")' = Stream("up") /\ Stream("down")' = Stream("down")
  BY <1>1, Peers DEF Keeps, Sides
<1>3. /\ pc'["down"] = pc["down"] /\ calls'["down"] = calls["down"]
      /\ pc'["up"] \in {"Loop", "Written"} /\ calls'["up"] = 0 =>
           pc["up"] = "Written" /\ calls["up"] = 0
  <2>1. CASE pc["up"] = "Accepted" /\ Continue("up")
    BY <2>1 DEF Continue, Control, Types, Sides
  <2>2. CASE ~(pc["up"] = "Accepted" /\ Continue("up"))
    BY <2>2 DEF RefillEnds, RefillReturns, Stop, UpFlush, Control, Types, Sides
  <2> QED
    BY <2>1, <2>2
<1>4. ReadsOn'
  <2>1. \A d \in Sides : Readable(d)' <=> Readable(d)
    BY <1>1 DEF Readable, Incoming
  <2> QED
    BY <1>1, <1>3, <2>1 DEF Flow, ReadsOn, Sides
<1>5. Opened' /\ Asked'
  BY <1>1, <1>2, AskedKept DEF Flow, Opened
<1>6. Refilled'
  <2>1. CASE RefillEnds
    <3>1. Len(wbuf["up"]) < WriteLimit \/ wbuf["up"] # << >>
      BY ControlFacts DEF Sides
    <3>2. Len(wbuf["up"]) = 0 <=> wbuf["up"] = << >>
      BY ControlFacts DEF Sides
    <3>3. wbuf' = wbuf /\ ~MayRefill(wbuf["up"])
      BY <2>1 DEF RefillEnds
    <3>4. mgr["up"].total < TotalSize(payload) => wbuf["up"] # << >>
      BY <3>2, <3>3, ControlFacts DEF MayRefill
    <3> QED
      BY <1>1, <3>3, <3>4 DEF Flow, Refilled
  <2>2. CASE UpFlush
    BY <1>1, <2>2 DEF UpFlush, Flow, Refilled, Control, Types, Sides
  <2> QED
    BY <2>1, <2>2
<1> QED
  BY <1>4, <1>5, <1>6 DEF Flow

LEMMA FlowConnects ==
  ASSUME Control, Pair, Flow, Connect \/ Connected \/ NewDownload
  PROVE  Flow'
<1>1. CASE Connect
  <2>1. /\ UNCHANGED <<payload, faults, pc, calls, wbuf, net, rbuf, mgr>>
        /\ status["up"] = "Init" /\ status'["up"] = "Starting" /\ status'["down"] = status["down"]
        /\ sock'["down"] = sock["down"]
        /\ \/ sock'["up"] = "Connecting"
           \/ sock'["up"] = "Unconnected" /\ "unreachable" \in faults
    BY <1>1 DEF Connect, Constant, Control, Types, Sides
  <2>2. sock["up"] = "None" /\ sock["down"] = "None" /\ rbuf["up"] = << >>
    BY <2>1 DEF Flow, ReadsOn, Opened, Control, Sockets, Sides
  <2>3. ReadsOn'
    BY <2>1, <2>2 DEF Flow, ReadsOn, Readable, Incoming, Sides
  <2>4. Opened' /\ Asked' /\ Refilled'
    BY <2>1, <2>2 DEF Flow, Opened, Asked, Refilled
  <2> QED
    BY <2>3, <2>4 DEF Flow
<1>2. CASE Connected
  <2>1. /\ UNCHANGED <<payload, faults, status, pc, calls, net, rbuf, mgr>>
        /\ sock["up"] = "Connecting" /\ sock'["up"] = "Connected" /\ sock'["down"] = sock["down"]
        /\ wbuf'["down"] = wbuf["down"]
    BY <1>2 DEF Connected, Constant, Control, Types, BuffersOK, Sides
  <2>2. rbuf["up"] = << >> /\ status["up"] = "Starting"
    BY <2>1 DEF Flow, ReadsOn, Control, Sockets, Sides
  <2>3. Stream("up")' # << >> /\ Stream("down")' = Stream("down")
    <3>1. PICK m : m = HandshakeMsg(versions["up"])
      OBVIOUS
    <3>2. m \in Messages /\ wbuf["up"] = << >> /\ wbuf' = [wbuf EXCEPT !["up"] = << m >>]
      BY <1>2, <3>1, MessageTypes DEF Connected, Control, Types, Sockets, Sides
    <3>3. Sends("up", << m >>)
      BY <2>1, <3>2, SendsOne DEF Control, Sides
    <3>4. PICK s : s = Stream("up")
      OBVIOUS
    <3>5. s \in Seq(Messages)
      BY <3>4, StreamType DEF Control, Sides
    <3>6. s \o << m >> # << >>
      BY <3>2, <3>5, EndsAppended
    <3>7. Stream("up")' = s \o << m >>
      BY <3>3, <3>4 DEF Sends
    <3>8. Stream("down")' = Stream("down")
      BY <3>3, Peers DEF Sends, Sides
    <3> QED
      BY <3>6, <3>7, <3>8
  <2>4. ReadsOn'
    BY <2>1, <2>2 DEF Flow, ReadsOn, Readable, Incoming, Sides
  <2>5. Opened' /\ Asked' /\ Refilled'
    BY <2>1, <2>2, <2>3 DEF Flow, Opened, Asked, Refilled
  <2> QED
    BY <2>4, <2>5 DEF Flow
<1>3. CASE NewDownload
  <2>1. /\ UNCHANGED <<payload, faults, pc, calls, net, rbuf, mgr>>
        /\ status["down"] = "None" /\ status'["down"] = "Starting" /\ status'["up"] = status["up"]
        /\ sock["up"] \in {"Connecting", "Connected"}
        /\ sock'["down"] = "Connected" /\ sock'["up"] = sock["up"]
        /\ wbuf'["up"] = wbuf["up"]
    BY <1>3 DEF NewDownload, Constant, Control, Types, BuffersOK, Sides
  <2>2. rbuf["down"] = << >> /\ status["up"] # "Init" /\ sock["down"] = "None"
    BY <2>1 DEF Flow, ReadsOn, Control, Sockets, Sides
  <2>3. Stream("down")' # << >> /\ Stream("up")' = Stream("up")
    <3>1. PICK m : m = HandshakeMsg(versions["down"])
      OBVIOUS
    <3>2. m \in Messages /\ wbuf["down"] = << >> /\ wbuf' = [wbuf EXCEPT !["down"] = << m >>]
      BY <1>3, <2>2, <3>1, MessageTypes DEF NewDownload, Control, Types, Sockets, Sides
    <3>3. Sends("down", << m >>)
      BY <2>1, <3>2, SendsOne DEF Control, Sides
    <3>4. PICK s : s = Stream("down")
      OBVIOUS
    <3>5. s \in Seq(Messages)
      BY <3>4, StreamType DEF Control, Sides
    <3>6. s \o << m >> # << >>
      BY <3>2, <3>5, EndsAppended
    <3>7. Stream("down")' = s \o << m >>
      BY <3>3, <3>4 DEF Sends
    <3>8. Stream("up")' = Stream("up")
      BY <3>3, Peers DEF Sends, Sides
    <3> QED
      BY <3>6, <3>7, <3>8
  <2>4. ReadsOn'
    BY <2>1, <2>2 DEF Flow, ReadsOn, Readable, Incoming, Sides
  <2>5. Opened' /\ Refilled'
    BY <2>1, <2>2, <2>3 DEF Flow, Opened, Refilled
  <2>6. Asked'
    BY <2>1, <2>2, <2>3 DEF Flow, Asked, Asking
  <2> QED
    BY <2>4, <2>5, <2>6 DEF Flow
<1> QED
  BY <1>1, <1>2, <1>3

\* What the handlers that read leave of the messages that are read.
LEMMA FlowUpReads ==
  ASSUME Control, Pair, Flow,
         \/ ReceiveHandshake("up") \/ ReceiveAccept
         \/ ReceiveError("up") /\ status["up"] = "Transfering"
  PROVE  Flow'
<1>1. /\ UNCHANGED <<payload, faults, sock>> /\ status'["down"] = status["down"]
      /\ pc'["down"] = pc["down"] /\ calls' = calls /\ rbuf'["down"] = rbuf["down"]
      /\ pc'["up"] \in {"Reading", "Accepted", "Flush"} /\ rbuf["up"] # << >>
  BY DEF ReceiveHandshake, ReceiveAccept, ReceiveError, Taking, Readable, Take, Constant, Control,
         Types, BuffersOK, Sides, Stop, Handling
<1>2. sock["up"] \notin {"None", "Connecting"}
  BY <1>1 DEF Flow, ReadsOn, Sides
<1>3. ReadsOn'
  BY <1>1, <1>2 DEF Flow, ReadsOn, Readable, Incoming, Sides
<1>4. PICK p, u, d, ch, s, r, mu, cu, md, cd :
        /\ Known(p, u, d, ch, s, r, mu, cu, md, cd)
        /\ Agreed(p, u, d, ch, s, r, md, cd)
        /\ s \in Seq(Messages)
  BY PairKnown DEF Joint
<1>5. u = status["up"] /\ d = status["down"] /\ s = Stream("up") /\ r = Stream("down")
  BY <1>4 DEF Known
<1>6. CASE ReceiveHandshake("up")
  <2>1. PICK m : m = Msg("Offer")
    OBVIOUS
  <2>2. m \in Messages /\ m.kind = "Offer"
    BY <2>1, MessageTypes
  <2>3. Takes("up", << m >>)
    BY <1>6, <2>1, <2>2, TakesAndSends DEF ReceiveHandshake, Taking, Control, Sides
  <2>4. Stream("up")' = s \o << m >>
    BY <1>5, <2>3 DEF Takes
  <2>5. EndsWith(s \o << m >>, "Offer") /\ s \o << m >> # << >>
    BY <1>4, <2>2, EndsAppended
  <2>6. u = "Starting" /\ status'["up"] = "WaitingForPeerAnswer"
    BY <1>5, <1>6 DEF ReceiveHandshake, Taking, Control, Greeting, Types, Sides
  <2>7. d # "Transfering"
    BY <1>4, <2>6 DEF Agreed, Before
  <2>8. Opened' /\ Asked' /\ Refilled'
    BY <1>1, <1>5, <2>4, <2>5, <2>6, <2>7 DEF Flow, Opened, Asked, Refilled
  <2> QED
    BY <1>3, <2>8 DEF Flow
<1>7. CASE ReceiveAccept
  <2>1. u = "WaitingForPeerAnswer" /\ status'["up"] = "Transfering" /\ pc'["up"] = "Accepted"
        /\ mgr'["up"] = StartTransfer(mgr["up"], "Sending")
    BY <1>5, <1>7 DEF ReceiveAccept, Expected, Control, Types, Sides
  <2>2. Takes("up", << >>)
    BY <1>7, TakesOnly DEF ReceiveAccept, Taking, Control, Sides
  <2>3. Stream("up")' = s
    BY <1>4, <1>5, <2>2, ConcatEmptySeq DEF Takes
  <2>4. Opened' /\ Asked'
    BY <1>1, <1>5, <2>1, <2>3 DEF Flow, Opened, Asked
  <2>5. mgr'["up"].total = 0
    BY <2>1 DEF StartTransfer
  <2>6. Refilled'
    BY <2>1, <2>5 DEF Refilled
  <2> QED
    BY <1>3, <2>4, <2>6 DEF Flow
<1>8. CASE ReceiveError("up") /\ status["up"] = "Transfering"
  <2>1. UNCHANGED <<status, mgr, wbuf, net>> /\ pc'["up"] = "Flush"
    BY <1>8 DEF ReceiveError, Control, Types, Sides
  <2>2. Takes("up", << >>)
    BY <1>8, <2>1, TakesOnly DEF ReceiveError, Taking, Control, Sides
  <2>3. Stream("up")' = s
    BY <1>4, <1>5, <2>2, ConcatEmptySeq DEF Takes
  <2>4. Opened' /\ Asked' /\ Refilled'
    BY <1>1, <1>5, <1>8, <2>1, <2>3 DEF Flow, Opened, Asked, Refilled
  <2> QED
    BY <1>3, <2>4 DEF Flow
<1> QED
  BY <1>6, <1>7, <1>8

LEMMA FlowSends ==
  ASSUME Control, Pair, Flow, SendNextChunk
  PROVE  Flow'
<1>1. /\ UNCHANGED <<payload, faults, status, sock, rbuf>> /\ status["up"] = "Transfering"
      /\ pc'["down"] = pc["down"] /\ calls'["down"] = calls["down"]
  BY DEF SendNextChunk, RefillReturns, Continue, Stop, Constant, Control, Types, Handling, Sides
<1>2. pc'["up"] \in {"Loop", "Written"} /\ calls'["up"] = 0 =>
        pc["up"] = "Written" /\ calls["up"] = 0
  <2>1. CASE pc["up"] = "Accepted" /\ Continue("up")
    BY <2>1 DEF Continue, Control, Types, Sides
  <2>2. CASE ~(pc["up"] = "Accepted" /\ Continue("up"))
    <3>1. (pc["up"] \in Refilling /\ UNCHANGED <<pc, calls>>) \/ RefillReturns
      BY Zenon DEF SendNextChunk
    <3> QED
      BY <2>2, <3>1 DEF RefillReturns, Stop, Control, Types, Sides, Refilling
  <2> QED
    BY <2>1, <2>2
<1>3. ReadsOn'
  <2>1. \A e \in Sides : Readable(e)' <=> Readable(e)
    BY <1>1 DEF Readable, Incoming
  <2> QED
    BY <1>1, <1>2, <2>1 DEF Flow, ReadsOn, Sides
<1>4. status["down"] \notin {"None", "Starting"}
  <2>1. PICK p, u, d, ch, s, r, mu, cu, md, cd :
          /\ Known(p, u, d, ch, s, r, mu, cu, md, cd)
          /\ Agreed(p, u, d, ch, s, r, md, cd)
    BY PairKnown DEF Joint
  <2> QED
    BY <1>1, <2>1 DEF Known, Agreed, Before, Consent, Asking, Unanswered, Final
<1>5. Opened' /\ Asked'
  BY <1>1, <1>4 DEF Flow, Opened, Asked
<1>6. PICK n \in 1 .. Remaining(payload, mgr["up"]) :
      \E after \in Moved(payload, mgr["up"], n), msgs \in Seq(Messages) :
        /\ Len(msgs) \in 1 .. 2 /\ wbuf' = [wbuf EXCEPT !["up"] = wbuf["up"] \o msgs]
        /\ mgr'["up"] = TakePendingChecksums(payload, after)
  BY SendFacts
<1>7. PICK after \in Moved(payload, mgr["up"], n), msgs \in Seq(Messages) :
        /\ Len(msgs) \in 1 .. 2 /\ wbuf' = [wbuf EXCEPT !["up"] = wbuf["up"] \o msgs]
        /\ mgr'["up"] = TakePendingChecksums(payload, after)
  BY <1>6
<1>8. wbuf'["up"] # << >>
  <2>1. PICK w : w = wbuf["up"]
    OBVIOUS
  <2>2. w \in Seq(Messages) /\ Len(w) \in Nat /\ wbuf'["up"] = w \o msgs
    BY <1>7, <2>1, LenProperties DEF Control, BuffersOK, Sides
  <2>3. Len(w \o msgs) = Len(w) + Len(msgs) /\ w \o msgs \in Seq(Messages)
    BY <2>2, ConcatProperties
  <2>4. Len(w \o msgs) # 0
    BY <1>7, <2>2, <2>3
  <2> QED
    BY <2>2, <2>3, <2>4, EmptySeq
<1>9. mgr'["up"].next = mgr'["up"].current
      /\ StopsAt(payload, mgr'["up"].current, mgr'["up"].total)
  <2>1. PICK m : m = mgr["up"]
    OBVIOUS
  <2>2. IsPayload(payload) /\ m \in Managers(payload) /\ Position(m) \in Positions(payload)
    BY <1>1, <2>1, ControlFacts DEF Control, Sending, Sender
  <2>3. after \in Moved(payload, m, n) /\ n \in 1 .. Remaining(payload, m)
    BY <1>7, <2>1
  <2>4. /\ after \in Managers(payload) /\ Position(after) \in Positions(payload)
        /\ AfterChunk(payload, Position(m), n, Position(after))
    BY <2>2, <2>3, MovedPosition
  <2>5. Position(mgr'["up"]) = AfterChecksums(Position(after))
        /\ mgr'["up"].total = after.total
    BY <1>7, <2>2, <2>4, ChecksummedPosition DEF TakePendingChecksums
  <2> QED
    BY <2>4, <2>5 DEF Position, AfterChecksums, AfterChunk
<1>10. Refilled'
  BY <1>1, <1>8, <1>9 DEF Refilled
<1> QED
  BY <1>3, <1>5, <1>10 DEF Flow

\* A handler of the download that leaves its connection open.
LEMMA FlowDownGoesOn ==
  ASSUME Control, Flow, UNCHANGED <<payload, faults, sock>>,
         status'["up"] = status["up"], mgr'["up"] = mgr["up"], wbuf'["up"] = wbuf["up"],
         pc'["up"] = pc["up"], calls'["up"] = calls["up"], rbuf'["up"] = rbuf["up"],
         sock["down"] = "Connected", status'["down"] # "Starting",
         \/ pc'["down"] = "Reading" \/ calls'["down"] # 0
         \/ UNCHANGED <<pc, calls, rbuf>>,
         Asked'
  PROVE  Flow'
<1>1. ReadsOn'
  BY DEF Flow, ReadsOn, Readable, Incoming, Sides
<1>2. Opened' /\ Refilled'
  BY DEF Flow, Opened, Refilled
<1> QED
  BY <1>1, <1>2 DEF Flow

LEMMA FlowDown ==
  ASSUME Control, Pair, Flow,
         \/ ReceiveHandshake("down") \/ ReceiveOffer \/ UserAccepts
         \/ Receives /\ Continue("down") /\ UNCHANGED <<status, error, sock, wbuf>>
  PROVE  Flow'
<1>1. PICK p, u, d, ch, s, r, mu, cu, md, cd :
        /\ Known(p, u, d, ch, s, r, mu, cu, md, cd)
        /\ Agreed(p, u, d, ch, s, r, md, cd)
        /\ s \in Seq(Messages) /\ r \in Seq(Messages)
  BY PairKnown DEF Joint
<1>2. u = status["up"] /\ d = status["down"] /\ s = Stream("up") /\ r = Stream("down")
  BY <1>1 DEF Known
<1>3. /\ UNCHANGED <<payload, faults, sock>>
      /\ status'["up"] = status["up"] /\ mgr'["up"] = mgr["up"] /\ wbuf'["up"] = wbuf["up"]
      /\ pc'["up"] = pc["up"] /\ calls'["up"] = calls["up"] /\ rbuf'["up"] = rbuf["up"]
  BY DEF ReceiveHandshake, ReceiveOffer, UserAccepts, Receives, Take, Continue, Constant,
         Control, Types, BuffersOK, Sides
<1>4. \/ pc'["down"] = "Reading" \/ calls'["down"] # 0
      \/ UNCHANGED <<pc, calls, rbuf>>
  <2>1. ASSUME Continue("down")
        PROVE  pc'["down"] = "Reading" \/ calls'["down"] # 0
    BY <2>1 DEF Continue, Control, Types, Sides
  <2> QED
    BY <2>1 DEF ReceiveHandshake, ReceiveOffer, UserAccepts, Taking, Control, Types, Sides
<1>5. sock["down"] = "Connected"
  BY DEF ReceiveHandshake, ReceiveOffer, UserAccepts, Receives, Taking, Expected, Control,
         Sockets, Greeting, Sides, Final
<1>6. CASE ReceiveHandshake("down")
  <2>1. status["down"] = "Starting" /\ status'["down"] = "WaitingForOffer" /\ UNCHANGED wbuf
    BY <1>6 DEF ReceiveHandshake, Taking, Control, Greeting, Types, Sides
  <2>2. Takes("down", << >>) /\ Incoming("down").kind = "Handshake"
    BY <1>6, <2>1, TakesOnly DEF ReceiveHandshake, Taking, Control, Sides
  <2>3. Stream("up")' = Tail(s) /\ Head(s).kind = "Handshake" /\ Stream("down")' = r
    BY <1>1, <1>2, <2>2, Peers, ConcatEmptySeq DEF Takes, Sides
  <2>4. u = "WaitingForPeerAnswer" => EndsWith(Tail(s), "Offer")
    <3>1. u = "WaitingForPeerAnswer" => EndsWith(s, "Offer")
      BY <1>2, <2>1 DEF Flow, Asked, Asking
    <3> QED
      BY <1>1, <2>3, <3>1, EndsTail
  <2>5. Asked'
    BY <1>2, <1>3, <2>1, <2>3, <2>4 DEF Flow, Asked
  <2> QED
    BY <1>3, <1>4, <1>5, <2>1, <2>5, FlowDownGoesOn
<1>7. CASE ReceiveOffer
  <2>1. status'["down"] = "WaitingForUserChoice" /\ UNCHANGED wbuf
    BY <1>7 DEF ReceiveOffer, Control, Types, Sides
  <2>2. Takes("down", << >>)
    BY <1>7, <2>1, TakesOnly DEF ReceiveOffer, Taking, Control, Sides
  <2>3. Stream("down")' = r
    BY <1>1, <1>2, <2>2, ConcatEmptySeq DEF Takes
  <2>4. Asked'
    BY <1>2, <1>3, <2>1, <2>3 DEF Flow, Asked, Asking
  <2> QED
    BY <1>3, <1>4, <1>5, <2>1, <2>4, FlowDownGoesOn
<1>8. CASE UserAccepts
  <2>1. PICK m : m = Msg("Accept")
    OBVIOUS
  <2>2. m \in Messages /\ m.kind = "Accept"
    BY <2>1, MessageTypes
  <2>3. Sends("down", << m >>)
    BY <1>8, <2>1, <2>2, SendsOne DEF UserAccepts, Control, Sides
  <2>4. Stream("down")' = r \o << m >>
    BY <1>2, <2>3 DEF Sends
  <2>5. EndsWith(r \o << m >>, "Accept") /\ r \o << m >> # << >>
    BY <1>1, <2>2, EndsAppended
  <2>6. status'["down"] = "Transfering"
    BY <1>8 DEF UserAccepts, Control, Types, Sides
  <2>7. Asked'
    BY <2>4, <2>5, <2>6 DEF Asked, Asking
  <2> QED
    BY <1>3, <1>4, <1>5, <2>6, <2>7, FlowDownGoesOn
<1>9. CASE Receives /\ Continue("down") /\ UNCHANGED <<status, error, sock, wbuf>>
  <2>1. status["down"] = "Transfering"
    BY <1>9 DEF Receives
  <2>2. Takes("down", << >>)
    BY <1>9, TakesOnly DEF Receives, Taking, Control, Sides
  <2>3. Stream("down")' = r
    BY <1>1, <1>2, <2>2, ConcatEmptySeq DEF Takes
  <2>4. Asked'
    BY <1>2, <1>9, <2>1, <2>3 DEF Flow, Asked, Asking
  <2> QED
    BY <1>3, <1>4, <1>5, <1>9, <2>1, <2>4, FlowDownGoesOn
<1> QED
  BY <1>6, <1>7, <1>8, <1>9

LEMMA GoneWhen ==
  ASSUME Control, NEW e \in Sides,
         \/ Aborting(e) \/ VersionMismatch(e)
         \/ ReceiveError(e) /\ ~(e = "up" /\ status[e] = "Transfering")
         \/ e = "up" /\ (ReceiveReject \/ ReceiveCompleted \/ UpFlushEnds \/ SendFails)
         \/ e = "down" /\ (UserRejects \/ FailsUnheard)
         \/ e = "down" /\ Receives /\ ~(UNCHANGED <<status, error, sock, wbuf>>)
  PROVE  Gone(e)
<1> USE DEF Constant
<1>1. CASE Aborting(e)
  <2>1. status[e] \notin {"Init", "None"}
    BY <1>1 DEF Aborting, RemoteClosed, Reset, NetworkError, ProtocolError, Control, Sockets,
                Greeting
  <2>2. CASE SocketError(e)
    BY <2>1, <2>2, Peers DEF SocketError, Abort, Failed, Gone, Final, Control, Types, BuffersOK
  <2>3. CASE ProtocolError(e)
    BY <2>1, <2>3, Peers DEF ProtocolError, Stop, Abort, Failed, Gone, Final, Control, Types,
                             BuffersOK
  <2> QED
    BY <1>1, <2>2, <2>3 DEF Aborting, RemoteClosed, Reset, NetworkError
<1>2. CASE VersionMismatch(e)
  <2>1. status[e] \notin {"Init", "None"}
    BY <1>2 DEF VersionMismatch, Taking, Control, Greeting
  <2> QED
    BY <1>2, <2>1, Peers DEF VersionMismatch, Take, Stop, Close, Failed, Gone, Final, Control,
                             Types, BuffersOK
<1>3. CASE ReceiveError(e) /\ ~(e = "up" /\ status[e] = "Transfering")
  <2>1. /\ Take(e) /\ Close(e, wbuf[e]) /\ Failed(e, "Peer", mgr[e]) /\ Stop(e) /\ greeted[e]
        /\ UNCHANGED <<payload, faults>>
    BY <1>3 DEF ReceiveError
  <2>2. status[e] \notin {"Init", "None"}
    BY <2>1 DEF Control, Greeting
  <2> QED
    BY <2>1, <2>2, Peers DEF Take, Stop, Close, Failed, Gone, Final, Control, Types, BuffersOK
<1>4. CASE e = "up" /\ ReceiveReject
  BY <1>4, Peers DEF ReceiveReject, Expected, Take, Stop, Close, Gone, Final, Control, Types,
                     BuffersOK
<1>5. CASE e = "up" /\ ReceiveCompleted
  BY <1>5, Peers DEF ReceiveCompleted, Expected, Take, Continue, Close, Gone, Final, Control,
                     Types, BuffersOK
<1>6. CASE e = "up" /\ UpFlushEnds
  BY <1>6, Peers DEF UpFlushEnds, Stop, Close, Failed, Gone, Final, Control, Handling, Types,
                     BuffersOK
<1>7. CASE e = "up" /\ SendFails
  <2>1. PICK w : /\ wbuf' = [wbuf EXCEPT !["up"] = w]
                 /\ sock' = [sock EXCEPT !["up"] = IF w = << >> THEN "Unconnected" ELSE "Closing"]
    BY <1>7, SendFailsFacts
  <2>2. /\ UNCHANGED <<payload, faults, calls, rbuf>> /\ status["up"] = "Transfering"
        /\ status' = [status EXCEPT !["up"] = "Error"] /\ mgr'["down"] = mgr["down"]
    BY <1>7, SendFailsFacts DEF SendFails
  <2>3. pc'["down"] = pc["down"]
    BY <1>7 DEF SendFails, Control, Types, Sides
  <2> QED
    BY <1>7, <2>1, <2>2, <2>3, Peers DEF Gone, Final, Control, Types, BuffersOK
<1>8. CASE e = "down" /\ UserRejects
  BY <1>8, Peers DEF UserRejects, Close, Gone, Final, Control, Types, BuffersOK
<1>9. CASE e = "down" /\ Receives /\ ~(UNCHANGED <<status, error, sock, wbuf>>)
  <2>1. /\ status["down"] = "Transfering" /\ Take("down") /\ mgr'["up"] = mgr["up"]
        /\ UNCHANGED <<payload, faults>>
        /\ DownFailure(mgr'["down"]) \/ Close("down", Append(wbuf["down"], Msg("Completed")))
        /\ DownFailure(mgr'["down"]) \/ status' = [status EXCEPT !["down"] = "Completed"]
        /\ Stop("down") \/ Continue("down")
    BY <1>9 DEF Receives, DownFailure
  <2>2. \E w, st : /\ wbuf' = [wbuf EXCEPT !["down"] = w] /\ st \in Final
                   /\ sock' = [sock EXCEPT !["down"] = IF w = << >> THEN "Unconnected"
                                                      ELSE "Closing"]
                   /\ status' = [status EXCEPT !["down"] = st]
    BY <2>1, Zenon DEF DownFailure, Close, Failed, Final
  <2>3. /\ pc'["up"] = pc["up"] /\ calls'["up"] = calls["up"] /\ rbuf'["up"] = rbuf["up"]
    BY <2>1 DEF Take, Continue, Stop, Control, Types, BuffersOK, Sides
  <2> QED
    BY <1>9, <2>1, <2>2, <2>3, Peers DEF Gone, Control, Types, BuffersOK
<1>10. CASE e = "down" /\ FailsUnheard
  <2>1. PICK st \in {"Completed", "Rejected"} : status' = [status EXCEPT !["down"] = st]
    BY <1>10, UnheardFacts
  <2>2. /\ status["down"] \notin {"Init", "None"}
        /\ UNCHANGED <<payload, faults>> /\ mgr'["up"] = mgr["up"]
        /\ wbuf' = [wbuf EXCEPT !["down"] = << >>]
        /\ sock' = [sock EXCEPT !["down"] = "Unconnected"] /\ rbuf'["up"] = rbuf["up"]
        /\ pc'["up"] = pc["up"] /\ calls'["up"] = calls["up"]
    BY <1>10, UnheardFacts DEF Continue, Control, Types, BuffersOK, Sides
  <2> QED
    BY <1>10, <2>1, <2>2, Peers DEF Gone, Final, Control, Types, BuffersOK
<1> QED
  BY <1>1, <1>2, <1>3, <1>4, <1>5, <1>6, <1>7, <1>8, <1>9, <1>10

LEMMA FlowInit == Init => Flow
<1> SUFFICES ASSUME Init
             PROVE  Flow
  OBVIOUS
<1>1. ReadsOn
  BY DEF Init, Both, ReadsOn, Sides
<1>2. Opened /\ Asked /\ Refilled
  BY DEF Init, Both, Opened, Asked, Refilled, Sides
<1> QED
  BY <1>1, <1>2 DEF Flow

LEMMA FlowNext == Control /\ Pair /\ Flow /\ [Next]_vars => Flow'
<1> SUFFICES ASSUME Control, Pair, Flow, [Next]_vars
             PROVE  Flow'
  OBVIOUS
<1>1. ASSUME NEW e \in Sides, Handle(e)
      PROVE  Flow'
  <2>1. CASE e = "up"
    BY <1>1, <2>1, FlowMoving, FlowEnds, FlowUpReads, GoneWhen DEF Handle, Aborting
  <2>2. CASE e = "down"
    BY <1>1, <2>2, FlowMoving, FlowEnds, FlowDown, GoneWhen DEF Handle, Aborting
  <2> QED
    BY <2>1, <2>2 DEF Sides
<1>2. CASE UNCHANGED vars
  <2>1. Stream("up")' = Stream("up") /\ Stream("down")' = Stream("down")
    BY <1>2 DEF vars, Stream, Joined
  <2>2. Asked'
    BY <1>2, <2>1, AskedKept DEF vars, Flow
  <2>3. ReadsOn' /\ Opened' /\ Refilled'
    BY <1>2 DEF vars, Flow, ReadsOn, Readable, Incoming, Opened, Refilled
  <2> QED
    BY <2>2, <2>3 DEF Flow
<1>3. CASE UpStep
  BY <1>1, <1>3, FlowConnects, FlowUpReads, FlowSends, FlowRefills, FlowEnds, GoneWhen
     DEF UpStep, Sides
<1>4. CASE DownStep
  <2>1. CASE Receives
    <3>1. CASE UNCHANGED <<status, error, sock, wbuf>>
      <4>1. /\ status["down"] = "Transfering" /\ status'["down"] = "Transfering"
            /\ DOMAIN status = Sides /\ "down" \in Sides
        BY <2>1, <3>1 DEF Receives, Control, Types, Sides
      <4>2. ~DownFailure(mgr'["down"]) /\ status' # [status EXCEPT !["down"] = "Completed"]
        BY <4>1 DEF DownFailure, Failed
      <4>3. Continue("down")
        BY <2>1, <4>2 DEF Receives
      <4> QED
        BY <2>1, <3>1, <4>3, FlowDown
    <3>2. CASE ~(UNCHANGED <<status, error, sock, wbuf>>)
      <4>1. Gone("down") /\ "down" \in Sides
        BY <2>1, <3>2, GoneWhen DEF Sides
      <4> QED
        BY <4>1, FlowEnds
    <3> QED
      BY <3>1, <3>2
  <2> QED
    BY <1>1, <1>4, <2>1, FlowConnects, FlowDown, FlowEnds, GoneWhen, ReceivesFacts
       DEF DownStep, FailsUnheard, Sides
<1>5. CASE User
  BY <1>5, FlowDown, FlowEnds, GoneWhen DEF User, FailsUnheard, Sides
<1>6. CASE \E e \in Sides : NetworkError(e)
  BY <1>6, FlowEnds, GoneWhen DEF Aborting
<1> QED
  BY <1>2, <1>3, <1>4, <1>5, <1>6 DEF Next

\* The event loop of e has nothing to run: no handler, no timer, no byte to
\* write, no message, no end of the connection.
Idle(e) ==
  /\ pc[e] = "Loop" /\ calls[e] = 0
  /\ sock[e] \in {"Connected", "Closing"} =>
       (wbuf[e] # << >> => Len(net[e]) >= NetCapacity)
  /\ sock[e] = "Connected" => net[Peer(e)] = << >> /\ sock[Peer(e)] # "Unconnected"
  /\ sock[e] = "Closing" => sock[Peer(e)] # "Unconnected" \/ net[e] = << >>

\* Nor are there a transfer to start, a connection to open or a user to ask.
Quiet ==
  /\ \A e \in Sides : Idle(e)
  /\ status["up"] # "Init" /\ sock["up"] # "Connecting"
  /\ sock["up"] = "Connected" => status["down"] # "None"
  /\ status["down"] # "WaitingForUserChoice"

HaveEnded == status["up"] \in Final /\ status["down"] \in Final \cup {"None"}

\* A quiet connection is open, or closed, on both sides.
LEMMA QuietOpen ==
  ASSUME Control, Quiet, NEW e \in Sides, sock[e] = "Connected"
  PROVE  sock[Peer(e)] = "Connected"
<1>1. Idle(e) /\ Idle(Peer(e)) /\ Peer(e) \in Sides /\ Peer(Peer(e)) = e
  BY Peers DEF Quiet
<1>2. net[Peer(e)] = << >> /\ sock[Peer(e)] # "Unconnected"
  BY <1>1 DEF Idle
<1>3. sock[Peer(e)] # "Closing"
  <2> SUFFICES ASSUME sock[Peer(e)] = "Closing"
               PROVE  FALSE
    OBVIOUS
  <2>1. wbuf[Peer(e)] # << >>
    BY <1>1 DEF Control, Sockets
  <2>2. Len(net[Peer(e)]) >= NetCapacity
    BY <1>1, <2>1 DEF Idle
  <2>3. Len(net[Peer(e)]) = 0
    BY <1>2, EmptySeq
  <2> QED
    BY <2>2, <2>3, TransferAssumption
<1>4. sock[Peer(e)] # "None"
  <2>1. CASE e = "up"
    BY <1>1, <2>1, Peers DEF Quiet, Control, Sockets, Handling, DownStatuses, Sides, Final
  <2>2. CASE e = "down"
    BY <1>1, <2>2, Peers DEF Quiet, Control, Sockets, Handling, UpStatuses, Sides, Final
  <2> QED
    BY <2>1, <2>2 DEF Sides
<1>5. sock[Peer(e)] # "Connecting"
  BY <1>1 DEF Quiet, Control, Sockets
<1>6. sock[Peer(e)] \in SocketStates
  BY <1>1 DEF Control, Types
<1> QED
  BY <1>2, <1>3, <1>4, <1>5, <1>6 DEF SocketStates

\* A quiet connection that is open is empty: what is there would be read.
LEMMA QuietEmpty ==
  ASSUME Control, Pair, Flow, Quiet, \A e \in Sides : sock[e] = "Connected"
  PROVE  Stream("up") = << >> /\ Stream("down") = << >> /\ \A e \in Sides : wbuf[e] = << >>
<1>1. ASSUME NEW e \in Sides
      PROVE  net[e] = << >> /\ wbuf[e] = << >> /\ ~Readable(e)
  <2>1. Idle(e) /\ Idle(Peer(e)) /\ Peer(e) \in Sides /\ Peer(Peer(e)) = e
    BY <1>1, Peers DEF Quiet
  <2>2. net[e] = << >>
    BY <2>1 DEF Idle
  <2>3. Len(net[e]) = 0
    BY <2>2, EmptySeq
  <2>4. wbuf[e] = << >>
    BY <1>1, <2>1, <2>3, TransferAssumption DEF Idle
  <2>5. ~Readable(e)
    BY <1>1, <2>1 DEF Idle, Flow, ReadsOn
  <2> QED
    BY <2>2, <2>4, <2>5
<1>2. ASSUME NEW e \in Sides
      PROVE  Stream(e) = rbuf[Peer(e)]
  <2>1. rbuf[Peer(e)] \in Seq(Messages)
    BY <1>2, Peers DEF Control, BuffersOK
  <2>2. rbuf[Peer(e)] \o << >> = rbuf[Peer(e)]
    BY <2>1, ConcatEmptySeq
  <2> QED
    BY <1>1, <1>2, <2>2 DEF Stream, Joined
<1>3. ASSUME NEW e \in Sides, NEW K, Kinds(Stream(e), K), "Incomplete" \notin K
      PROVE  Stream(e) = << >>
  <2> SUFFICES ASSUME Stream(e) # << >>
               PROVE  FALSE
    OBVIOUS
  <2>1. PICK s \in Seq(Messages) : s = rbuf[Peer(e)]
    BY <1>3, Peers DEF Control, BuffersOK
  <2>2. s = Stream(e) /\ s # << >> /\ Kinds(s, K)
    BY <1>2, <1>3, <2>1
  <2>3. Len(s) \in Nat \ {0} /\ Head(s) = s[1]
    BY <2>2, LenProperties, EmptySeq, HeadTailProperties
  <2>4. Head(s).kind \in K
    BY <2>2, <2>3 DEF Kinds
  <2>5. Incoming(Peer(e)).kind \in K
    BY <2>1, <2>4 DEF Incoming
  <2>6. Readable(Peer(e))
    BY <1>3, <2>1, <2>2, <2>5 DEF Readable
  <2> QED
    BY <1>1, <1>3, <2>6, Peers
<1>4. PICK p, u, d, ch, s, r, mu, cu, md, cd :
        /\ Known(p, u, d, ch, s, r, mu, cu, md, cd)
        /\ Agreed(p, u, d, ch, s, r, md, cd) /\ Data(p, u, d, s, mu, cu, md, cd)
        /\ u \in UpStatuses /\ d \in DownStatuses
  BY PairKnown DEF Joint
<1>5. /\ u = status["up"] /\ d = status["down"] /\ s = Stream("up") /\ r = Stream("down")
      /\ "up" \in Sides /\ "down" \in Sides
  BY <1>4 DEF Known, Sides
<1>6. u \notin Final /\ d \notin Final \cup {"None"}
  BY <1>5 DEF Control, Sockets
<1>7. r = << >>
  <2>1. Kinds(r, {"Handshake", "Accept"})
    BY <1>4, <1>6 DEF Agreed, Answers
  <2>2. "Incomplete" \notin {"Handshake", "Accept"}
    OBVIOUS
  <2> QED
    BY <1>3, <1>5, <2>1, <2>2
<1>8. s = << >>
  <2>1. CASE ch # "Accept"
    <3>1. Kinds(s, Questions) /\ "Incomplete" \notin Questions
      BY <1>4, <2>1 DEF Agreed, Consent, Questions
    <3> QED
      BY <1>3, <1>5, <3>1
  <2>2. CASE ch = "Accept"
    <3>1. d = "Transfering"
      BY <1>4, <1>6, <2>2 DEF Agreed, Before, Asking, DownStatuses
    <3>2. u \in {"WaitingForPeerAnswer", "Transfering"}
      BY <1>4, <1>6, <3>1 DEF Agreed, Before, UpStatuses
    <3>3. Tracked(p, u, s, mu, cu, md, cd)
      BY <1>4, <3>1, <3>2 DEF Data, Misled
    <3>4. s = << >> \/ Kinds(s, DataKinds)
      BY <3>2, <3>3 DEF Tracked
    <3>5. "Incomplete" \notin DataKinds
      BY DEF DataKinds
    <3> QED
      BY <1>3, <1>5, <3>4, <3>5
  <2> QED
    BY <2>1, <2>2
<1> QED
  BY <1>1, <1>5, <1>7, <1>8

\* Nor is it open while both sides are at work: each state waits for something.
LEMMA QuietEnds ==
  ASSUME Control, Pair, Flow, Quiet, payload.start[payload.nb] < TotalSize(payload),
         \A e \in Sides : sock[e] = "Connected"
  PROVE  FALSE
<1>1. PICK p, u, d, ch, s, r, mu, cu, md, cd :
        /\ Known(p, u, d, ch, s, r, mu, cu, md, cd)
        /\ Agreed(p, u, d, ch, s, r, md, cd) /\ Data(p, u, d, s, mu, cu, md, cd)
        /\ IsPayload(p) /\ u \in UpStatuses /\ d \in DownStatuses
  BY PairKnown DEF Joint
<1>2. /\ p = payload /\ u = status["up"] /\ d = status["down"] /\ mu = mgr["up"]
      /\ s = Stream("up") /\ r = Stream("down") /\ "up" \in Sides /\ "down" \in Sides
  BY <1>1 DEF Known, Sides
<1>3. s = << >> /\ r = << >> /\ wbuf["up"] = << >>
  BY <1>2, QuietEmpty
<1>4. /\ u \notin Final \cup {"Init"} /\ d \notin Final \cup {"None", "WaitingForUserChoice"}
      /\ sock["up"] = "Connected" /\ sock["down"] = "Connected"
  BY <1>2 DEF Control, Sockets, Quiet
<1>5. u # "Starting" /\ d # "Starting"
  BY <1>2, <1>3, <1>4 DEF Flow, Asked
<1>6. d \in {"WaitingForOffer", "Transfering"}
  BY <1>1, <1>4, <1>5 DEF DownStatuses
<1>7. u # "WaitingForPeerAnswer"
  BY <1>2, <1>3, <1>6 DEF Flow, Asked, EndsWith, Asking
<1>8. u = "Transfering"
  BY <1>1, <1>4, <1>5, <1>7 DEF UpStatuses
<1>9. d = "Transfering"
  <2>1. ch = "Accept"
    BY <1>1, <1>8 DEF Agreed, Consent, Unanswered
  <2> QED
    BY <1>1, <1>6, <2>1 DEF Agreed, Before, Asking
<1>10. PICK h : Receiver(p, md, h[0], cu, cd) /\ h[Len(s)] = Position(mu)
  BY <1>1, <1>8, <1>9 DEF Data, Misled, Tracked, LastPosition
<1>11. Receiver(p, md, Position(mu), cu, cd)
  BY <1>3, <1>10, EmptySeq
<1>12. /\ mu.next = mu.current \/ mu.total = 0
       /\ mu.total # 0 => StopsAt(p, mu.current, mu.total)
       /\ mu.total >= TotalSize(p) \/ ~(mu.total < TotalSize(p))
  <2>1. pc["up"] = "Loop"
    BY <1>2 DEF Quiet, Idle
  <2> QED
    BY <1>2, <1>3, <1>8, <2>1 DEF Flow, Refilled
<1>13. Sender(p, mu, cu) \/ Sender(p, mu, content["up"])
  BY <1>2, <1>8 DEF Control, Sending
<1>14. PICK c, n, t :
         /\ c = mu.current /\ n = mu.next /\ t = mu.total
         /\ c \in 1 .. End(p) /\ t \in Nat /\ t <= TotalSize(p)
  BY <1>13 DEF Sender, Managers, Positions, Position
<1>15. /\ TotalSize(p) \in Nat /\ p.nb \in Nat \ {0} /\ End(p) = p.nb + 1
       /\ \A i \in 1 .. End(p) : p.start[i] \in Nat /\ p.start[i] <= TotalSize(p)
       /\ \A i, j \in 1 .. End(p) : i <= j => p.start[i] <= p.start[j]
  BY <1>1, PayloadFacts
<1>16. t = TotalSize(p) /\ t # 0
  <2>1. t = TotalSize(p)
    BY <1>12, <1>14, <1>15
  <2>2. p.nb \in 1 .. End(p)
    BY <1>15
  <2>3. p.start[p.nb] \in Nat /\ p.start[p.nb] < TotalSize(p)
    BY <1>2, <1>15, <2>2
  <2>4. PICK a : a = p.start[p.nb]
    OBVIOUS
  <2> QED
    BY <1>15, <2>1, <2>3, <2>4
<1>17. n = c /\ StopsAt(p, c, TotalSize(p))
  BY <1>12, <1>14, <1>16
<1>18. c = End(p)
  <2> SUFFICES ASSUME c \in 1 .. p.nb
               PROVE  FALSE
    BY <1>14, <1>15
  <2>1. /\ c \in 1 .. End(p) /\ p.nb \in 1 .. End(p) /\ c + 1 \in 1 .. End(p) /\ c <= p.nb
    BY <1>15
  <2>2. PICK a, b, e : a = p.start[c] /\ b = p.start[p.nb] /\ e = TotalSize(p)
    OBVIOUS
  <2>3. a <= b /\ a \in Nat /\ b \in Nat /\ e \in Nat
    BY <1>15, <2>1, <2>2
  <2>4. b < e
    BY <1>2, <2>2
  <2>5. a < e
    BY <2>3, <2>4
  <2>6. Passed(p, c, TotalSize(p))
    BY <1>15, <2>1, <2>2, <2>5 DEF Passed
  <2> QED
    BY <1>17, <2>6 DEF StopsAt, Files
<1>19. md.next # End(p) /\ md.next = n
  BY <1>11, <1>14 DEF Receiver, Position
<1> QED
  BY <1>17, <1>18, <1>19

(* Nobody waits for ever: when neither event loop has anything to do, and    *)
(* no user has a choice to make, upload and download have ended, whatever    *)
(* failed on the way; unless an empty file ends the payload or the peer      *)
(* cannot be reached, which are findings (Base, Upload and Download).        *)
THEOREM NobodyIsStuck ==
  ASSUME \A p \in Payloads : p.start[p.nb] < TotalSize(p)
  PROVE  Spec => [](Quiet /\ "unreachable" \notin faults => HaveEnded)
<1>1. ASSUME Control, Pair, Flow, Quiet, "unreachable" \notin faults
      PROVE  HaveEnded
  <2>1. ASSUME NEW e \in Sides
        PROVE  sock[e] # "Connected"
    <3> SUFFICES ASSUME sock[e] = "Connected"
                 PROVE  FALSE
      OBVIOUS
    <3>1. sock[Peer(e)] = "Connected"
      BY <1>1, <2>1, QuietOpen
    <3>2. \A a \in Sides : sock[a] = "Connected"
      BY <2>1, <3>1, Peers DEF Sides
    <3>3. payload.start[payload.nb] < TotalSize(payload)
      BY <1>1 DEF Control, Types
    <3> QED
      BY <1>1, <3>2, <3>3, QuietEnds
  <2>2. "up" \in Sides /\ "down" \in Sides
    BY DEF Sides
  <2>3. status["up"] \in UpStatuses /\ status["down"] \in DownStatuses
    BY <1>1 DEF Control, Handling
  <2>4. /\ status["up"] # "Init" /\ sock["up"] # "Connecting"
        /\ status["down"] # "WaitingForUserChoice"
    BY <1>1 DEF Quiet
  <2>5. status["up"] # "Starting" /\ status["down"] # "Starting"
    BY <1>1, <2>1, <2>2, <2>4 DEF Flow, Opened
  <2>6. status["up"] \in Final /\ status["down"] \in Final \cup {"None"}
    BY <1>1, <2>1, <2>2, <2>3, <2>4, <2>5 DEF Control, Sockets, UpStatuses, DownStatuses
  <2> QED
    BY <2>6 DEF HaveEnded
<1>2. Control /\ Pair /\ Flow => (Quiet /\ "unreachable" \notin faults => HaveEnded)
  BY <1>1
<1> QED
  BY <1>2, AlwaysControl, AlwaysPair, FlowInit, FlowNext, PTL DEF Spec
----------------------------------------------------------------------------
(* Every transfer takes a bounded number of steps.  What is left to do is    *)
(* counted so that each handler lowers it: a byte to send may become two     *)
(* messages, a message is written, arrives and is handled, and a handler     *)
(* that ends or a status that is left pays for the message it sends.         *)

HandlerRank(h) ==
  CASE h = "Accepted" -> 3 [] h = "Flushed" -> 2
    [] h \in {"Reading", "Written", "Flush"} -> 1 [] OTHER -> 0

SocketRank(s) ==
  CASE s = "Connecting" -> 9 [] s = "Connected" -> 2 [] s = "Closing" -> 1 [] OTHER -> 0

StatusRank(st) ==
  CASE st \in {"Init", "None"} -> 31
    [] st \in {"Starting", "WaitingForOffer", "WaitingForUserChoice"} -> 21
    [] st = "WaitingForPeerAnswer" -> 15 [] st = "Transfering" -> 13 [] OTHER -> 0

SideSteps(e) ==
  6 * Len(wbuf[e]) + 2 * Len(rbuf[e]) + 2 * calls[e]
    + HandlerRank(pc[e]) + SocketRank(sock[e]) + StatusRank(status[e])

WireSteps == 4 * (Len(net["up"]) + Len(net["down"]))

ToSend == TotalSize(payload) - mgr["up"].total

StepsLeft == 13 * ToSend + WireSteps + SideSteps("up") + SideSteps("down")

UpInside == mgr["up"].total \in 0 .. TotalSize(payload)

\* What e's own part of a step costs, at most, while its peer does nothing.
Apart(e) ==
  /\ wbuf'[Peer(e)] = wbuf[Peer(e)] /\ rbuf'[Peer(e)] = rbuf[Peer(e)]
  /\ calls'[Peer(e)] = calls[Peer(e)] /\ pc'[Peer(e)] = pc[Peer(e)]
  /\ sock'[Peer(e)] = sock[Peer(e)] /\ status'[Peer(e)] = status[Peer(e)]

Costs(e, w, r, c, h, s, t) ==
  /\ Len(wbuf'[e]) <= Len(wbuf[e]) + w /\ Len(rbuf'[e]) <= Len(rbuf[e]) + r
  /\ calls'[e] <= calls[e] + c /\ HandlerRank(pc'[e]) <= HandlerRank(pc[e]) + h
  /\ SocketRank(sock'[e]) <= SocketRank(sock[e]) + s
  /\ StatusRank(status'[e]) <= StatusRank(status[e]) + t

\* What it costs besides: bytes sent, messages in the kernels.
Flows(z, n) == ToSend' <= ToSend + z /\ WireSteps' <= WireSteps + n

Paid(z, n, w, r, c, h, s, t) ==
  /\ z \in Int /\ n \in Int /\ w \in Int /\ r \in Int
  /\ c \in Int /\ h \in Int /\ s \in Int /\ t \in Int
  /\ 13 * z + n + 6 * w + 2 * r + 2 * c + h + s + t < 0

LEMMA Ranks ==
  /\ HandlerRank("Loop") = 0 /\ HandlerRank("Crashed") = 0 /\ HandlerRank("Reading") = 1
  /\ HandlerRank("Written") = 1 /\ HandlerRank("Flush") = 1 /\ HandlerRank("Flushed") = 2
  /\ HandlerRank("Accepted") = 3
  /\ SocketRank("None") = 0 /\ SocketRank("Unconnected") = 0 /\ SocketRank("Closing") = 1
  /\ SocketRank("Connected") = 2 /\ SocketRank("Connecting") = 9
  /\ StatusRank("Init") = 31 /\ StatusRank("None") = 31
  /\ \A st \in {"Starting", "WaitingForOffer", "WaitingForUserChoice"} : StatusRank(st) = 21
  /\ StatusRank("WaitingForPeerAnswer") = 15 /\ StatusRank("Transfering") = 13
  /\ \A st \in Final : StatusRank(st) = 0
  /\ \A st : StatusRank(st) \in 0 .. 31
  /\ \A h : HandlerRank(h) \in 0 .. 3
  /\ \A st : SocketRank(st) \in 0 .. 9
BY DEF HandlerRank, SocketRank, StatusRank, Final

LEMMA RankTypes ==
  \A x : HandlerRank(x) \in Int /\ SocketRank(x) \in Int /\ StatusRank(x) \in Int
<1>1. ASSUME NEW x
      PROVE  HandlerRank(x) \in Int /\ SocketRank(x) \in Int /\ StatusRank(x) \in Int
  <2>1. HandlerRank(x) \in 0 .. 3 /\ SocketRank(x) \in 0 .. 9 /\ StatusRank(x) \in 0 .. 31
    BY Ranks, Zenon
  <2> QED
    BY <2>1
<1> QED
  BY <1>1

LEMMA Lengths ==
  ASSUME NEW s \in Seq(Messages)
  PROVE  /\ Len(s) \in Nat /\ (s = << >> <=> Len(s) = 0)
         /\ \A m \in Messages : Len(Append(s, m)) = Len(s) + 1
         /\ s # << >> => Len(Tail(s)) = Len(s) - 1
         /\ \A k \in 0 .. Len(s) : Len(Prefix(s, k)) = k /\ Len(Rest(s, k)) = Len(s) - k
         /\ \A u \in Seq(Messages) : Len(s \o u) = Len(s) + Len(u)
<1>1. Len(s) \in Nat /\ (s = << >> <=> Len(s) = 0)
  BY LenProperties, EmptySeq
<1>2. \A m \in Messages : Len(Append(s, m)) = Len(s) + 1
  BY AppendProperties
<1>3. s # << >> => Len(Tail(s)) = Len(s) - 1
  BY HeadTailProperties
<1>4. \A k \in 0 .. Len(s) : Len(Prefix(s, k)) = k /\ Len(Rest(s, k)) = Len(s) - k
  BY Split
<1>5. \A u \in Seq(Messages) : Len(s \o u) = Len(s) + Len(u)
  BY ConcatProperties
<1> QED
  BY <1>1, <1>2, <1>3, <1>4, <1>5

LEMMA SideNumbers ==
  ASSUME Types, BuffersOK
  PROVE  /\ \A e \in Sides :
              /\ Len(wbuf[e]) \in Nat /\ Len(rbuf[e]) \in Nat /\ Len(net[e]) \in Nat
              /\ calls[e] \in Nat /\ SideSteps(e) \in Nat
         /\ WireSteps \in Nat
<1>1. ASSUME NEW e \in Sides
      PROVE  /\ Len(wbuf[e]) \in Nat /\ Len(rbuf[e]) \in Nat /\ Len(net[e]) \in Nat
             /\ calls[e] \in Nat
  BY <1>1, LenProperties DEF Types, BuffersOK
<1>2. ASSUME NEW e \in Sides
      PROVE  SideSteps(e) \in Nat
  <2>1. PICK w, r, c, h, s, t :
          /\ w = Len(wbuf[e]) /\ r = Len(rbuf[e]) /\ c = calls[e] /\ h = HandlerRank(pc[e])
          /\ s = SocketRank(sock[e]) /\ t = StatusRank(status[e])
    OBVIOUS
  <2>2. w \in Nat /\ r \in Nat /\ c \in Nat /\ h \in 0 .. 3 /\ s \in 0 .. 9 /\ t \in 0 .. 31
    BY <1>1, <1>2, <2>1, Ranks
  <2>3. 6 * w + 2 * r + 2 * c + h + s + t \in Nat
    BY <2>2
  <2> QED
    BY <2>1, <2>3 DEF SideSteps
<1>3. WireSteps \in Nat
  <2>1. PICK a, b : a = Len(net["up"]) /\ b = Len(net["down"])
    OBVIOUS
  <2>2. a \in Nat /\ b \in Nat
    BY <1>1, <2>1 DEF Sides
  <2>3. 4 * (a + b) \in Nat
    BY <2>2
  <2> QED
    BY <2>1, <2>3 DEF WireSteps
<1> QED
  BY <1>1, <1>2, <1>3

LEMMA Falls ==
  ASSUME Control, Types', BuffersOK', ToSend \in Int, ToSend' \in Int, NEW e \in Sides, Apart(e),
         NEW z, NEW n, NEW w, NEW r, NEW c, NEW h, NEW s, NEW t,
         Flows(z, n), Costs(e, w, r, c, h, s, t), Paid(z, n, w, r, c, h, s, t)
  PROVE  StepsLeft' < StepsLeft
<1>1. /\ SideSteps(Peer(e))' = SideSteps(Peer(e)) /\ SideSteps(Peer(e)) \in Nat
      /\ SideSteps(e) \in Nat /\ WireSteps \in Nat
  BY SideNumbers, Peers DEF Control, Apart, SideSteps
<1>2. /\ Len(wbuf'[e]) \in Nat /\ Len(rbuf'[e]) \in Nat /\ calls'[e] \in Nat
      /\ WireSteps' \in Int
  <2>1. Len(wbuf'[e]) \in Nat /\ Len(rbuf'[e]) \in Nat /\ calls'[e] \in Nat
    BY LenProperties DEF Types, BuffersOK
  <2>2. PICK a, b : a = Len(net'["up"]) /\ b = Len(net'["down"])
    OBVIOUS
  <2>3. a \in Nat /\ b \in Nat
    BY <2>2, LenProperties DEF BuffersOK, Sides
  <2>4. 4 * (a + b) \in Int
    BY <2>3
  <2> QED
    BY <2>1, <2>2, <2>4 DEF WireSteps
<1>3. Len(wbuf[e]) \in Nat /\ Len(rbuf[e]) \in Nat /\ calls[e] \in Nat
  BY SideNumbers DEF Control
<1>4. /\ SideSteps(e)' \in Int
      /\ SideSteps(e)' <= SideSteps(e) + 6 * w + 2 * r + 2 * c + h + s + t
  <2>1. PICK a, b, d, i, j, k :
          /\ a = Len(wbuf[e]) /\ b = Len(rbuf[e]) /\ d = calls[e] /\ i = HandlerRank(pc[e])
          /\ j = SocketRank(sock[e]) /\ k = StatusRank(status[e])
    OBVIOUS
  <2>2. PICK a2, b2, d2, i2, j2, k2 :
          /\ a2 = Len(wbuf'[e]) /\ b2 = Len(rbuf'[e]) /\ d2 = calls'[e]
          /\ i2 = HandlerRank(pc'[e])
          /\ j2 = SocketRank(sock'[e]) /\ k2 = StatusRank(status'[e])
    OBVIOUS
  <2>9. /\ i \in 0 .. 3 /\ i2 \in 0 .. 3 /\ j \in 0 .. 9 /\ j2 \in 0 .. 9
        /\ k \in 0 .. 31 /\ k2 \in 0 .. 31
    BY <2>1, <2>2, Ranks, Zenon
  <2>3. /\ a \in Nat /\ b \in Nat /\ d \in Nat /\ i \in Int /\ j \in Int /\ k \in Int
        /\ a2 \in Nat /\ b2 \in Nat /\ d2 \in Nat /\ i2 \in Int /\ j2 \in Int /\ k2 \in Int
    <3>1. a \in Nat /\ b \in Nat /\ d \in Nat /\ a2 \in Nat /\ b2 \in Nat /\ d2 \in Nat
      BY <1>2, <1>3, <2>1, <2>2, Zenon
    <3> QED
      BY <2>9, <3>1
  <2>4. /\ a2 <= a + w /\ b2 <= b + r /\ d2 <= d + c /\ i2 <= i + h /\ j2 <= j + s
        /\ k2 <= k + t
    BY <2>1, <2>2 DEF Costs
  <2>5. w \in Int /\ r \in Int /\ c \in Int /\ h \in Int /\ s \in Int /\ t \in Int
    BY DEF Paid
  <2>6. /\ 6 * a2 + 2 * b2 + 2 * d2 + i2 + j2 + k2
          <= (6 * a + 2 * b + 2 * d + i + j + k) + 6 * w + 2 * r + 2 * c + h + s + t
        /\ 6 * a2 + 2 * b2 + 2 * d2 + i2 + j2 + k2 \in Int
    BY <2>3, <2>4, <2>5
  <2>7. SideSteps(e) = 6 * a + 2 * b + 2 * d + i + j + k
    BY <2>1 DEF SideSteps
  <2>8. SideSteps(e)' = 6 * a2 + 2 * b2 + 2 * d2 + i2 + j2 + k2
    BY <2>2 DEF SideSteps
  <2> QED
    BY <2>6, <2>7, <2>8
<1>5. PICK x, y, a, b, x2, y2, a2 :
        /\ x = ToSend /\ y = WireSteps /\ a = SideSteps(e) /\ b = SideSteps(Peer(e))
        /\ x2 = ToSend' /\ y2 = WireSteps' /\ a2 = SideSteps(e)'
  OBVIOUS
<1>6. /\ x \in Int /\ y \in Int /\ a \in Int /\ b \in Int /\ x2 \in Int /\ y2 \in Int /\ a2 \in Int
      /\ x2 <= x + z /\ y2 <= y + n
      /\ a2 <= a + 6 * w + 2 * r + 2 * c + h + s + t
  BY <1>1, <1>2, <1>4, <1>5 DEF Flows
<1>7. 13 * x2 + y2 + a2 + b < 13 * x + y + a + b
  BY <1>6 DEF Paid
<1>8. StepsLeft = 13 * x + y + a + b /\ StepsLeft' = 13 * x2 + y2 + a2 + b
  <2>1. CASE e = "up"
    BY <1>1, <1>5, <1>6, <2>1, Peers DEF StepsLeft
  <2>2. CASE e = "down"
    BY <1>1, <1>5, <1>6, <2>2, Peers DEF StepsLeft
  <2> QED
    BY <2>1, <2>2 DEF Sides
<1> QED
  BY <1>7, <1>8

\* The two states of a step have numbers for all that is counted.
Counted == Control /\ Types' /\ BuffersOK' /\ ToSend \in Int /\ ToSend' \in Int

LEMMA Flowless ==
  ASSUME Counted, UNCHANGED <<payload, net>>, mgr'["up"].total = mgr["up"].total
  PROVE  Flows(0, 0)
<1>1. WireSteps \in Nat
  BY SideNumbers DEF Counted, Control
<1>2. WireSteps' = WireSteps /\ ToSend' = ToSend
  BY DEF WireSteps, ToSend
<1> QED
  BY <1>1, <1>2 DEF Flows, Counted

\* k messages more are on one wire, or k fewer.
LEMMA WireMoves ==
  ASSUME Counted, NEW e \in Sides,
         net'[Peer(e)] = net[Peer(e)], NEW k \in Int, Len(net'[e]) <= Len(net[e]) + k
  PROVE  WireSteps' <= WireSteps + 4 * k
<1>1. PICK a, b, a2 : a = Len(net[e]) /\ b = Len(net[Peer(e)]) /\ a2 = Len(net'[e])
  OBVIOUS
<1>2. a \in Nat /\ b \in Nat /\ a2 \in Nat
  BY <1>1, Peers, LenProperties DEF Counted, Control, BuffersOK
<1>3. a2 <= a + k
  BY <1>1
<1>4. 4 * (a2 + b) <= 4 * (a + b) + 4 * k /\ a + b = b + a /\ a2 + b = b + a2
  BY <1>2, <1>3
<1>5. WireSteps = 4 * (a + b) /\ WireSteps' = 4 * (a2 + b)
  <2>1. CASE e = "up"
    BY <1>1, <2>1, Peers DEF WireSteps
  <2>2. CASE e = "down"
    BY <1>1, <1>4, <2>2, Peers DEF WireSteps
  <2> QED
    BY <2>1, <2>2 DEF Sides
<1> QED
  BY <1>4, <1>5

LEMMA WireChange ==
  ASSUME Counted, UNCHANGED payload, mgr'["up"].total = mgr["up"].total, NEW e \in Sides,
         net'[Peer(e)] = net[Peer(e)], NEW k \in Int, Len(net'[e]) <= Len(net[e]) + k
  PROVE  Flows(0, 4 * k)
<1>1. ToSend' = ToSend
  BY DEF ToSend
<1>2. ToSend' <= ToSend + 0
  BY <1>1 DEF Counted
<1> QED
  BY <1>2, WireMoves DEF Flows

LEMMA CostsMoving ==
  ASSUME Counted, NEW e \in Sides, Write(e) \/ Arrive(e) \/ Timer(e) \/ Starved(e)
  PROVE  StepsLeft' < StepsLeft
<1>0. Peer(e) \in Sides /\ Peer(e) # e /\ Peer(Peer(e)) = e
  BY Peers
<1>1. CASE Write(e)
  <2>1. PICK k \in 1 .. Len(wbuf[e]) :
          /\ net' = [net EXCEPT ![e] = net[e] \o Prefix(wbuf[e], k)]
          /\ wbuf' = [wbuf EXCEPT ![e] = Rest(wbuf[e], k)]
          /\ \/ sock' = sock
             \/ sock[e] = "Closing" /\ sock' = [sock EXCEPT ![e] = "Unconnected"]
    BY <1>1 DEF Write
  <2>2. /\ pc[e] = "Loop" /\ (pc' = pc \/ pc' = [pc EXCEPT ![e] = "Written"])
        /\ UNCHANGED <<payload, status, calls, rbuf, mgr>>
    BY <1>1 DEF Write, Constant
  <2>3. Apart(e)
    BY <1>0, <2>1, <2>2 DEF Apart, Counted, Control, Types, BuffersOK
  <2>4. /\ Len(net'[e]) = Len(net[e]) + k /\ Len(wbuf'[e]) = Len(wbuf[e]) - k /\ k \in Nat \ {0}
        /\ net'[Peer(e)] = net[Peer(e)]
    <3>1. PICK w, m : w = wbuf[e] /\ m = net[e]
      OBVIOUS
    <3>2. w \in Seq(Messages) /\ m \in Seq(Messages) /\ k \in 0 .. Len(w) /\ k \in Nat \ {0}
      BY <2>1, <3>1, LenProperties DEF Counted, Control, BuffersOK
    <3>3. Len(Rest(w, k)) = Len(w) - k /\ Len(Prefix(w, k)) = k /\ Prefix(w, k) \in Seq(Messages)
      BY <3>2, Split
    <3>4. Len(m \o Prefix(w, k)) = Len(m) + k
      <4>1. PICK u : u = Prefix(w, k)
        OBVIOUS
      <4>2. u \in Seq(Messages) /\ Len(u) = k
        BY <3>3, <4>1
      <4>3. Len(m \o u) = Len(m) + Len(u)
        BY <3>2, <4>2, ConcatProperties
      <4> QED
        BY <4>1, <4>2, <4>3
    <3>5. net'[e] = m \o Prefix(w, k) /\ wbuf'[e] = Rest(w, k)
      BY <2>1, <3>1 DEF Counted, Control, BuffersOK
    <3> QED
      BY <1>0, <2>1, <3>1, <3>2, <3>3, <3>4, <3>5 DEF Counted, Control, BuffersOK
  <2>5. /\ HandlerRank(pc'[e]) <= HandlerRank(pc[e]) + 1
        /\ SocketRank(sock'[e]) <= SocketRank(sock[e]) + 0
        /\ StatusRank(status'[e]) <= StatusRank(status[e]) + 0
    <3>1. HandlerRank(pc'[e]) <= HandlerRank(pc[e]) + 1
      BY <2>2, Ranks DEF Counted, Control, Types
    <3>2. SocketRank(sock'[e]) <= SocketRank(sock[e]) + 0
      <4>1. sock'[e] = sock[e] \/ (sock[e] = "Closing" /\ sock'[e] = "Unconnected")
        BY <2>1 DEF Counted, Control, Types
      <4>2. SocketRank("Closing") = 1 /\ SocketRank("Unconnected") = 0
        BY Ranks
      <4> QED
        BY <4>1, <4>2, RankTypes
    <3>3. StatusRank(status'[e]) <= StatusRank(status[e]) + 0
      BY <2>2, RankTypes
    <3> QED
      BY <3>1, <3>2, <3>3
  <2>6. Costs(e, -k, 0, 0, 1, 0, 0)
    <3>1. Len(wbuf[e]) \in Nat /\ Len(rbuf[e]) \in Nat /\ calls[e] \in Nat
      BY SideNumbers DEF Counted, Control
    <3> QED
      <4>1. PICK a, a2 : a = Len(wbuf[e]) /\ a2 = Len(wbuf'[e])
        OBVIOUS
      <4>2. a \in Nat /\ a2 = a - k /\ k \in Nat
        BY <2>4, <3>1, <4>1
      <4>3. a2 <= a + (-k)
        BY <4>2
      <4>4. Len(rbuf'[e]) <= Len(rbuf[e]) + 0 /\ calls'[e] <= calls[e] + 0
        BY <2>2, <3>1
      <4> QED
        BY <2>5, <4>1, <4>3, <4>4 DEF Costs
  <2>7. Flows(0, 4 * k)
    <3>1. Len(net[e]) \in Nat
      BY SideNumbers DEF Counted, Control
    <3>2. Len(net'[e]) <= Len(net[e]) + k /\ k \in Int
      BY <2>4, <3>1
    <3> QED
      BY <2>2, <2>4, <3>2, WireChange
  <2>8. Paid(0, 4 * k, -k, 0, 0, 1, 0, 0)
    BY <2>4 DEF Paid
  <2> QED
    BY <2>3, <2>6, <2>7, <2>8, Falls DEF Counted
<1>2. CASE Arrive(e)
  <2>1. PICK k \in 1 .. Len(net[Peer(e)]) :
          /\ rbuf' = [rbuf EXCEPT ![e] = rbuf[e] \o Prefix(net[Peer(e)], k)]
          /\ net' = [net EXCEPT ![Peer(e)] = Rest(net[Peer(e)], k)]
    BY <1>2 DEF Arrive
  <2>2. /\ pc[e] = "Loop" /\ pc' = [pc EXCEPT ![e] = "Reading"]
        /\ UNCHANGED <<payload, status, calls, sock, wbuf, mgr>>
    BY <1>2 DEF Arrive, Constant
  <2>3. Apart(e)
    BY <1>0, <2>1, <2>2 DEF Apart, Counted, Control, Types, BuffersOK
  <2>4. /\ Len(rbuf'[e]) = Len(rbuf[e]) + k /\ Len(net'[Peer(e)]) = Len(net[Peer(e)]) - k
        /\ k \in Nat \ {0} /\ net'[e] = net[e]
    <3>1. PICK w, m : w = net[Peer(e)] /\ m = rbuf[e]
      OBVIOUS
    <3>2. w \in Seq(Messages) /\ m \in Seq(Messages) /\ k \in 0 .. Len(w) /\ k \in Nat \ {0}
      BY <1>0, <2>1, <3>1, LenProperties DEF Counted, Control, BuffersOK
    <3>3. Len(Rest(w, k)) = Len(w) - k /\ Len(Prefix(w, k)) = k /\ Prefix(w, k) \in Seq(Messages)
      BY <3>2, Split
    <3>4. Len(m \o Prefix(w, k)) = Len(m) + k
      <4>1. PICK u : u = Prefix(w, k)
        OBVIOUS
      <4>2. u \in Seq(Messages) /\ Len(u) = k
        BY <3>3, <4>1
      <4>3. Len(m \o u) = Len(m) + Len(u)
        BY <3>2, <4>2, ConcatProperties
      <4> QED
        BY <4>1, <4>2, <4>3
    <3>5. rbuf'[e] = m \o Prefix(w, k) /\ net'[Peer(e)] = Rest(w, k)
      BY <1>0, <2>1, <3>1 DEF Counted, Control, BuffersOK
    <3> QED
      BY <1>0, <2>1, <3>1, <3>2, <3>3, <3>4, <3>5 DEF Counted, Control, BuffersOK
  <2>6. Costs(e, 0, k, 0, 1, 0, 0)
    <3>1. Len(wbuf[e]) \in Nat /\ Len(rbuf[e]) \in Nat /\ calls[e] \in Nat
      BY SideNumbers DEF Counted, Control
    <3>2. HandlerRank(pc'[e]) <= HandlerRank(pc[e]) + 1
      BY <2>2, Ranks DEF Counted, Control, Types
    <3>3. SocketRank(sock[e]) \in Int /\ StatusRank(status[e]) \in Int
      BY RankTypes
    <3> QED
      BY <2>2, <2>4, <3>1, <3>2, <3>3 DEF Costs
  <2>7. Flows(0, 4 * (-k))
    <3>1. Len(net[Peer(e)]) \in Nat
      BY <1>0, SideNumbers DEF Counted, Control
    <3>2. Len(net'[Peer(e)]) <= Len(net[Peer(e)]) + (-k) /\ -k \in Int
      <4>1. PICK a, a2 : a = Len(net[Peer(e)]) /\ a2 = Len(net'[Peer(e)])
        OBVIOUS
      <4>2. a \in Nat /\ a2 = a - k /\ k \in Nat
        BY <2>4, <3>1, <4>1
      <4>3. a2 <= a + (-k) /\ -k \in Int
        BY <4>2
      <4> QED
        BY <4>1, <4>3
    <3> QED
      BY <1>0, <2>2, <2>4, <3>2, WireChange
  <2>8. Paid(0, 4 * (-k), 0, k, 0, 1, 0, 0)
    BY <2>4 DEF Paid
  <2> QED
    BY <2>3, <2>6, <2>7, <2>8, Falls DEF Counted
<1>3. CASE Timer(e) \/ Starved(e)
  <2>1. UNCHANGED <<payload, status, sock, wbuf, net, rbuf, mgr>>
    BY <1>3 DEF Timer, Starved, Constant
  <2>2. Apart(e)
    BY <1>0, <1>3, <2>1 DEF Timer, Starved, Stop, Apart, Counted, Control, Types
  <2>3. /\ Len(wbuf[e]) \in Nat /\ Len(rbuf[e]) \in Nat /\ calls[e] \in Nat
        /\ SocketRank(sock[e]) \in Int /\ StatusRank(status[e]) \in Int
    BY SideNumbers, RankTypes DEF Counted, Control
  <2>4. CASE Timer(e)
    <3>1. /\ calls'[e] = calls[e] - 1 /\ HandlerRank(pc'[e]) = 1 /\ HandlerRank(pc[e]) = 0
      BY <2>4, Ranks DEF Timer, Counted, Control, Types
    <3>2. Costs(e, 0, 0, -1, 1, 0, 0)
      BY <2>1, <2>3, <3>1 DEF Costs
    <3>3. Paid(0, 0, 0, 0, -1, 1, 0, 0)
      BY DEF Paid
    <3> QED
      BY <2>1, <2>2, <3>2, <3>3, Flowless, Falls DEF Counted
  <2>5. CASE Starved(e)
    <3>1. /\ calls'[e] = calls[e] /\ HandlerRank(pc'[e]) = 0 /\ HandlerRank(pc[e]) = 1
      BY <2>5, Ranks DEF Starved, Stop, Counted, Control, Types
    <3>2. Costs(e, 0, 0, 0, -1, 0, 0)
      BY <2>1, <2>3, <3>1 DEF Costs
    <3>3. Paid(0, 0, 0, 0, 0, -1, 0, 0)
      BY DEF Paid
    <3> QED
      BY <2>1, <2>2, <3>2, <3>3, Flowless, Falls DEF Counted
  <2> QED
    BY <1>3, <2>4, <2>5
<1> QED
  BY <1>1, <1>2, <1>3

\* The numbers of a side that has lost what it had.
LEMMA LostNumbers ==
  ASSUME Counted, NEW e \in Sides
  PROVE  /\ Len(wbuf[e]) \in Nat /\ Len(rbuf[e]) \in Nat /\ calls[e] \in Nat
         /\ \A x : SocketRank(x) <= SocketRank(x) + 0 /\ StatusRank(x) <= StatusRank(x) + 0
         /\ \A x : SocketRank("Unconnected") <= SocketRank(x) + 0
         /\ \A x : StatusRank("Error") <= StatusRank(x) + 0
<1>1. Len(wbuf[e]) \in Nat /\ Len(rbuf[e]) \in Nat /\ calls[e] \in Nat
  BY SideNumbers DEF Counted, Control
<1>2. SocketRank("Unconnected") = 0 /\ StatusRank("Error") = 0
  BY Ranks DEF Final
<1>3. ASSUME NEW x
      PROVE  /\ SocketRank(x) <= SocketRank(x) + 0 /\ StatusRank(x) <= StatusRank(x) + 0
             /\ SocketRank("Unconnected") <= SocketRank(x) + 0
             /\ StatusRank("Error") <= StatusRank(x) + 0
  <2>1. SocketRank(x) \in 0 .. 9 /\ StatusRank(x) \in 0 .. 31
    BY Ranks, Zenon
  <2> QED
    BY <1>2, <2>1
<1> QED
  BY <1>1, <1>3

LEMMA CostsAborts ==
  ASSUME Counted, NEW e \in Sides, Aborting(e)
  PROVE  StepsLeft' < StepsLeft
<1>0. Peer(e) \in Sides /\ Peer(e) # e /\ Peer(Peer(e)) = e
  BY Peers
<1>1. /\ wbuf' = [wbuf EXCEPT ![e] = << >>] /\ sock' = [sock EXCEPT ![e] = "Unconnected"]
      /\ rbuf' = [rbuf EXCEPT ![e] = rbuf'[e]] /\ rbuf'[e] \in {rbuf[e], Tail(rbuf[e]), << >>}
      /\ rbuf'[e] = Tail(rbuf[e]) => rbuf[e] # << >> \/ rbuf'[e] = rbuf[e]
      /\ status' = [status EXCEPT ![e] = "Error"] /\ UNCHANGED <<payload, calls>>
      /\ mgr' = [mgr EXCEPT ![e] = StopTransfer(payload, mgr[e])]
      /\ \/ pc' = pc /\ sock[e] \in {"Connecting", "Connected", "Closing"}
         \/ pc[e] = "Reading" /\ pc' = [pc EXCEPT ![e] = "Loop"]
      /\ UNCHANGED net \/ net' = [net EXCEPT ![Peer(e)] = << >>]
  <2>1. CASE ProtocolError(e)
    BY <2>1 DEF ProtocolError, Readable, Abort, Failed, Stop, Constant, Counted, Control, BuffersOK
  <2>2. CASE RemoteClosed(e) \/ Reset(e) \/ NetworkError(e)
    BY <2>2 DEF RemoteClosed, Reset, NetworkError, SocketError, Abort, Failed, Constant, Counted,
                Control, BuffersOK
  <2> QED
    BY <2>1, <2>2 DEF Aborting
<1>2. Apart(e)
  BY <1>0, <1>1 DEF Apart, Counted, Control, Types, BuffersOK
<1>3. mgr'["up"].total = mgr["up"].total
  BY <1>1 DEF StopTransfer, Counted, Control, Types, Sides
<1>4. Len(wbuf'[e]) <= Len(wbuf[e]) + 0 /\ Len(rbuf'[e]) <= Len(rbuf[e]) + 0
      /\ calls'[e] <= calls[e] + 0
  <2>1. Len(wbuf[e]) \in Nat /\ Len(rbuf[e]) \in Nat /\ calls[e] \in Nat
    BY LostNumbers
  <2>2. Len(wbuf'[e]) = 0
    BY <1>1, EmptySeq DEF Counted, Control, BuffersOK
  <2>3. Len(rbuf'[e]) <= Len(rbuf[e])
    <3>1. PICK r : r = rbuf[e]
      OBVIOUS
    <3>2. r \in Seq(Messages) /\ Len(r) \in Nat /\ Len(<< >>) = 0
          /\ (r # << >> => Len(Tail(r)) = Len(r) - 1)
      BY <3>1, Lengths, EmptySeq DEF Counted, Control, BuffersOK
    <3>3. rbuf'[e] = r \/ rbuf'[e] = << >> \/ (rbuf'[e] = Tail(r) /\ r # << >>)
      BY <1>1, <3>1
    <3>4. PICK x, y : x = Len(r) /\ y = Len(rbuf'[e])
      OBVIOUS
    <3>5. x \in Nat /\ (y = x \/ y = 0 \/ y = x - 1)
      BY <3>2, <3>3, <3>4
    <3>6. y <= x
      BY <3>5
    <3> QED
      BY <3>1, <3>4, <3>6
  <2> QED
    BY <1>1, <2>1, <2>2, <2>3
<1>5. SocketRank(sock'[e]) <= SocketRank(sock[e]) + 0
      /\ StatusRank(status'[e]) <= StatusRank(status[e]) + 0
  BY <1>1, LostNumbers DEF Counted, Control, Types
<1>6. Costs(e, 0, 0, 0, 0, -1, 0) \/ Costs(e, 0, 0, 0, -1, 0, 0)
  <2>1. CASE pc' = pc /\ sock[e] \in {"Connecting", "Connected", "Closing"}
    <3>1. SocketRank(sock[e]) >= 1 /\ SocketRank(sock[e]) \in Int
      BY <2>1, Ranks
    <3>2. SocketRank(sock'[e]) = 0
      BY <1>1, Ranks DEF Counted, Control, Types
    <3>3. SocketRank(sock'[e]) <= SocketRank(sock[e]) + (-1)
      BY <3>1, <3>2
    <3>4. HandlerRank(pc'[e]) <= HandlerRank(pc[e]) + 0
      BY <2>1, RankTypes
    <3> QED
      BY <1>4, <1>5, <3>3, <3>4 DEF Costs
  <2>2. CASE pc[e] = "Reading" /\ pc' = [pc EXCEPT ![e] = "Loop"]
    <3>1. HandlerRank(pc'[e]) <= HandlerRank(pc[e]) + (-1)
      BY <2>2, Ranks DEF Counted, Control, Types
    <3> QED
      BY <1>4, <1>5, <3>1 DEF Costs
  <2> QED
    BY <1>1, <2>1, <2>2
<1>7. Flows(0, 4 * 0)
  <2>1. Len(net'[Peer(e)]) <= Len(net[Peer(e)]) + 0
    <3>1. Len(net[Peer(e)]) \in Nat /\ Len(<< >>) = 0
      BY <1>0, SideNumbers, EmptySeq DEF Counted, Control
    <3>2. net'[Peer(e)] = net[Peer(e)] \/ net'[Peer(e)] = << >>
      BY <1>0, <1>1 DEF Counted, Control, BuffersOK
    <3> QED
      BY <3>1, <3>2
  <2>2. net'[e] = net[e] /\ 0 \in Int
    BY <1>0, <1>1 DEF Counted, Control, BuffersOK
  <2> QED
    BY <1>0, <1>1, <1>3, <2>1, <2>2, WireChange
<1>8. Paid(0, 4 * 0, 0, 0, 0, 0, -1, 0) /\ Paid(0, 4 * 0, 0, 0, 0, -1, 0, 0)
  BY DEF Paid
<1> QED
  BY <1>2, <1>6, <1>7, <1>8, Falls DEF Counted

\* A transfer that ends pays for the last message of its side.
LEMMA CostsGone ==
  ASSUME Counted, NEW e \in Sides, Gone(e), status[e] \notin Final,
         UNCHANGED net, mgr'["up"].total = mgr["up"].total,
         Len(wbuf'[e]) <= Len(wbuf[e]) + 1, Len(rbuf'[e]) <= Len(rbuf[e]),
         calls'[e] <= calls[e] + 1, pc'[e] \in {"Loop", "Reading"} \/ pc'[e] = pc[e]
  PROVE  StepsLeft' < StepsLeft
<1>1. Peer(e) \in Sides /\ Peer(e) # e /\ UNCHANGED payload
  BY Peers DEF Gone
<1>2. Apart(e)
  <2>1. sock'[Peer(e)] = sock[Peer(e)] /\ status'[Peer(e)] = status[Peer(e)]
    BY <1>1 DEF Gone, Counted, Control, Types
  <2> QED
    BY <2>1 DEF Apart, Gone
<1>3. Len(rbuf'[e]) <= Len(rbuf[e]) + 0
  BY LostNumbers
<1>4. HandlerRank(pc'[e]) <= HandlerRank(pc[e]) + 1
  <2>1. HandlerRank(pc[e]) \in 0 .. 3
    BY Ranks, Zenon
  <2>2. pc'[e] \in {"Loop", "Reading"} => HandlerRank(pc'[e]) \in 0 .. 1
    BY Ranks
  <2> QED
    BY <2>1, <2>2
<1>5. SocketRank(sock'[e]) <= SocketRank(sock[e]) + 1
  <2>1. SocketRank(sock[e]) \in 0 .. 9
    BY Ranks, Zenon
  <2>2. SocketRank(sock'[e]) \in 0 .. 1
    BY Ranks DEF Gone
  <2> QED
    BY <2>1, <2>2
<1>6. StatusRank(status'[e]) <= StatusRank(status[e]) + (-13)
  <2>1. StatusRank(status'[e]) = 0
    BY Ranks DEF Gone
  <2>2. StatusRank(status[e]) \in {13, 15, 21}
    <3>1. status[e] \in {"Starting", "WaitingForOffer", "WaitingForUserChoice",
                         "WaitingForPeerAnswer", "Transfering"}
      BY DEF Gone, Counted, Control, Types, UpStatuses, DownStatuses
    <3> QED
      BY <3>1, Ranks
  <2>3. PICK x, y : x = StatusRank(status[e]) /\ y = StatusRank(status'[e])
    OBVIOUS
  <2>4. y = 0 /\ x \in {13, 15, 21}
    BY <2>1, <2>2, <2>3
  <2>5. y <= x + (-13)
    BY <2>4
  <2> QED
    BY <2>3, <2>5
<1>7. Costs(e, 1, 0, 1, 1, 1, -13)
  BY <1>3, <1>4, <1>5, <1>6 DEF Costs
<1>8. Paid(0, 0, 1, 0, 1, 1, 1, -13)
  BY DEF Paid
<1> QED
  BY <1>1, <1>2, <1>7, <1>8, Flowless, Falls DEF Counted

\* What a message read, a message written and a handler that goes on cost.
LEMMA TakeCosts ==
  ASSUME Counted, NEW e \in Sides, Take(e), rbuf[e] # << >>
  PROVE  Len(rbuf'[e]) <= Len(rbuf[e]) + (-1) /\ rbuf'[Peer(e)] = rbuf[Peer(e)]
<1>1. PICK r : r = rbuf[e]
  OBVIOUS
<1>2. r \in Seq(Messages) /\ r # << >> /\ rbuf'[e] = Tail(r) /\ rbuf'[Peer(e)] = rbuf[Peer(e)]
  BY <1>1, Peers DEF Take, Counted, Control, BuffersOK
<1>3. Len(Tail(r)) = Len(r) - 1 /\ Len(r) \in Nat
  BY <1>2, Lengths
<1> QED
  BY <1>1, <1>2, <1>3

LEMMA AppendCosts ==
  ASSUME Counted, NEW e \in Sides, NEW m \in Messages,
         wbuf' = [wbuf EXCEPT ![e] = Append(wbuf[e], m)]
  PROVE  Len(wbuf'[e]) <= Len(wbuf[e]) + 1 /\ wbuf'[Peer(e)] = wbuf[Peer(e)]
<1>1. PICK w : w = wbuf[e]
  OBVIOUS
<1>2. w \in Seq(Messages) /\ wbuf'[e] = Append(w, m) /\ wbuf'[Peer(e)] = wbuf[Peer(e)]
  BY <1>1, Peers DEF Counted, Control, BuffersOK
<1>3. Len(Append(w, m)) = Len(w) + 1 /\ Len(w) \in Nat
  BY <1>2, Lengths
<1> QED
  BY <1>1, <1>2, <1>3

LEMMA ContinueCosts ==
  ASSUME Counted, NEW e \in Sides, Continue(e), NEW h \in Nat, HandlerRank(pc[e]) = h + 1
  PROVE  /\ \/ calls'[e] <= calls[e] + 0 /\ HandlerRank(pc'[e]) <= HandlerRank(pc[e]) + (-h)
            \/ calls'[e] <= calls[e] + 1 /\ HandlerRank(pc'[e]) <= HandlerRank(pc[e]) + (-h - 1)
         /\ pc'[Peer(e)] = pc[Peer(e)] /\ calls'[Peer(e)] = calls[Peer(e)]
<1>1. calls[e] \in Nat /\ HandlerRank("Loop") = 0 /\ HandlerRank("Reading") = 1
  BY SideNumbers, Ranks DEF Counted, Control
<1>2. \/ calls'[e] = calls[e] /\ pc'[e] = "Reading"
      \/ calls'[e] = calls[e] + 1 /\ pc'[e] = "Loop"
  BY DEF Continue, Counted, Control, Types
<1>3. pc'[Peer(e)] = pc[Peer(e)] /\ calls'[Peer(e)] = calls[Peer(e)]
  BY Peers DEF Continue, Counted, Control, Types
<1> QED
  BY <1>1, <1>2, <1>3

LEMMA StopCosts ==
  ASSUME Counted, NEW e \in Sides, Stop(e), pc[e] \in {"Reading", "Written", "Flush"}
  PROVE  /\ calls'[e] <= calls[e] + 0 /\ HandlerRank(pc'[e]) <= HandlerRank(pc[e]) + (-1)
         /\ pc'[Peer(e)] = pc[Peer(e)] /\ calls'[Peer(e)] = calls[Peer(e)]
<1>1. calls[e] \in Nat /\ HandlerRank("Loop") = 0 /\ HandlerRank(pc[e]) = 1
  BY SideNumbers, Ranks DEF Counted, Control
<1>2. calls'[e] = calls[e] /\ pc'[e] = "Loop"
  BY DEF Stop, Counted, Control, Types
<1>3. pc'[Peer(e)] = pc[Peer(e)] /\ calls'[Peer(e)] = calls[Peer(e)]
  BY Peers DEF Stop, Counted, Control, Types
<1> QED
  BY <1>1, <1>2, <1>3

\* The connection closes with w left to write.
LEMMA CloseCosts ==
  ASSUME Counted, NEW e \in Sides, Close(e, wbuf[e])
  PROVE  /\ Len(wbuf'[e]) <= Len(wbuf[e]) + 0
         /\ SocketRank(sock'[e]) <= SocketRank(sock[e]) + 0
         /\ wbuf'[Peer(e)] = wbuf[Peer(e)] /\ sock'[Peer(e)] = sock[Peer(e)]
<1>1. /\ wbuf'[e] = wbuf[e] /\ wbuf'[Peer(e)] = wbuf[Peer(e)]
      /\ sock'[Peer(e)] = sock[Peer(e)]
      /\ sock'[e] = IF wbuf[e] = << >> THEN "Unconnected" ELSE "Closing"
  BY Peers DEF Close, Counted, Control, Types, BuffersOK
<1>2. wbuf[e] # << >> => sock[e] \in {"Connected", "Closing"}
  BY DEF Counted, Control, Sockets
<1>3. SocketRank(sock'[e]) <= SocketRank(sock[e]) + 0
  <2>1. CASE wbuf[e] = << >>
    BY <1>1, <2>1, LostNumbers
  <2>2. CASE wbuf[e] # << >>
    BY <1>1, <1>2, <2>2, Ranks
  <2> QED
    BY <2>1, <2>2
<1>4. Len(wbuf[e]) \in Nat
  BY LostNumbers
<1> QED
  BY <1>1, <1>3, <1>4

LEMMA CostsError ==
  ASSUME Counted, NEW e \in Sides, ReceiveError(e)
  PROVE  StepsLeft' < StepsLeft
<1>1. /\ pc[e] = "Reading" /\ rbuf[e] # << >> /\ Take(e) /\ UNCHANGED <<payload, net>>
      /\ Peer(e) \in Sides /\ Peer(e) # e
  BY Peers DEF ReceiveError, Taking, Readable, Constant
<1>2. Len(rbuf'[e]) <= Len(rbuf[e]) + (-1) /\ rbuf'[Peer(e)] = rbuf[Peer(e)]
  BY <1>1, TakeCosts
<1>3. /\ Len(wbuf[e]) \in Nat /\ calls[e] \in Nat
      /\ \A x : SocketRank(x) <= SocketRank(x) + 0 /\ StatusRank(x) <= StatusRank(x) + 0
  BY LostNumbers
<1>4. CASE /\ e = "up" /\ pc' = [pc EXCEPT ![e] = "Flush"]
           /\ UNCHANGED <<calls, status, mgr, sock, wbuf>>
  <2>1. Apart(e)
    BY <1>1, <1>2, <1>4 DEF Apart, Counted, Control, Types
  <2>2. HandlerRank(pc'[e]) <= HandlerRank(pc[e]) + 0
    BY <1>1, <1>4, Ranks DEF Counted, Control, Types
  <2>3. Costs(e, 0, -1, 0, 0, 0, 0)
    BY <1>2, <1>3, <1>4, <2>2 DEF Costs
  <2>4. Paid(0, 0, 0, -1, 0, 0, 0, 0)
    BY DEF Paid
  <2> QED
    BY <1>1, <1>4, <2>1, <2>3, <2>4, Flowless, Falls DEF Counted
<1>5. CASE Close(e, wbuf[e]) /\ Failed(e, "Peer", mgr[e]) /\ Stop(e)
  <2>1. /\ Len(wbuf'[e]) <= Len(wbuf[e]) + 0
        /\ SocketRank(sock'[e]) <= SocketRank(sock[e]) + 0
        /\ wbuf'[Peer(e)] = wbuf[Peer(e)] /\ sock'[Peer(e)] = sock[Peer(e)]
    BY <1>5, CloseCosts
  <2>2. /\ calls'[e] <= calls[e] + 0 /\ HandlerRank(pc'[e]) <= HandlerRank(pc[e]) + (-1)
        /\ pc'[Peer(e)] = pc[Peer(e)] /\ calls'[Peer(e)] = calls[Peer(e)]
    BY <1>1, <1>5, StopCosts
  <2>3. status'[e] = "Error" /\ status'[Peer(e)] = status[Peer(e)]
    BY <1>1, <1>5 DEF Failed, Counted, Control, Types
  <2>4. mgr'["up"].total = mgr["up"].total
    BY <1>5 DEF Failed, StopTransfer, Counted, Control, Types, Sides
  <2>5. Apart(e)
    BY <1>2, <2>1, <2>2, <2>3 DEF Apart
  <2>6. StatusRank(status'[e]) <= StatusRank(status[e]) + 0
    BY <2>3, LostNumbers
  <2>7. Costs(e, 0, -1, 0, -1, 0, 0)
    BY <1>2, <2>1, <2>2, <2>6 DEF Costs
  <2>8. Paid(0, 0, 0, -1, 0, -1, 0, 0)
    BY DEF Paid
  <2> QED
    BY <1>1, <2>4, <2>5, <2>7, <2>8, Flowless, Falls DEF Counted
<1> QED
  BY <1>4, <1>5 DEF ReceiveError

LEMMA CostsConnects ==
  ASSUME Counted, Connect \/ Connected \/ NewDownload
  PROVE  StepsLeft' < StepsLeft
<1>0. /\ "up" \in Sides /\ "down" \in Sides /\ Peer("up") = "down" /\ Peer("down") = "up"
      /\ UNCHANGED <<payload, pc, calls, net, rbuf, mgr>>
  BY Peers DEF Connect, Connected, NewDownload, Constant, Sides
<1>1. ASSUME NEW e \in Sides
      PROVE  /\ Len(wbuf[e]) \in Nat /\ Len(rbuf'[e]) <= Len(rbuf[e]) + 0
             /\ calls'[e] <= calls[e] + 0 /\ HandlerRank(pc'[e]) <= HandlerRank(pc[e]) + 0
             /\ StatusRank(status[e]) <= StatusRank(status[e]) + 0
  <2>1. HandlerRank(pc'[e]) <= HandlerRank(pc[e]) + 0
    BY <1>0, RankTypes
  <2>2. StatusRank(status[e]) <= StatusRank(status[e]) + 0
    BY RankTypes
  <2> QED
    BY <1>0, <1>1, <2>1, <2>2, LostNumbers
<1>2. ASSUME NEW e \in Sides, NEW v \in Nat, wbuf[e] = << >>,
             wbuf' = [wbuf EXCEPT ![e] = << HandshakeMsg(v) >>]
      PROVE  Len(wbuf'[e]) <= Len(wbuf[e]) + 1 /\ wbuf'[Peer(e)] = wbuf[Peer(e)]
  <2>1. wbuf'[e] = << HandshakeMsg(v) >> /\ wbuf'[Peer(e)] = wbuf[Peer(e)]
    BY <1>2, Peers DEF Counted, Control, BuffersOK
  <2>2. Len(<< HandshakeMsg(v) >>) = 1 /\ Len(<< >>) = 0
    BY EmptySeq
  <2> QED
    BY <1>2, <2>1, <2>2
<1>3. versions["up"] \in Nat /\ versions["down"] \in Nat
  BY DEF Counted, Control, Types, Sides
<1>4. CASE Connect
  <2>1. /\ status["up"] = "Init" /\ status'["up"] = "Starting" /\ UNCHANGED wbuf
        /\ sock["up"] = "None" /\ sock'["up"] \in {"Connecting", "Unconnected"}
        /\ status'["down"] = status["down"] /\ sock'["down"] = sock["down"]
    BY <1>0, <1>4 DEF Connect, Counted, Control, Types, Sockets
  <2>2. Apart("up")
    BY <1>0, <2>1 DEF Apart
  <2>3. /\ SocketRank(sock'["up"]) <= SocketRank(sock["up"]) + 9
        /\ StatusRank(status'["up"]) <= StatusRank(status["up"]) + (-10)
    BY <2>1, Ranks
  <2>4. Costs("up", 0, 0, 0, 0, 9, -10)
    BY <1>0, <1>1, <2>1, <2>3 DEF Costs
  <2>5. Paid(0, 0, 0, 0, 0, 0, 9, -10)
    BY DEF Paid
  <2> QED
    BY <1>0, <2>2, <2>4, <2>5, Flowless, Falls DEF Counted
<1>5. CASE Connected
  <2>1. /\ sock["up"] = "Connecting" /\ sock'["up"] = "Connected" /\ UNCHANGED status
        /\ sock'["down"] = sock["down"] /\ wbuf["up"] = << >>
    BY <1>0, <1>5 DEF Connected, Counted, Control, Types, Sockets
  <2>2. Len(wbuf'["up"]) <= Len(wbuf["up"]) + 1 /\ wbuf'["down"] = wbuf["down"]
    BY <1>0, <1>2, <1>3, <1>5, <2>1 DEF Connected
  <2>3. Apart("up")
    BY <1>0, <2>1, <2>2 DEF Apart
  <2>4. SocketRank(sock'["up"]) <= SocketRank(sock["up"]) + (-7)
    BY <2>1, Ranks
  <2>5. Costs("up", 1, 0, 0, 0, -7, 0)
    BY <1>0, <1>1, <2>1, <2>2, <2>4 DEF Costs
  <2>6. Paid(0, 0, 1, 0, 0, 0, -7, 0)
    BY DEF Paid
  <2> QED
    BY <1>0, <2>3, <2>5, <2>6, Flowless, Falls DEF Counted
<1>6. CASE NewDownload
  <2>1. /\ status["down"] = "None" /\ status'["down"] = "Starting"
        /\ sock["down"] = "None" /\ sock'["down"] = "Connected" /\ wbuf["down"] = << >>
        /\ status'["up"] = status["up"] /\ sock'["up"] = sock["up"]
    BY <1>0, <1>6 DEF NewDownload, Counted, Control, Types, Sockets
  <2>2. Len(wbuf'["down"]) <= Len(wbuf["down"]) + 1 /\ wbuf'["up"] = wbuf["up"]
    BY <1>0, <1>2, <1>3, <1>6, <2>1 DEF NewDownload
  <2>3. Apart("down")
    BY <1>0, <2>1, <2>2 DEF Apart
  <2>4. /\ SocketRank(sock'["down"]) <= SocketRank(sock["down"]) + 2
        /\ StatusRank(status'["down"]) <= StatusRank(status["down"]) + (-10)
    BY <2>1, Ranks
  <2>5. Costs("down", 1, 0, 0, 0, 2, -10)
    BY <1>0, <1>1, <2>2, <2>4 DEF Costs
  <2>6. Paid(0, 0, 1, 0, 0, 0, 2, -10)
    BY DEF Paid
  <2> QED
    BY <1>0, <2>3, <2>5, <2>6, Flowless, Falls DEF Counted
<1> QED
  BY <1>4, <1>5, <1>6

LEMMA CostsHandshake ==
  ASSUME Counted, NEW e \in Sides, ReceiveHandshake(e)
  PROVE  StepsLeft' < StepsLeft
<1>1. /\ rbuf[e] # << >> /\ Take(e) /\ UNCHANGED <<payload, net, pc, calls, sock, mgr>>
      /\ status[e] = "Starting" /\ Peer(e) \in Sides /\ Peer(e) # e
  BY Peers DEF ReceiveHandshake, Taking, Readable, Constant, Counted, Control, Greeting
<1>2. Len(rbuf'[e]) <= Len(rbuf[e]) + (-1) /\ rbuf'[Peer(e)] = rbuf[Peer(e)]
  BY <1>1, TakeCosts
<1>3. Len(wbuf[e]) \in Nat /\ calls'[e] <= calls[e] + 0
      /\ HandlerRank(pc'[e]) <= HandlerRank(pc[e]) + 0
      /\ SocketRank(sock'[e]) <= SocketRank(sock[e]) + 0
      /\ status'[Peer(e)] = status[Peer(e)]
  BY <1>1, LostNumbers, RankTypes DEF ReceiveHandshake, Counted, Control, Types
<1>4. CASE /\ wbuf' = [wbuf EXCEPT ![e] = Append(wbuf[e], Msg("Offer"))]
           /\ status'[e] = "WaitingForPeerAnswer"
  <2>1. Len(wbuf'[e]) <= Len(wbuf[e]) + 1 /\ wbuf'[Peer(e)] = wbuf[Peer(e)]
    BY <1>4, AppendCosts, MessageTypes
  <2>2. Apart(e)
    BY <1>1, <1>2, <1>3, <2>1 DEF Apart
  <2>3. StatusRank(status'[e]) <= StatusRank(status[e]) + (-6)
    BY <1>1, <1>4, Ranks
  <2>4. Costs(e, 1, -1, 0, 0, 0, -6)
    BY <1>2, <1>3, <2>1, <2>3 DEF Costs
  <2>5. Paid(0, 0, 1, -1, 0, 0, 0, -6)
    BY DEF Paid
  <2> QED
    BY <1>1, <2>2, <2>4, <2>5, Flowless, Falls DEF Counted
<1>5. CASE UNCHANGED wbuf /\ status'[e] = "WaitingForOffer"
  <2>1. Apart(e)
    BY <1>1, <1>2, <1>3, <1>5 DEF Apart
  <2>2. StatusRank(status'[e]) <= StatusRank(status[e]) + 0
    BY <1>1, <1>5, Ranks
  <2>3. Costs(e, 0, -1, 0, 0, 0, 0)
    BY <1>2, <1>3, <1>5, <2>2 DEF Costs
  <2>4. Paid(0, 0, 0, -1, 0, 0, 0, 0)
    BY DEF Paid
  <2> QED
    BY <1>1, <2>1, <2>3, <2>4, Flowless, Falls DEF Counted
<1> QED
  BY <1>4, <1>5 DEF ReceiveHandshake, Counted, Control, Types

\* The download goes on with what it has read, or with the choice of its user.
LEMMA CostsDown ==
  ASSUME Counted,
         \/ ReceiveOffer \/ UserAccepts
         \/ Receives /\ Continue("down") /\ UNCHANGED <<status, error, sock, wbuf>>
  PROVE  StepsLeft' < StepsLeft
<1>0. /\ "down" \in Sides /\ Peer("down") = "up"
      /\ UNCHANGED <<payload, net, sock>> /\ mgr'["up"] = mgr["up"]
  BY Peers DEF ReceiveOffer, UserAccepts, Receives, Constant, Sides, Counted, Control, Types
<1>1. /\ Len(wbuf["down"]) \in Nat /\ Len(rbuf["down"]) \in Nat /\ calls["down"] \in Nat
      /\ SocketRank(sock'["down"]) <= SocketRank(sock["down"]) + 0
  BY <1>0, LostNumbers
<1>2. CASE \/ ReceiveOffer
           \/ Receives /\ Continue("down") /\ UNCHANGED <<status, error, sock, wbuf>>
  <2>1. /\ pc["down"] = "Reading" /\ rbuf["down"] # << >> /\ Take("down") /\ Continue("down")
        /\ UNCHANGED wbuf
    BY <1>2 DEF ReceiveOffer, Receives, Taking, Readable
  <2>2. status'["up"] = status["up"]
        /\ StatusRank(status'["down"]) <= StatusRank(status["down"]) + 0
    <3>1. CASE ReceiveOffer
      BY <1>0, <3>1, Ranks DEF ReceiveOffer, Expected, Counted, Control, Types
    <3>2. CASE UNCHANGED status
      BY <1>0, <3>2, LostNumbers
    <3> QED
      BY <1>2, <3>1, <3>2
  <2>3. Len(rbuf'["down"]) <= Len(rbuf["down"]) + (-1) /\ rbuf'["up"] = rbuf["up"]
    BY <1>0, <2>1, TakeCosts
  <2>4. HandlerRank(pc["down"]) = 0 + 1
    BY <2>1, Ranks
  <2>5. /\ \/ /\ calls'["down"] <= calls["down"] + 0
              /\ HandlerRank(pc'["down"]) <= HandlerRank(pc["down"]) + 0
           \/ /\ calls'["down"] <= calls["down"] + 1
              /\ HandlerRank(pc'["down"]) <= HandlerRank(pc["down"]) + (-1)
        /\ pc'["up"] = pc["up"] /\ calls'["up"] = calls["up"]
    BY <1>0, <2>1, <2>4, ContinueCosts
  <2>6. Apart("down")
    BY <1>0, <2>1, <2>2, <2>3, <2>5 DEF Apart
  <2>7. Len(wbuf'["down"]) <= Len(wbuf["down"]) + 0
    BY <1>1, <2>1
  <2>8. Costs("down", 0, -1, 0, 0, 0, 0) \/ Costs("down", 0, -1, 1, -1, 0, 0)
    BY <1>1, <2>2, <2>3, <2>5, <2>7 DEF Costs
  <2>9. Paid(0, 0, 0, -1, 0, 0, 0, 0) /\ Paid(0, 0, 0, -1, 1, -1, 0, 0)
    BY DEF Paid
  <2> QED
    BY <1>0, <2>6, <2>8, <2>9, Flowless, Falls DEF Counted
<1>3. CASE UserAccepts
  <2>1. /\ UNCHANGED <<pc, calls, rbuf>> /\ status["down"] = "WaitingForUserChoice"
        /\ status'["down"] = "Transfering" /\ status'["up"] = status["up"]
        /\ wbuf' = [wbuf EXCEPT !["down"] = Append(wbuf["down"], Msg("Accept"))]
    BY <1>0, <1>3 DEF UserAccepts, Counted, Control, Types
  <2>2. Len(wbuf'["down"]) <= Len(wbuf["down"]) + 1 /\ wbuf'["up"] = wbuf["up"]
    BY <1>0, <2>1, AppendCosts, MessageTypes
  <2>3. Apart("down")
    BY <1>0, <2>1, <2>2 DEF Apart
  <2>4. /\ StatusRank(status'["down"]) <= StatusRank(status["down"]) + (-8)
        /\ HandlerRank(pc'["down"]) <= HandlerRank(pc["down"]) + 0
    <3>1. HandlerRank(pc'["down"]) <= HandlerRank(pc["down"]) + 0
      BY <2>1, RankTypes
    <3> QED
      BY <2>1, <3>1, Ranks
  <2>5. Costs("down", 1, 0, 0, 0, 0, -8)
    BY <1>1, <2>1, <2>2, <2>4 DEF Costs
  <2>6. Paid(0, 0, 1, 0, 0, 0, 0, -8)
    BY DEF Paid
  <2> QED
    BY <1>0, <2>3, <2>5, <2>6, Flowless, Falls DEF Counted
<1> QED
  BY <1>2, <1>3

\* What the end of refill_send_buffer costs.
RefillCosts ==
  /\ \/ calls'["up"] <= calls["up"] + 0 /\ HandlerRank(pc'["up"]) <= HandlerRank(pc["up"]) + (-1)
     \/ calls'["up"] <= calls["up"] + 1 /\ HandlerRank(pc'["up"]) <= HandlerRank(pc["up"]) + (-3)
  /\ pc'["down"] = pc["down"] /\ calls'["down"] = calls["down"]

LEMMA ReturnCosts ==
  ASSUME Counted, RefillReturns
  PROVE  RefillCosts
<1>0. /\ "up" \in Sides /\ Peer("up") = "down" /\ calls["up"] \in Nat
      /\ "down" \in Sides
  BY Peers, LostNumbers DEF Sides
<1>1. CASE pc["up"] = "Accepted" /\ Continue("up")
  <2>1. HandlerRank(pc["up"]) = 3
    BY <1>1, Ranks
  <2>2. /\ \/ calls'["up"] = calls["up"] /\ pc'["up"] = "Reading"
           \/ calls'["up"] = calls["up"] + 1 /\ pc'["up"] = "Loop"
        /\ pc'["down"] = pc["down"] /\ calls'["down"] = calls["down"]
    BY <1>0, <1>1 DEF Continue, Counted, Control, Types
  <2> QED
    BY <1>0, <2>1, <2>2, Ranks DEF RefillCosts
<1>2. CASE pc["up"] = "Written" /\ Stop("up")
  <2>1. calls'["up"] = calls["up"] /\ pc'["up"] = "Loop" /\ pc'["down"] = pc["down"]
        /\ calls'["down"] = calls["down"]
    BY <1>0, <1>2 DEF Stop, Counted, Control, Types
  <2> QED
    BY <1>0, <1>2, <2>1, Ranks DEF RefillCosts
<1>3. CASE pc["up"] = "Flushed" /\ pc' = [pc EXCEPT !["up"] = "Flush"] /\ UNCHANGED calls
  <2>1. calls'["up"] = calls["up"] /\ pc'["up"] = "Flush" /\ pc'["down"] = pc["down"]
        /\ calls'["down"] = calls["down"]
    BY <1>0, <1>3 DEF Counted, Control, Types
  <2> QED
    BY <1>0, <1>3, <2>1, Ranks DEF RefillCosts
<1> QED
  BY <1>1, <1>2, <1>3 DEF RefillReturns

\* The upload is refilled, or flushed, for as long as a handler does so.
LEMMA CostsRefills ==
  ASSUME Counted, ReceiveAccept \/ RefillEnds \/ UpFlush \/ UpFlushEnds
  PROVE  StepsLeft' < StepsLeft
<1>0. /\ "up" \in Sides /\ "down" \in Sides /\ Peer("up") = "down" /\ Peer("down") = "up"
      /\ UNCHANGED payload
  BY Peers DEF ReceiveAccept, RefillEnds, UpFlush, UpFlushEnds, Constant, Sides
<1>1. Len(wbuf["up"]) \in Nat /\ Len(rbuf["up"]) \in Nat /\ calls["up"] \in Nat
      /\ SocketRank(sock["up"]) <= SocketRank(sock["up"]) + 0
      /\ StatusRank(status["up"]) <= StatusRank(status["up"]) + 0
  BY <1>0, LostNumbers
<1>2. CASE ReceiveAccept
  <2>1. /\ pc["up"] = "Reading" /\ pc'["up"] = "Accepted" /\ pc'["down"] = pc["down"]
        /\ rbuf["up"] # << >> /\ Take("up") /\ UNCHANGED <<calls, sock, wbuf, net>>
        /\ status["up"] = "WaitingForPeerAnswer" /\ status'["up"] = "Transfering"
        /\ status'["down"] = status["down"]
    BY <1>0, <1>2 DEF ReceiveAccept, Taking, Readable, Expected, Counted, Control, Types
  <2>2. mgr'["up"].total = mgr["up"].total
    <3>1. mgr["up"] = NewManager(payload)
      BY <2>1 DEF Counted, Control, Sending, Unanswered
    <3>2. mgr'["up"] = StartTransfer(mgr["up"], "Sending")
      BY <1>0, <1>2 DEF ReceiveAccept, Counted, Control, Types
    <3> QED
      BY <3>1, <3>2 DEF NewManager, StartTransfer
  <2>3. Len(rbuf'["up"]) <= Len(rbuf["up"]) + (-1) /\ rbuf'["down"] = rbuf["down"]
    BY <1>0, <2>1, TakeCosts
  <2>4. Apart("up")
    BY <1>0, <2>1, <2>3 DEF Apart
  <2>5. /\ HandlerRank(pc'["up"]) <= HandlerRank(pc["up"]) + 2
        /\ StatusRank(status'["up"]) <= StatusRank(status["up"]) + (-2)
    BY <2>1, Ranks
  <2>6. Costs("up", 0, -1, 0, 2, 0, -2)
    BY <1>1, <2>1, <2>3, <2>5 DEF Costs
  <2>7. Paid(0, 0, 0, -1, 0, 2, 0, -2)
    BY DEF Paid
  <2> QED
    BY <1>0, <2>1, <2>2, <2>4, <2>6, <2>7, Flowless, Falls DEF Counted
<1>3. CASE RefillEnds
  <2>1. RefillReturns /\ UNCHANGED <<status, sock, wbuf, net, rbuf, mgr>>
    BY <1>3 DEF RefillEnds
  <2>2. RefillCosts
    BY <2>1, ReturnCosts
  <2>3. Apart("up")
    BY <1>0, <2>1, <2>2 DEF Apart, RefillCosts
  <2>4. Costs("up", 0, 0, 0, -1, 0, 0) \/ Costs("up", 0, 0, 1, -3, 0, 0)
    BY <1>1, <2>1, <2>2 DEF Costs, RefillCosts
  <2>5. Paid(0, 0, 0, 0, 0, -1, 0, 0) /\ Paid(0, 0, 0, 0, 1, -3, 0, 0)
    BY DEF Paid
  <2> QED
    BY <1>0, <2>1, <2>3, <2>4, <2>5, Flowless, Falls DEF Counted
<1>4. CASE UpFlush
  <2>1. PICK k \in 1 .. Len(wbuf["up"]) :
          /\ net' = [net EXCEPT !["up"] = net["up"] \o Prefix(wbuf["up"], k)]
          /\ wbuf' = [wbuf EXCEPT !["up"] = Rest(wbuf["up"], k)]
    BY <1>4 DEF UpFlush
  <2>2. /\ pc["up"] = "Flush" /\ pc' = [pc EXCEPT !["up"] = "Flushed"]
        /\ UNCHANGED <<status, calls, sock, rbuf, mgr>>
    BY <1>4 DEF UpFlush
  <2>3. Apart("up")
    BY <1>0, <2>1, <2>2 DEF Apart, Counted, Control, Types, BuffersOK
  <2>4. /\ Len(net'["up"]) <= Len(net["up"]) + k /\ Len(wbuf'["up"]) <= Len(wbuf["up"]) + (-k)
        /\ k \in Nat \ {0} /\ net'["down"] = net["down"]
    <3>1. PICK w, m : w = wbuf["up"] /\ m = net["up"]
      OBVIOUS
    <3>2. w \in Seq(Messages) /\ m \in Seq(Messages) /\ Len(w) \in Nat /\ Len(m) \in Nat
          /\ k \in 0 .. Len(w) /\ k \in Nat \ {0}
      BY <1>0, <2>1, <3>1, LenProperties DEF Counted, Control, BuffersOK
    <3>3. PICK u : u = Prefix(w, k)
      OBVIOUS
    <3>4. Len(Rest(w, k)) = Len(w) - k /\ Len(u) = k /\ u \in Seq(Messages)
      BY <3>2, <3>3, Split
    <3>5. Len(m \o u) = Len(m) + k
      BY <3>2, <3>4, ConcatProperties
    <3>6. /\ net'["up"] = m \o u /\ wbuf'["up"] = Rest(w, k) /\ net'["down"] = net["down"]
      BY <1>0, <2>1, <3>1, <3>3 DEF Counted, Control, BuffersOK
    <3>7. PICK x, y : x = Len(w) /\ y = Len(m)
      OBVIOUS
    <3>8. y + k <= y + k /\ x - k <= x + (-k)
      BY <3>2, <3>7
    <3> QED
      BY <3>1, <3>2, <3>4, <3>5, <3>6, <3>7, <3>8
  <2>5. HandlerRank(pc'["up"]) <= HandlerRank(pc["up"]) + 1
    BY <1>0, <2>2, Ranks DEF Counted, Control, Types
  <2>6. Costs("up", -k, 0, 0, 1, 0, 0)
    <3>1. Len(rbuf'["up"]) <= Len(rbuf["up"]) + 0 /\ calls'["up"] <= calls["up"] + 0
      BY <1>1, <2>2
    <3> QED
      BY <1>1, <2>2, <2>4, <2>5, <3>1 DEF Costs
  <2>7. Flows(0, 4 * k)
    <3>1. k \in Int
      BY <2>4
    <3> QED
      BY <1>0, <2>2, <2>4, <3>1, WireChange
  <2>8. Paid(0, 4 * k, -k, 0, 0, 1, 0, 0)
    BY <2>4 DEF Paid
  <2> QED
    BY <1>0, <2>3, <2>6, <2>7, <2>8, Falls DEF Counted
<1>5. CASE UpFlushEnds
  <2>1. /\ pc["up"] = "Flush" /\ Stop("up") /\ Close("up", wbuf["up"])
        /\ Failed("up", error["up"], mgr["up"]) /\ UNCHANGED <<net, rbuf>>
    BY <1>5 DEF UpFlushEnds
  <2>2. /\ Len(wbuf'["up"]) <= Len(wbuf["up"]) + 0
        /\ SocketRank(sock'["up"]) <= SocketRank(sock["up"]) + 0
        /\ wbuf'["down"] = wbuf["down"] /\ sock'["down"] = sock["down"]
    BY <1>0, <2>1, CloseCosts
  <2>3. /\ calls'["up"] <= calls["up"] + 0 /\ HandlerRank(pc'["up"]) <= HandlerRank(pc["up"]) + (-1)
        /\ pc'["down"] = pc["down"] /\ calls'["down"] = calls["down"]
    BY <1>0, <2>1, StopCosts
  <2>4. status'["up"] = "Error" /\ status'["down"] = status["down"]
    BY <1>0, <2>1 DEF Failed, Counted, Control, Types
  <2>5. mgr'["up"].total = mgr["up"].total
    BY <1>0, <2>1 DEF Failed, StopTransfer, Counted, Control, Types
  <2>6. Apart("up")
    BY <1>0, <2>1, <2>2, <2>3, <2>4 DEF Apart
  <2>7. StatusRank(status'["up"]) <= StatusRank(status["up"]) + 0
    BY <1>0, <2>4, LostNumbers
  <2>8. Costs("up", 0, 0, 0, -1, 0, 0)
    BY <1>1, <2>1, <2>2, <2>3, <2>7 DEF Costs
  <2>9. Paid(0, 0, 0, 0, 0, -1, 0, 0)
    BY DEF Paid
  <2> QED
    BY <1>0, <2>1, <2>5, <2>6, <2>8, <2>9, Flowless, Falls DEF Counted
<1> QED
  BY <1>2, <1>3, <1>4, <1>5

\* A chunk pays for its two messages; what is left of one that fails is paid
\* by the end of the transfer.
LEMMA CostsSends ==
  ASSUME Counted, SendNextChunk
  PROVE  StepsLeft' < StepsLeft
<1>0. /\ "up" \in Sides /\ "down" \in Sides /\ Peer("up") = "down"
      /\ UNCHANGED <<payload, status, sock, net, rbuf>>
      /\ UNCHANGED <<pc, calls>> \/ RefillReturns
  BY Peers DEF SendNextChunk, Constant, Sides
<1>1. PICK n \in 1 .. Remaining(payload, mgr["up"]), msgs \in Seq(Messages) :
        /\ Len(msgs) \in 1 .. 2 /\ wbuf' = [wbuf EXCEPT !["up"] = wbuf["up"] \o msgs]
        /\ Len(content'["up"]) = mgr["up"].total + n
        /\ Sender(payload, mgr'["up"], content'["up"])
        /\ Sender(payload, mgr["up"], content["up"])
  BY SendFacts DEF Counted
<1>2. /\ Len(wbuf["up"]) \in Nat /\ Len(rbuf["up"]) \in Nat /\ calls["up"] \in Nat
      /\ SocketRank(sock["up"]) <= SocketRank(sock["up"]) + 0
      /\ StatusRank(status["up"]) <= StatusRank(status["up"]) + 0
  BY <1>0, LostNumbers
<1>3. Flows(-1, 0)
  <2>1. PICK t, x, t2 : t = TotalSize(payload) /\ x = mgr["up"].total /\ t2 = mgr'["up"].total
    OBVIOUS
  <2>2. t \in Nat /\ x \in Nat
    BY <1>1, <2>1, ControlFacts, PayloadFacts DEF Counted, Sender, Managers
  <2>3. n \in 1 .. t - x /\ t2 = x + n
    BY <1>1, <2>1 DEF Remaining, Sender
  <2>4. t - t2 <= t - x + (-1)
    BY <2>2, <2>3
  <2>5. ToSend = t - x /\ ToSend' = t - t2
    BY <1>0, <2>1 DEF ToSend
  <2>6. WireSteps' = WireSteps /\ WireSteps \in Nat
    BY <1>0, SideNumbers DEF WireSteps, Counted, Control
  <2> QED
    BY <2>4, <2>5, <2>6 DEF Flows
<1>4. Len(wbuf'["up"]) <= Len(wbuf["up"]) + 2 /\ wbuf'["down"] = wbuf["down"]
  <2>1. PICK w : w = wbuf["up"]
    OBVIOUS
  <2>2. w \in Seq(Messages) /\ wbuf'["up"] = w \o msgs /\ wbuf'["down"] = wbuf["down"]
    BY <1>0, <1>1, <2>1 DEF Counted, Control, BuffersOK
  <2>3. Len(w \o msgs) = Len(w) + Len(msgs) /\ Len(w) \in Nat
    BY <2>2, ConcatProperties, LenProperties
  <2> QED
    BY <1>1, <2>1, <2>2, <2>3
<1>5. CASE UNCHANGED <<pc, calls>>
  <2>1. Apart("up")
    BY <1>0, <1>4, <1>5 DEF Apart
  <2>2. HandlerRank(pc'["up"]) <= HandlerRank(pc["up"]) + 0
    BY <1>5, RankTypes
  <2>3. Costs("up", 2, 0, 0, 0, 0, 0)
    BY <1>0, <1>2, <1>4, <1>5, <2>2 DEF Costs
  <2>4. Paid(-1, 0, 2, 0, 0, 0, 0, 0)
    BY DEF Paid
  <2> QED
    BY <1>0, <1>3, <2>1, <2>3, <2>4, Falls DEF Counted
<1>6. CASE RefillReturns
  <2>1. RefillCosts
    BY <1>6, ReturnCosts
  <2>2. Apart("up")
    BY <1>0, <1>4, <2>1 DEF Apart, RefillCosts
  <2>3. Costs("up", 2, 0, 0, -1, 0, 0) \/ Costs("up", 2, 0, 1, -3, 0, 0)
    BY <1>0, <1>2, <1>4, <2>1 DEF Costs, RefillCosts
  <2>4. Paid(-1, 0, 2, 0, 0, -1, 0, 0) /\ Paid(-1, 0, 2, 0, 1, -3, 0, 0)
    BY DEF Paid
  <2> QED
    BY <1>0, <1>3, <2>2, <2>3, <2>4, Falls DEF Counted
<1> QED
  BY <1>0, <1>5, <1>6

\* Where the manager of a sender stops that cannot open a file.
LEMMA FailsInside ==
  ASSUME Control, SendFails
  PROVE  mgr'["up"].total \in mgr["up"].total .. TotalSize(payload) /\ mgr["up"].total \in Nat
<1>1. PICK m, n : m = mgr["up"] /\ n = NextChunkSize(payload, m)
  OBVIOUS
<1>2. PICK f \in Opens(payload, m, n) :
        mgr' = [mgr EXCEPT !["up"] = StopTransfer(payload, OpenFails(payload, m, f))]
  BY <1>1 DEF SendFails, ChunkOpens, Failed
<1>3. m \in Managers(payload) /\ IsPayload(payload)
  BY <1>1, ControlFacts DEF SendFails, Control, Handling, Sending, Sender
<1>4. f \in m.current .. payload.nb /\ m.total <= payload.start[f] /\ m.total \in Nat
      /\ m.current \in 1 .. End(payload)
  BY <1>2, <1>3 DEF Opens, Managers
<1>5. payload.start[f] \in Nat /\ payload.start[f] <= TotalSize(payload)
      /\ TotalSize(payload) \in Nat
  <2>1. f \in 1 .. End(payload)
    BY <1>3, <1>4, PayloadFacts
  <2> QED
    BY <1>3, <2>1, PayloadFacts
<1>6. mgr'["up"].total = m.total + (payload.start[f] - m.total)
  BY <1>2 DEF StopTransfer, OpenFails, TransferError, WithError, Advanced, Control, Types, Sides
<1>7. PICK x, y : x = m.total /\ y = payload.start[f]
  OBVIOUS
<1>8. x + (y - x) = y
  BY <1>4, <1>5, <1>7
<1> QED
  BY <1>1, <1>4, <1>5, <1>6, <1>7, <1>8

LEMMA CostsSendFails ==
  ASSUME Counted, SendFails
  PROVE  StepsLeft' < StepsLeft
<1>0. /\ "up" \in Sides /\ "down" \in Sides /\ Peer("up") = "down"
      /\ UNCHANGED <<payload, calls, rbuf>> /\ status["up"] = "Transfering"
      /\ status' = [status EXCEPT !["up"] = "Error"] /\ sock["up"] = "Connected"
  BY Peers DEF SendFails, Failed, Constant, Sides, Counted, Control, Handling, Sockets, Final
<1>1. PICK n, good, cut, k :
        /\ n \in Nat /\ cut \in CutChunks(mgr["up"].total, n, good) /\ k \in 0 .. Len(wbuf["up"] \o cut)
        /\ net' = [net EXCEPT !["up"] = net["up"] \o Prefix(wbuf["up"] \o cut, k)]
        /\ Close("up", Rest(wbuf["up"] \o cut, k))
  <2>1. NextChunkSize(payload, mgr["up"]) \in Nat
    <3>1. mgr["up"] \in Managers(payload) /\ IsPayload(payload)
          /\ mgr["up"].total < TotalSize(payload)
      BY ControlFacts DEF SendFails, MayRefill, Counted, Control, Handling, Sending, Sender
    <3>2. NextChunkSize(payload, mgr["up"]) \in 1 .. Remaining(payload, mgr["up"])
      BY <3>1, NextChunk
    <3>3. mgr["up"].total \in Nat /\ TotalSize(payload) \in Nat
      BY <3>1, PayloadFacts DEF Managers
    <3> QED
      BY <3>2, <3>3 DEF Remaining
  <2> QED
    BY <2>1 DEF SendFails
<1>2. mgr["up"].total \in Nat /\ mgr'["up"].total \in mgr["up"].total .. TotalSize(payload)
  BY FailsInside DEF Counted
<1>3. cut \in Seq(Messages) /\ Len(cut) \in 1 .. 2
  BY <1>1, <1>2, CutMsgs
<1>4. PICK w : w = wbuf["up"] \o cut
  OBVIOUS
<1>5. /\ w \in Seq(Messages) /\ Len(w) = Len(wbuf["up"]) + Len(cut)
      /\ Len(wbuf["up"]) \in Nat /\ k \in 0 .. Len(w)
  <2>1. PICK v : v = wbuf["up"]
    OBVIOUS
  <2>2. v \in Seq(Messages)
    BY <1>0, <2>1 DEF Counted, Control, BuffersOK
  <2>3. v \o cut \in Seq(Messages) /\ Len(v \o cut) = Len(v) + Len(cut) /\ Len(v) \in Nat
    BY <1>3, <2>2, ConcatProperties, LenProperties
  <2> QED
    BY <1>1, <1>4, <2>1, <2>3
<1>6. /\ net'["down"] = net["down"] /\ wbuf'["down"] = wbuf["down"]
      /\ Len(net'["up"]) <= Len(net["up"]) + k /\ Len(wbuf'["up"]) <= Len(wbuf["up"]) + (2 - k)
  <2>1. PICK m, u, v : m = net["up"] /\ u = Prefix(w, k) /\ v = Rest(w, k)
    OBVIOUS
  <2>2. m \in Seq(Messages) /\ u \in Seq(Messages) /\ Len(u) = k /\ Len(v) = Len(w) - k
    BY <1>0, <1>5, <2>1, Split DEF Counted, Control, BuffersOK
  <2>3. Len(m \o u) = Len(m) + Len(u) /\ Len(m) \in Nat
    BY <2>2, ConcatProperties, LenProperties
  <2>4. net'["up"] = m \o u /\ wbuf'["up"] = v
        /\ net'["down"] = net["down"] /\ wbuf'["down"] = wbuf["down"]
    BY <1>0, <1>1, <1>4, <2>1 DEF Close, Counted, Control, BuffersOK
  <2>5. PICK a, b, x : a = Len(wbuf["up"]) /\ b = Len(cut) /\ x = Len(w)
    OBVIOUS
  <2>6. x - k <= a + (2 - k)
    BY <1>3, <1>5, <2>5
  <2> QED
    BY <1>5, <2>1, <2>2, <2>3, <2>4, <2>5, <2>6
<1>7. HandlerRank(pc'["up"]) <= HandlerRank(pc["up"]) + 0 /\ pc'["down"] = pc["down"]
  <2>1. /\ pc["up"] \in Refilling /\ pc'["down"] = pc["down"]
        /\ pc'["up"] \in {"Crashed", "Loop"} \/ (pc["up"] = "Flushed" /\ pc'["up"] = "Flush")
    BY <1>0 DEF SendFails, Counted, Control, Types
  <2> QED
    BY <2>1, Ranks DEF Refilling
<1>8. /\ SocketRank(sock'["up"]) <= SocketRank(sock["up"]) + 0 /\ sock'["down"] = sock["down"]
      /\ StatusRank(status'["up"]) <= StatusRank(status["up"]) + (-13)
      /\ status'["down"] = status["down"]
  <2>1. sock'["up"] \in {"Unconnected", "Closing"} /\ sock'["down"] = sock["down"]
    BY <1>0, <1>1 DEF Close, Counted, Control, Types
  <2>2. status'["up"] = "Error" /\ status'["down"] = status["down"]
    BY <1>0 DEF Counted, Control, Types
  <2>3. SocketRank(sock'["up"]) \in 0 .. 1 /\ SocketRank(sock["up"]) = 2
    BY <1>0, <2>1, Ranks
  <2>4. StatusRank(status'["up"]) = 0 /\ StatusRank(status["up"]) = 13
    BY <1>0, <2>2, Ranks DEF Final
  <2> QED
    BY <2>1, <2>2, <2>3, <2>4
<1>9. Apart("up")
  BY <1>0, <1>6, <1>7, <1>8 DEF Apart
<1>10. Costs("up", 2 - k, 0, 0, 0, 0, -13)
  <2>1. Len(rbuf'["up"]) <= Len(rbuf["up"]) + 0 /\ calls'["up"] <= calls["up"] + 0
    BY <1>0, LostNumbers
  <2> QED
    BY <1>6, <1>7, <1>8, <2>1 DEF Costs
<1>11. Flows(0, 4 * k)
  <2>1. ToSend' <= ToSend + 0
    <3>1. PICK t, x, y : t = TotalSize(payload) /\ x = mgr["up"].total /\ y = mgr'["up"].total
      OBVIOUS
    <3>2. t \in Nat
      BY <3>1, ControlFacts, PayloadFacts DEF Counted
    <3>3. x \in Nat /\ y \in x .. t /\ ToSend = t - x /\ ToSend' = t - y
      BY <1>0, <1>2, <3>1 DEF ToSend
    <3>4. t - y <= t - x + 0
      BY <3>2, <3>3
    <3> QED
      BY <3>3, <3>4
  <2>2. k \in Int
    BY <1>5
  <2> QED
    BY <1>0, <1>6, <2>1, <2>2, WireMoves DEF Flows
<1>12. Paid(0, 4 * k, 2 - k, 0, 0, 0, 0, -13)
  BY <1>5 DEF Paid
<1> QED
  BY <1>0, <1>9, <1>10, <1>11, <1>12, Falls DEF Counted

LEMMA CostsEnds ==
  ASSUME Counted, NEW e \in Sides,
         \/ VersionMismatch(e)
         \/ e = "up" /\ (ReceiveReject \/ ReceiveCompleted)
         \/ e = "down" /\ UserRejects
         \/ e = "down" /\ Receives /\ ~(UNCHANGED <<status, error, sock, wbuf>>)
  PROVE  StepsLeft' < StepsLeft
<1>1. Gone(e)
  BY GoneWhen DEF Counted
<1>2. status[e] \notin Final /\ UNCHANGED net
  <2>1. VersionMismatch(e) => status[e] = "Starting"
    BY DEF VersionMismatch, Taking, Counted, Control, Greeting, Final
  <2> QED
    BY <2>1 DEF VersionMismatch, ReceiveReject, ReceiveCompleted, Expected, UserRejects, Receives,
                Final
<1>3. mgr'["up"].total = mgr["up"].total
  BY DEF VersionMismatch, ReceiveReject, ReceiveCompleted, UserRejects, Receives, Failed,
         StopTransfer, Counted, Control, Types, Sides
<1>4. PICK m \in {Msg("Error"), Msg("Reject"), Msg("Completed")} :
        wbuf' = [wbuf EXCEPT ![e] = Append(wbuf[e], m)] \/ wbuf' = [wbuf EXCEPT ![e] = wbuf[e]]
  BY DEF VersionMismatch, ReceiveReject, ReceiveCompleted, UserRejects, Receives, DownFailure,
         Close
<1>5. Len(wbuf'[e]) <= Len(wbuf[e]) + 1
  <2>1. m \in Messages
    BY MessageTypes
  <2>2. CASE wbuf' = [wbuf EXCEPT ![e] = Append(wbuf[e], m)]
    BY <2>1, <2>2, AppendCosts
  <2>3. CASE wbuf' = [wbuf EXCEPT ![e] = wbuf[e]]
    <3>1. wbuf'[e] = wbuf[e] /\ Len(wbuf[e]) \in Nat
      BY <2>3, LostNumbers DEF Counted, Control, BuffersOK
    <3> QED
      BY <3>1
  <2> QED
    BY <1>4, <2>2, <2>3
<1>6. Len(rbuf'[e]) <= Len(rbuf[e])
  <2>1. (Take(e) /\ rbuf[e] # << >>) \/ UNCHANGED rbuf
    BY DEF VersionMismatch, ReceiveReject, ReceiveCompleted, UserRejects, Receives, Taking,
           Readable
  <2>2. Len(rbuf[e]) \in Nat
    BY LostNumbers
  <2>3. CASE Take(e) /\ rbuf[e] # << >>
    <3>1. Len(rbuf'[e]) <= Len(rbuf[e]) + (-1)
      BY <2>3, TakeCosts
    <3>2. Len(rbuf'[e]) \in Nat
      BY LenProperties DEF Counted, BuffersOK
    <3> QED
      BY <2>2, <3>1, <3>2
  <2> QED
    BY <2>1, <2>2, <2>3
<1>7. /\ calls'[e] <= calls[e] + 1
      /\ pc'[e] \in {"Loop", "Reading"} \/ pc'[e] = pc[e]
  <2>1. Stop(e) \/ Continue(e) \/ UNCHANGED <<pc, calls>>
    BY DEF VersionMismatch, ReceiveReject, ReceiveCompleted, UserRejects, Receives, DownFailure
  <2>2. calls[e] \in Nat
    BY LostNumbers
  <2> QED
    BY <2>1, <2>2 DEF Stop, Continue, Counted, Control, Types
<1> QED
  BY <1>1, <1>2, <1>3, <1>5, <1>6, <1>7, CostsGone

LEMMA CostsUnheard ==
  ASSUME Counted, FailsUnheard
  PROVE  StepsLeft' < StepsLeft
<1>1. Gone("down") /\ "down" \in Sides
  BY GoneWhen DEF Counted, Sides
<1>2. /\ status["down"] \in {"WaitingForUserChoice", "Transfering"} /\ UNCHANGED net
      /\ UNCHANGED <<pc, calls>> \/ Continue("down")
      /\ \E m : mgr' = [mgr EXCEPT !["down"] = m]
      /\ wbuf' = [wbuf EXCEPT !["down"] = << >>] /\ rbuf' = [rbuf EXCEPT !["down"] = << >>]
  BY UnheardFacts DEF Counted
<1>3. /\ wbuf'["down"] = << >> /\ rbuf'["down"] = << >> /\ mgr'["up"] = mgr["up"]
      /\ status["down"] \notin Final
  BY <1>2 DEF Counted, Control, Types, BuffersOK, Sides, Final
<1>4. Len(wbuf["down"]) \in Nat /\ Len(rbuf["down"]) \in Nat /\ calls["down"] \in Nat
  BY <1>1, LostNumbers
<1>5. Len(wbuf'["down"]) <= Len(wbuf["down"]) + 1 /\ Len(rbuf'["down"]) <= Len(rbuf["down"])
  <2>1. Len(<< >>) = 0
    BY EmptySeq
  <2> QED
    BY <1>3, <1>4, <2>1
<1>6. /\ calls'["down"] <= calls["down"] + 1
      /\ pc'["down"] \in {"Loop", "Reading"} \/ pc'["down"] = pc["down"]
  BY <1>2, <1>4 DEF Continue, Counted, Control, Types, Sides
<1> QED
  BY <1>1, <1>2, <1>3, <1>5, <1>6, CostsGone

LEMMA InsideInit == Init => UpInside
<1> SUFFICES ASSUME Init
             PROVE  UpInside
  OBVIOUS
<1>1. Control
  BY ControlInit
<1>2. IsPayload(payload) /\ mgr["up"] = NewManager(payload)
  BY <1>1, ControlFacts DEF Init, Both, Sides
<1>3. TotalSize(payload) \in Nat /\ mgr["up"].total = 0
  BY <1>2, PayloadFacts DEF NewManager
<1> QED
  BY <1>3 DEF UpInside

LEMMA InsideNext == Control /\ Control' /\ UpInside /\ [Next]_vars => UpInside'
<1> SUFFICES ASSUME Control, Control', UpInside, [Next]_vars
             PROVE  UpInside'
  OBVIOUS
<1>1. UNCHANGED payload
  BY NextConstant DEF Constant
<1>2. ASSUME mgr'["up"].total = mgr["up"].total
      PROVE  UpInside'
  BY <1>1, <1>2 DEF UpInside
<1>3. ASSUME NEW e \in Sides, Handle(e) \/ NetworkError(e)
      PROVE  mgr'["up"].total = mgr["up"].total
  <2>1. UNCHANGED mgr \/ \E m : /\ mgr' = [mgr EXCEPT ![e] = m] /\ m.total = mgr[e].total
    BY <1>3 DEF Handle, Write, Arrive, Timer, Starved, RemoteClosed, Reset, NetworkError,
                SocketError, ReceiveHandshake, VersionMismatch, ProtocolError, ReceiveError,
                Failed, StopTransfer
  <2> QED
    BY <1>3, <2>1 DEF Control, Types, Sides
<1>4. CASE SendNextChunk
  <2>1. Sender(payload, mgr'["up"], content'["up"])
    BY <1>4, SendFacts
  <2>2. mgr'["up"].total \in Nat /\ mgr'["up"].total <= TotalSize(payload)
    BY <2>1 DEF Sender, Positions, Position
  <2>3. TotalSize(payload) \in Nat
    BY ControlFacts, PayloadFacts
  <2> QED
    BY <1>1, <2>2, <2>3 DEF UpInside
<1>5. CASE SendFails
  <2>1. mgr'["up"].total \in mgr["up"].total .. TotalSize(payload) /\ mgr["up"].total \in Nat
    BY <1>5, FailsInside
  <2>2. TotalSize(payload) \in Nat
    BY ControlFacts, PayloadFacts
  <2> QED
    BY <1>1, <2>1, <2>2 DEF UpInside
<1>6. CASE ReceiveAccept
  <2>1. mgr["up"] = NewManager(payload)
    BY <1>6 DEF ReceiveAccept, Expected, Control, Sending, Unanswered
  <2>2. mgr'["up"] = StartTransfer(mgr["up"], "Sending")
    BY <1>6 DEF ReceiveAccept, Control, Types, Sides
  <2> QED
    BY <1>2, <2>1, <2>2 DEF NewManager, StartTransfer
<1>7. CASE \/ Connect \/ Connected \/ ReceiveReject \/ ReceiveCompleted \/ RefillEnds
           \/ UpFlush \/ NewDownload \/ ReceiveOffer \/ UserAccepts \/ UserRejects
           \/ UNCHANGED vars
  <2>1. mgr'["up"] = mgr["up"]
    BY <1>7 DEF Connect, Connected, ReceiveReject, ReceiveCompleted, RefillEnds, UpFlush,
                NewDownload, ReceiveOffer, UserAccepts, UserRejects, vars, Control, Types, Sides
  <2> QED
    BY <1>2, <2>1
<1>8. CASE UpFlushEnds
  <2>1. mgr'["up"] = StopTransfer(payload, mgr["up"])
    BY <1>8 DEF UpFlushEnds, Failed, Control, Types, Sides
  <2> QED
    BY <1>2, <2>1 DEF StopTransfer
<1>9. CASE ReceiveChunk \/ ReceiveChecksums
  <2>1. mgr'["up"] = mgr["up"]
    BY <1>9, ReceivesFacts DEF Receives
  <2> QED
    BY <1>2, <2>1
<1>10. CASE \E e \in Sides : Handle(e) \/ NetworkError(e)
  BY <1>2, <1>3, <1>10
<1>11. CASE FailsUnheard
  <2>1. mgr'["up"] = mgr["up"]
    BY <1>11, UnheardFacts DEF Control, Types, Sides
  <2> QED
    BY <1>2, <2>1
<1> QED
  BY <1>4, <1>5, <1>6, <1>7, <1>8, <1>9, <1>10, <1>11
     DEF Next, UpStep, DownStep, User, FailsUnheard, Sides

LEMMA InsideNumbers ==
  ASSUME Control, UpInside
  PROVE  ToSend \in Nat
<1>1. PICK t, x : t = TotalSize(payload) /\ x = mgr["up"].total
  OBVIOUS
<1>2. t \in Nat /\ x \in 0 .. t
  BY <1>1, ControlFacts, PayloadFacts DEF UpInside
<1> QED
  BY <1>1, <1>2 DEF ToSend

LEMMA NextFalls == Counted /\ Next => StepsLeft' < StepsLeft
<1> SUFFICES ASSUME Counted, Next
             PROVE  StepsLeft' < StepsLeft
  OBVIOUS
<1>1. ASSUME NEW e \in Sides, Handle(e) \/ NetworkError(e)
      PROVE  StepsLeft' < StepsLeft
  BY <1>1, CostsMoving, CostsAborts, CostsHandshake, CostsEnds, CostsError DEF Handle, Aborting
<1>2. CASE Receives
  <2>1. CASE UNCHANGED <<status, error, sock, wbuf>>
    <3>1. /\ status["down"] = "Transfering" /\ status'["down"] = "Transfering"
          /\ DOMAIN status = Sides /\ "down" \in Sides
      BY <1>2, <2>1 DEF Receives, Counted, Control, Types, Sides
    <3>2. ~DownFailure(mgr'["down"]) /\ status' # [status EXCEPT !["down"] = "Completed"]
      BY <3>1 DEF DownFailure, Failed
    <3>3. Continue("down")
      BY <1>2, <3>2 DEF Receives
    <3> QED
      BY <1>2, <2>1, <3>3, CostsDown
  <2>2. CASE ~(UNCHANGED <<status, error, sock, wbuf>>)
    BY <1>2, <2>2, CostsEnds DEF Sides
  <2> QED
    BY <2>1, <2>2
<1>3. CASE UpStep
  BY <1>1, <1>3, CostsConnects, CostsRefills, CostsSends, CostsSendFails, CostsEnds
     DEF UpStep, Sides
<1>4. CASE DownStep
  BY <1>1, <1>2, <1>4, CostsConnects, CostsDown, CostsUnheard, ReceivesFacts
     DEF DownStep, FailsUnheard, Sides, Counted
<1>5. CASE User
  BY <1>5, CostsDown, CostsEnds, CostsUnheard DEF User, FailsUnheard, Sides
<1> QED
  BY <1>1, <1>3, <1>4, <1>5 DEF Next

(* Every transfer takes a bounded number of steps, failures and the breaking *)
(* of connections included: thirteen for each byte, at most, and those to    *)
(* connect, ask and end.  With NobodyIsStuck it ends (EveryTransferEnds) if  *)
(* the steps which are possible are taken (the handlers of Base).            *)
THEOREM TransferIsBounded == Spec => [](StepsLeft \in Nat) /\ [][StepsLeft' < StepsLeft]_vars
<1>1. ASSUME Control, UpInside
      PROVE  StepsLeft \in Nat
  <2>1. ToSend \in Nat /\ WireSteps \in Nat /\ SideSteps("up") \in Nat /\ SideSteps("down") \in Nat
    BY <1>1, InsideNumbers, SideNumbers DEF Control, Sides
  <2> QED
    BY <2>1 DEF StepsLeft
<1>2. Control /\ UpInside => ToSend \in Int
  BY InsideNumbers
<1>3. Control /\ Control' /\ UpInside /\ UpInside' => ToSend' \in Int
  <2> SUFFICES ASSUME Control, Control', UpInside, UpInside'
               PROVE  ToSend' \in Int
    OBVIOUS
  <2>1. IsPayload(payload')
    BY TransferAssumption DEF Control, Types
  <2>2. PICK t, x : t = TotalSize(payload') /\ x = mgr'["up"].total
    OBVIOUS
  <2>3. t \in Nat /\ x \in 0 .. t
    BY <2>1, <2>2, PayloadFacts DEF UpInside
  <2> QED
    BY <2>2, <2>3 DEF ToSend
<1>4. Control /\ UpInside /\ Control' /\ UpInside' /\ [Next]_vars => [StepsLeft' < StepsLeft]_vars
  <2> SUFFICES ASSUME Control, UpInside, Control', UpInside', Next
               PROVE  StepsLeft' < StepsLeft
    OBVIOUS
  <2>1. Counted
    BY <1>2, <1>3 DEF Counted, Control
  <2> QED
    BY <2>1, NextFalls
<1>5. Control /\ UpInside => StepsLeft \in Nat
  BY <1>1
<1> QED
  BY <1>4, <1>5, InsideInit, InsideNext, AlwaysControl, PTL DEF Spec
=============================================================================
