---------------------------- MODULE PayloadLoop ----------------------------
(***************************************************************************)
(* The loop of send_next_chunk and receive_chunk (core_payload.h), one     *)
(* iteration at a time, with the File operations it calls: open, is_open,  *)
(* read_data or write_data, at_end and close.  It justifies the operators  *)
(* Moved, Opens and OpenFails of module Payload, which say in one step     *)
(* what the loop computes.                                                 *)
(***************************************************************************)
EXTENDS Payload

CONSTANT Payloads

ASSUME PayloadsAssumption == \A p \in Payloads : IsPayload(p)

VARIABLES
  payload,
  m,            \* the manager
  isOpen, pos,  \* File::is_open and File::pos of the current file
  left,         \* bytes_to_send, or bytes_to_receive
  before, size, \* the manager and the size when the chunk began
  opened        \* files opened since then

vars == <<payload, m, isOpen, pos, left, before, size, opened>>

Init ==
  /\ payload \in Payloads
  /\ m \in {StartTransfer(NewManager(payload), mode) : mode \in {"Sending", "Receiving"}}
  /\ isOpen = FALSE /\ pos = 0
  /\ left = 0 /\ size = 0
  /\ before = m /\ opened = {}

\* The sender takes next_chunk_size; the receiver takes any announced size
\* that passes its check.
ChunkSizes ==
  IF m.mode = "Sending" THEN {NextChunkSize(payload, m)}
                        ELSE {n \in 1 .. ChunkSize : ChunkFits(payload, m, n)}

Begin ==
  /\ left = 0
  /\ \E n \in ChunkSizes :
       /\ n > 0
       /\ left' = n /\ size' = n
  /\ before' = m /\ opened' = {}
  /\ UNCHANGED <<payload, m, isOpen, pos>>

\* The number of bytes read_data or write_data moves, from position q.
MovedBytes(q) ==
  LET rest == FileSize(payload, m.current) - q
  IN  IF left < rest THEN left ELSE rest

\* Mutant: current_file is not advanced at the end of a file.
IterateKeepsFile ==
  /\ left > 0
  /\ m.current \in Files(payload)
  /\ LET q == IF isOpen THEN pos ELSE 0
         n == MovedBytes(q)
     IN  /\ opened' = IF isOpen THEN opened ELSE opened \cup {m.current}
         /\ pos' = q + n
         /\ left' = left - n
         /\ isOpen' = (q + n < FileSize(payload, m.current))
         /\ m' = Advanced(m, m.current, n)
  /\ UNCHANGED <<payload, before, size>>

\* One iteration; q is pos after the file has been opened if need be.
Iterate ==
  /\ left > 0
  /\ m.current \in Files(payload)
  /\ LET q == IF isOpen THEN pos ELSE 0
         n == MovedBytes(q)
         atEnd == q + n = FileSize(payload, m.current)
     IN  /\ opened' = IF isOpen THEN opened ELSE opened \cup {m.current}
         /\ pos' = q + n
         /\ left' = left - n
         /\ isOpen' = ~atEnd
         /\ m' = Advanced(m, IF atEnd THEN m.current + 1 ELSE m.current, n)
  /\ UNCHANGED <<payload, before, size>>

Next == Begin \/ Iterate

Spec == Init /\ [][Next]_vars

----------------------------------------------------------------------------
(* Properties. *)

TypeOK ==
  /\ payload \in Payloads
  /\ m \in Managers(payload) /\ before \in Managers(payload)
  /\ isOpen \in BOOLEAN
  /\ pos \in Nat /\ left \in Nat /\ size \in Nat
  /\ opened \subseteq Files(payload)

\* What every iteration keeps: where the loop stands between the position at
\* which the chunk began and the one at which it ends, which file is open,
\* and which files have been opened and passed on the way.
LoopInv ==
  /\ m = Advanced(before, m.current, size - left)
  /\ left <= size
  /\ m.total + left <= TotalSize(payload)
  /\ before.current <= m.current
  /\ \A i \in 1 .. m.current - 1 :
       /\ payload.start[i] < m.total + left
       /\ payload.start[i + 1] <= m.total
  /\ ~isOpen => m.total = payload.start[m.current]
  /\ isOpen =>
       /\ m.current \in Files(payload)
       /\ m.total = payload.start[m.current] + pos
       /\ 0 < pos /\ m.total < payload.start[m.current + 1]
       /\ left > 0 => left = size
  /\ opened = {f \in before.current .. payload.nb :
                 /\ before.total <= payload.start[f]
                 /\ f < m.current \/ (f = m.current /\ isOpen)}

\* When the loop ends it has moved the manager as Moved says, whatever the
\* boundaries of files and chunks, and opened exactly the files of Opens.
LoopMoves ==
  left = 0 /\ size > 0 =>
    /\ m \in Moved(payload, before, size)
    /\ opened = Opens(payload, before, size)

\* The loop never runs past the last file while bytes are left: its
\* Q_ASSERT (current_file != files.end ()).
NeverPastTheEnd == left > 0 => m.current \in Files(payload)

\* A file is opened at its first byte, when everything before it has been
\* processed: what an error of File::open leaves behind (OpenFails).
OpensAtFirstByte ==
  left > 0 /\ ~isOpen =>
    /\ m.current \in Opens(payload, before, size)
    /\ m.total = payload.start[m.current]

============================================================================
