------------------------------ MODULE Payload ------------------------------
(***************************************************************************)
(* Payload::Manager (core_payload.h): what one endpoint knows of the files *)
(* it sends or receives, and how chunks and checksums move it forward.     *)
(*                                                                         *)
(* A payload is a list of files.  Chunks ignore file boundaries: they cut  *)
(* the concatenation of all the files.  So a payload is represented by the *)
(* offsets of its files in that concatenation: file i holds the positions  *)
(* start[i]+1 .. start[i+1], and is empty when the two offsets are equal.  *)
(* Paths, names and QFile are left out; a position stands for the byte     *)
(* there as the sender's stream carried it, and 0 for any other byte.      *)
(*                                                                         *)
(* A manager is a record                                                   *)
(*   mode     Closed, Sending or Receiving           (transfer_status)     *)
(*   current  file being processed                   (current_file)        *)
(*   next     first file whose checksum is pending   (next_file_to_checksum)*)
(*   total    bytes processed                        (total_transfered)    *)
(*   done     files whose checksum was handled       (nb_files_transfered) *)
(*   error    whether last_error is set                                    *)
(* The Q_ASSERTs of the code are no-ops in a release build: they constrain *)
(* nothing here, and appear as properties of the modules that use this one.*)
(***************************************************************************)
EXTENDS Integers, Sequences

CONSTANT ChunkSize      \* Const::chunk_size

ASSUME ChunkSizeAssumption == ChunkSize \in Nat \ {0}

Modes == {"Closed", "Sending", "Receiving"}

----------------------------------------------------------------------------
(* The file list. *)

IsPayload(p) ==
  /\ p.nb \in Nat \ {0}
  /\ p.start \in [1 .. p.nb + 1 -> Nat]
  /\ p.start[1] = 0
  /\ \A i, j \in 1 .. p.nb + 1 : i <= j => p.start[i] <= p.start[j]

Files(p) == 1 .. p.nb
End(p) == p.nb + 1                      \* files.end ()
TotalSize(p) == p.start[End(p)]
FileSize(p, i) == p.start[i + 1] - p.start[i]

\* The bytes of file i in a content: what its QCryptographicHash has been fed.
FileBytes(p, content, i) ==
  [k \in 1 .. FileSize(p, i) |-> content[p.start[i] + k]]

----------------------------------------------------------------------------
(* Opening and closing a transfer. *)

Managers(p) ==
  [mode : Modes, current : 1 .. End(p), next : 1 .. End(p),
   total : Nat, done : Nat, error : BOOLEAN]

NewManager(p) ==
  [mode |-> "Closed", current |-> End(p), next |-> End(p),
   total |-> 0, done |-> 0, error |-> FALSE]

StartTransfer(m, mode) ==
  [mode |-> mode, current |-> 1, next |-> 1, total |-> 0, done |-> 0,
   error |-> m.error]

StopTransfer(p, m) ==
  [mode |-> "Closed", current |-> End(p), next |-> End(p),
   total |-> m.total, done |-> m.done, error |-> m.error]

WithError(m) ==
  [mode |-> m.mode, current |-> m.current, next |-> m.next,
   total |-> m.total, done |-> m.done, error |-> TRUE]

TransferError(p, m) == StopTransfer(p, WithError(m))

IsTransferComplete(p, m) ==
  m.mode = "Closed" /\ ~m.error /\ m.total = TotalSize(p)

----------------------------------------------------------------------------
(* Moving data.  send_next_chunk and receive_chunk run the same loop: take *)
(* from (or give to) the current file, and go to the next file each time   *)
(* its end is reached, until the chunk is used up.  The loop tests the     *)
(* bytes left before it looks at a file, so that an empty file at the      *)
(* exact end of a chunk is not passed.                                     *)

Remaining(p, m) == TotalSize(p) - m.total

\* Mutant: the last chunk is not truncated.
NextChunkSizeFull(p, m) == ChunkSize

NextChunkSize(p, m) ==
  IF ChunkSize < Remaining(p, m) THEN ChunkSize ELSE Remaining(p, m)

\* File i is passed once the data up to t, t > 0, has been processed.
Passed(p, i, t) == p.start[i] < t /\ p.start[i + 1] <= t

\* current_file is c after a chunk that ends at t.
StopsAt(p, c, t) ==
  /\ \A i \in 1 .. c - 1 : Passed(p, i, t)
  /\ c \in Files(p) => ~Passed(p, c, t)

Advanced(m, c, n) ==
  [mode |-> m.mode, current |-> c, next |-> m.next,
   total |-> m.total + n, done |-> m.done, error |-> m.error]

\* The loop ends with the whole chunk of n bytes processed.
Moved(p, m, n) ==
  {Advanced(m, c, n) : c \in {d \in m.current .. End(p) : StopsAt(p, d, m.total + n)}}

\* The files the loop opens on its way: those it enters at their first byte.
Opens(p, m, n) ==
  {f \in m.current .. p.nb : m.total <= p.start[f] /\ p.start[f] < m.total + n}

\* File::open fails on f: all that comes before it has been processed.
OpenFails(p, m, f) == TransferError(p, Advanced(m, f, p.start[f] - m.total))

\* receive_chunk's only check of the announced size.
ChunkFits(p, m, n) == n <= Remaining(p, m)

\* The managers receive_chunk may leave; unreliable: a file may not open.
Received(p, m, n, unreliable) ==
  IF ~ChunkFits(p, m, n)
  THEN {TransferError(p, m)}
  ELSE Moved(p, m, n)
         \cup {OpenFails(p, m, f) : f \in IF unreliable THEN Opens(p, m, n) ELSE {}}

----------------------------------------------------------------------------
(* Checksums. *)

PendingChecksums(m) == m.current - m.next

\* What take_pending_checksums returns: the checksums of the files passed.
ChecksumList(p, m, content) ==
  [k \in 1 .. PendingChecksums(m) |-> FileBytes(p, content, m.next + k - 1)]

\* next_file_to_checksum and nb_files_transfered advanced by k files.
Seen(m, k) ==
  [mode |-> m.mode, current |-> m.current, next |-> m.next + k,
   total |-> m.total, done |-> m.done + k, error |-> m.error]

\* Mutants: the transfer is never closed, or when no checksum is pending.
ChecksummedStaysOpen(p, m, k) == Seen(m, k)
ChecksummedEarly(p, m, k) ==
  IF m.next + k = m.current THEN StopTransfer(p, Seen(m, k)) ELSE Seen(m, k)

\* The transfer closes when the last checksum has been handled.
Checksummed(p, m, k) ==
  IF m.next + k = End(p) THEN StopTransfer(p, Seen(m, k)) ELSE Seen(m, k)

\* Mutant: the sender leaves the transfer open.
TakePendingChecksumsOpen(p, m) == Seen(m, PendingChecksums(m))

TakePendingChecksums(p, m) == Checksummed(p, m, PendingChecksums(m))

\* Mutant: checksums are counted, not compared.
MatchingCounted(p, m, content, sums, k) == m.next + k <= m.current

\* The first k checksums of the list sums match the files they stand for.
Matching(p, m, content, sums, k) ==
  \A j \in 1 .. k :
    /\ m.next + j - 1 < m.current
    /\ sums[j] = FileBytes(p, content, m.next + j - 1)

\* Checksum k + 1 is the first one refused: it is of a file not complete yet
\* (which closes the transfer), or it differs (which only sets last_error).
Refused(p, m, k) ==
  IF m.next + k = m.current THEN TransferError(p, Seen(m, k))
                            ELSE WithError(Seen(m, k))

\* test_checksums: the manager it leaves; it returns false iff error is set.
TestChecksums(p, m, content, sums) ==
  IF Matching(p, m, content, sums, Len(sums))
  THEN {Checksummed(p, m, Len(sums))}
  ELSE {Refused(p, m, k) :
          k \in {i \in 0 .. Len(sums) - 1 :
                   /\ Matching(p, m, content, sums, i)
                   /\ ~Matching(p, m, content, sums, i + 1)}}

----------------------------------------------------------------------------
(* What goes on the stream, and what is in a content. *)

ChunkMsg(data) == [kind |-> "Chunk", data |-> data]
ChecksumsMsg(sums) == [kind |-> "Checksums", sums |-> sums]

\* content extended by n values.
Extend(content, total, n, values) ==
  [k \in 1 .. total + n |-> IF k <= total THEN content[k] ELSE values[k - total]]

\* n bytes from position total + 1 on; those of the set odd are not the file's.
Span(total, n, odd) ==
  [k \in 1 .. n |-> IF total + k \in odd THEN 0 ELSE total + k]

\* The sums message follows its chunk only when there are checksums to send.
PendingMsgs(p, m, content) ==
  IF PendingChecksums(m) = 0
  THEN << >>
  ELSE << ChecksumsMsg(ChecksumList(p, m, content)) >>
============================================================================
