----------------------------- MODULE MCTransfer -----------------------------
(* Transfer on small payloads, given by the sizes of their files. *)
EXTENDS Transfer, SequencesExt

Shape(sizes) ==
  [nb |-> Len(sizes),
   start |-> [i \in 1 .. Len(sizes) + 1 |-> FoldSeq(+, 0, SubSeq(sizes, 1, i - 1))]]

\* Chunks of 2: one file in two chunks; files that end inside a chunk.
SmallPayloads == {Shape(s) : s \in {<<3>>, <<1, 0, 2>>}}

\* One file in two chunks; a file that ends with its chunk, before an empty
\* one or a full one; a boundary in the middle of a chunk; more chunks than the
\* buffers hold.  The first chunk never opens the second file.
SplitPayloads == {Shape(s) : s \in {<<3>>, <<2, 0, 1>>, <<2, 2>>, <<5, 1>>}}
=============================================================================
