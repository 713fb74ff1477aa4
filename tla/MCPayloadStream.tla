-------------------------- MODULE MCPayloadStream --------------------------
(* PayloadStream on small payloads, given by the sizes of their files. *)
EXTENDS PayloadStream, SequencesExt

Shape(sizes) ==
  [nb |-> Len(sizes),
   start |-> [i \in 1 .. Len(sizes) + 1 |-> FoldSeq(+, 0, SubSeq(sizes, 1, i - 1))]]

\* One file or several, chunks that end inside a file, at a file boundary and
\* at the end; files smaller than a chunk; empty files first and in between.
UsualPayloads ==
  {Shape(s) : s \in {<<3>>, <<1, 1, 1>>, <<2, 2>>, <<0, 3>>, <<1, 0, 2>>, <<2, 0, 0, 1>>}}

\* The last file is empty.
TrailingEmpty == {Shape(s) : s \in {<<2, 0>>, <<0>>}}
============================================================================
