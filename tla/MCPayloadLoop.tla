--------------------------- MODULE MCPayloadLoop ---------------------------
(* PayloadLoop on every payload of at most MaxFiles files of 0 .. MaxSize. *)
EXTENDS PayloadLoop, SequencesExt

CONSTANTS MaxFiles, MaxSize

Shape(sizes) ==
  [nb |-> Len(sizes),
   start |-> [i \in 1 .. Len(sizes) + 1 |-> FoldSeq(+, 0, SubSeq(sizes, 1, i - 1))]]

SmallPayloads ==
  {Shape(s) : s \in UNION {[1 .. n -> 0 .. MaxSize] : n \in 1 .. MaxFiles}}
============================================================================
