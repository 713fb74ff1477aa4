------------------------------ MODULE MCWindow ------------------------------
(* Window with interchangeable hosts and discovered peers. *)
EXTENDS Window, TLC

Symmetry == Permutations(Discovered) \cup Permutations(Hosts)
=============================================================================
