--------------------------- MODULE ButtonDelegate ---------------------------
(***************************************************************************)
(* Where a cell has its buttons (gui_button_delegate.h): carved from the   *)
(* right, in the reverse order of supported_buttons, each if it still      *)
(* fits.  All have one size; a cell is as wide as width of them, and its   *)
(* places are counted from the right.  editorEvent carves again, with the  *)
(* flags of that moment.                                                   *)
(***************************************************************************)
EXTENDS Integers, Sequences, FiniteSets

\* Mutant: carved in the order of supported_buttons.
PlaceFromTheLeft(supported, flags, k) ==
  Cardinality({j \in 1 .. k : supported[j] \in flags})

Place(supported, flags, k) ==
  Cardinality({j \in k .. Len(supported) : supported[j] \in flags})

\* The button at a place, if there is one.
Under(supported, flags, width, place) ==
  {supported[k] : k \in {k \in DOMAIN supported :
                           /\ supported[k] \in flags /\ place <= width
                           /\ Place(supported, flags, k) = place}}
=============================================================================
