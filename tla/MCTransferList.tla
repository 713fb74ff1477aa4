--------------------------- MODULE MCTransferList ---------------------------
(* TransferList with two directories. *)
EXTENDS TransferList

MCDirs == << "settings", "other" >>
=============================================================================
