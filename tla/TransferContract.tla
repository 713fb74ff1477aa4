-------------------------- MODULE TransferContract --------------------------
(***************************************************************************)
(* What a transfer promises its two users, without messages, buffers or    *)
(* sockets: the user of the download decides; an accepted payload is       *)
(* delivered whole or the transfer fails; and the user of the upload is    *)
(* told Completed or Rejected only if this is what happened, for good, on  *)
(* the other side.  The sender may miss the news and report an error; the  *)
(* converse never happens.                                                 *)
(***************************************************************************)

VARIABLES
  upOutcome,    \* what each side reports: "Open", then a final status
  downOutcome,
  choice,       \* what the user of the download chose
  delivered     \* the files are complete and verified

vars == <<upOutcome, downOutcome, choice, delivered>>

Init ==
  /\ upOutcome = "Open" /\ downOutcome = "Open"
  /\ choice = "None"
  /\ delivered = FALSE

Accept ==
  /\ downOutcome = "Open" /\ choice = "None"
  /\ choice' = "Accept"
  /\ UNCHANGED <<upOutcome, downOutcome, delivered>>

Reject ==
  /\ downOutcome = "Open" /\ choice = "None"
  /\ choice' = "Reject" /\ downOutcome' = "Rejected"
  /\ UNCHANGED <<upOutcome, delivered>>

Deliver ==
  /\ downOutcome = "Open" /\ choice = "Accept"
  /\ delivered' = TRUE /\ downOutcome' = "Completed"
  /\ UNCHANGED <<upOutcome, choice>>

\* The news reaches the sender.
Report ==
  /\ upOutcome = "Open"
  /\ downOutcome \in {"Completed", "Rejected"}
  /\ upOutcome' = downOutcome
  /\ UNCHANGED <<downOutcome, choice, delivered>>

FailUp ==
  /\ upOutcome = "Open"
  /\ upOutcome' = "Error"
  /\ UNCHANGED <<downOutcome, choice, delivered>>

\* The receiver fails; even after the end, as long as the sender cannot know.
FailDown ==
  /\ downOutcome # "Error"
  /\ upOutcome \notin {"Completed", "Rejected"}
  /\ downOutcome' = "Error"
  /\ UNCHANGED <<upOutcome, choice, delivered>>

Next == Accept \/ Reject \/ Deliver \/ Report \/ FailUp \/ FailDown

Spec == Init /\ [][Next]_vars

----------------------------------------------------------------------------
(* Both users agree on how the transfer ended, unless the sender failed. *)
Agreement ==
  upOutcome \in {"Completed", "Rejected"} =>
    /\ downOutcome = upOutcome
    /\ upOutcome = "Completed" => choice = "Accept" /\ delivered
    /\ upOutcome = "Rejected" => choice = "Reject" /\ ~delivered
=============================================================================
