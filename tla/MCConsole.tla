----------------------------- MODULE MCConsole -----------------------------
(* Console with the lengths of its items for names and rates of usual size. *)
EXTENDS Console

MCFileWidths == {0, 8}
MCRateWidth == 11
MCPercentWidth == 4
\* From what is needed without bar and number of files to more than everything.
MCWidths == {17, 18, 25, 28, 29, 35}
=============================================================================
