---------------------------- MODULE MCDiscovery ----------------------------
(* Discovery where another host may have one of the two names of ours. *)
EXTENDS Discovery

OurNames == {"me", "me2"}
OnePeer == {"me"}
=============================================================================
