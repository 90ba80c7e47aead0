------------------------------ MODULE MCLaunch ------------------------------
(* The steps of an online launch, one of each kind or run of kinds, for TLC. *)
EXTENDS Launch

OnlineSteps == <<"ask", "instant", "wrap", "wait", "command", "claim", "wrap", "game", "command">>
ShortSteps == <<"wrap", "claim", "game">>
=============================================================================
