--------------------------- MODULE MCLeaderboards ---------------------------
(* Constants for the runs of Leaderboards. *)
EXTENDS Leaderboards, TLC

OwnFiles == [b \in BoardNames |-> b]
=============================================================================
