----------------------------- MODULE MCLobbies -----------------------------
(* Constants for the runs of Lobbies. *)
EXTENDS Lobbies
=============================================================================
