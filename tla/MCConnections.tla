--------------------------- MODULE MCConnections ---------------------------
(* Constants for the runs of Connections. *)
EXTENDS Connections, TLC

CONSTANTS host, guest
Handles == (host :> 3) @@ (guest :> 2)
=============================================================================
