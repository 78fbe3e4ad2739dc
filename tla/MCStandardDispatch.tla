------------------------- MODULE MCStandardDispatch -------------------------
(* Constants for the runs of StandardDispatch. *)
EXTENDS StandardDispatch, TLC

(* l1 and l2 listen for the same id: the one every message is queued under. *)
OneId == {"id"}
ListenToOneId == [l \in Listeners |-> "id"]
=============================================================================
