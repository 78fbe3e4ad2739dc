-------------------------- MODULE MCManualDispatch --------------------------
(* Constants for the runs of ManualDispatch. *)
EXTENDS ManualDispatch

OneId == {"id"}
=============================================================================
