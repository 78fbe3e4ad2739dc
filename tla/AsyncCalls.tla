----------------------------- MODULE AsyncCalls -----------------------------
(***************************************************************************)
(* What the dispatcher promises a game about asynchronous calls, whichever *)
(* way the game drains the queues: handles are handed out in order and     *)
(* never twice, a call's result is produced once, after its handle, and a  *)
(* result that has been produced is completed once and stays fetchable.    *)
(***************************************************************************)
EXTENDS Naturals, Sequences

VARIABLES
  next,      \* the handle the next call will get
  promised,  \* calls whose result has not been produced
  ready,     \* calls whose result is on its way to the game
  done       \* completed calls, in the order they were completed

vars == <<next, promised, ready, done>>

Init ==
  /\ next = 1
  /\ promised = {}
  /\ ready = {}
  /\ done = << >>

(* A method that allocates a handle for a result to come. *)
Promise ==
  /\ promised' = promised \cup {next}
  /\ next' = next + 1
  /\ UNCHANGED <<ready, done>>

Produce(h) ==
  /\ h \in promised
  /\ promised' = promised \ {h}
  /\ ready' = ready \cup {h}
  /\ UNCHANGED <<next, done>>

(* A method whose result is produced with the handle. *)
Issue ==
  /\ ready' = ready \cup {next}
  /\ next' = next + 1
  /\ UNCHANGED <<promised, done>>

Complete(h) ==
  /\ h \in ready
  /\ ready' = ready \ {h}
  /\ done' = Append(done, h)
  /\ UNCHANGED <<next, promised>>

Next ==
  \/ Promise
  \/ Issue
  \/ \E h \in promised : Produce(h)
  \/ \E h \in ready : Complete(h)

Spec == Init /\ [][Next]_vars
=============================================================================
