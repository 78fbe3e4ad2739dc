----------------------------- MODULE Filtering ------------------------------
(***************************************************************************)
(* The loops that keep, of a queue or a map, what satisfies a condition.   *)
(***************************************************************************)
EXTENDS Naturals, Sequences, FiniteSets

PlacesIn(q, S) == {i \in DOMAIN q : q[i] \in S}

(* The elements of q that are in S, in their order: the k-th is the one    *)
(* with k of them up to it.  SelectSeq of Sequences, without recursion.    *)
SelectIn(q, S) ==
  [k \in 1..Cardinality(PlacesIn(q, S)) |->
     q[CHOOSE i \in PlacesIn(q, S) : Cardinality({j \in PlacesIn(q, S) : j <= i}) = k]]
=============================================================================
