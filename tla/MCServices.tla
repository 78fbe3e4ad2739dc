----------------------------- MODULE MCServices -----------------------------
(* Constants for the run of Services. *)
EXTENDS Services, TLC

(* "s/1" and "s\1" are the same file. *)
FileNames == {"s/1", "s.1", "t"}
Normalized == [n \in FileNames |-> IF n = "s.1" THEN "s/1" ELSE n]

(* "total kills" is read as "total", and 0. *)
IntStats == <<"deaths", "total", "total kills">>
FloatStats == <<"walked">>
AchievementNames == <<"lost", "won">>
FirstWords == [n \in StatName |-> IF n = "total kills" THEN "total" ELSE n]
NoNumber == [n \in StatName |-> 0]
SixDigits == [v \in {10, 11} |-> 10]

(* SelectIn is SelectSeq. *)
ASSUME SelectInIsSelectSeq ==
  \A q \in SeqOf({1, 2, 3}, 4), S \in SUBSET {1, 2, 3} :
    SelectIn(q, S) = SelectSeq(q, LAMBDA e : e \in S)

OwnFiles == [b \in BoardNames |-> b]
=============================================================================
