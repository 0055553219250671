------------------------------ MODULE MCScoring ------------------------------
(* Instances of Scoring for TLC. *)
EXTENDS Scoring, TLC

CONSTANTS p1, p2, a, b, h1, h2

OneHint == <<h1>>
NoHints == <<>>
OneObjective == <<a>>
TwoObjectives == <<a, b>>

\* b counts twice and needs a.
Chain == [o \in Objective |-> IF o = b THEN {a} ELSE {}]
NoDeps == [o \in Objective |-> {}]
Weighted == [o \in Objective |-> IF o = b THEN 2 ELSE 1]
PenaltyOne == [h \in Hint |-> 1]
Three == [o \in Objective |-> 3]

FastOrClock == {{}, {"clock"}}
Practice == {{"hints"}}
HardOnly == {{"hard"}}

Symmetry == Permutations(Proc)
=============================================================================
