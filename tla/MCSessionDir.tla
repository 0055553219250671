---------------------------- MODULE MCSessionDir ----------------------------
(* Instances of SessionDir for TLC: two goroutines of one process, others alone. *)
EXTENDS SessionDir, TLC

CONSTANTS c, u1, u2, u3, r, m, p1, p2, p3

TwoInOne == [t \in Thread |-> IF t \in {u1, u2} THEN p1 ELSE IF t = u3 THEN p2 ELSE p3]
OneEach == [t \in Thread |-> IF t = u1 THEN p1 ELSE IF t = u2 THEN p2 ELSE p3]
=============================================================================
