-------------------------------- MODULE Sums --------------------------------
(***************************************************************************)
(* The sums that scores are made of: points and penalties are added in the *)
(* order of a list.                                                        *)
(***************************************************************************)
EXTENDS Naturals

\* w[1] + ... + w[n].
SumTo(w, n) ==
    LET sum[i \in 0 .. n] == IF i = 0 THEN 0 ELSE sum[i - 1] + w[i]
    IN  sum[n]
=============================================================================
