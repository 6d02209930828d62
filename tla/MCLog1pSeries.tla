---------------------------- MODULE MCLog1pSeries ----------------------------
(***************************************************************************)
(* Model-checking instance of Log1pSeries: x = J - 1 for J = n/16 from    *)
(* -1/2 to 7/2 (both branches, both ends of the documented range and      *)
(* beyond, J <= 0), and the reciprocals 16/n that the oddness property    *)
(* pairs with them.                                                        *)
(***************************************************************************)
EXTENDS Log1pSeries

MCJ == {Rat(n, 16) : n \in -8 .. 56} \cup {Rat(16, n) : n \in 5 .. 45}
MCInputs == {RatSub(j, RatInt(1)) : j \in MCJ}
=============================================================================
