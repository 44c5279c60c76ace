---------------------------- MODULE MCPaperTrading ----------------------------
(***************************************************************************)
(* Small instances of PaperTrading: two workers, two positions, few trades. *)
(***************************************************************************)
EXTENDS PaperTrading, TLC

CONSTANTS w1, w2, yes, no

TwoWorkers == {w1, w2}
TwoPositions == {yes, no}
OneOrThree == {1, 3}
One == {1}
Two == {2}

(* Neither workers nor positions are told apart, and every property is a   *)
(* safety property.                                                        *)
Interchangeable == Permutations(TwoWorkers) \cup Permutations(TwoPositions)
===============================================================================
