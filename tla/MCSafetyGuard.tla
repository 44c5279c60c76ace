---------------------------- MODULE MCSafetyGuard ----------------------------
(***************************************************************************)
(* Small instances of SafetyGuard.  The thresholds are lowered and keep    *)
(* the order of the defaults: a cooldown after 3 failed cycles, the hard   *)
(* stop after 5 errors.                                                    *)
(***************************************************************************)
EXTENDS SafetyGuard, TLC

CONSTANTS w1, e1, e2

OneWorker == {w1}
OneEvaluator == {e1}
TwoEvaluators == {e1, e2}
OneNumber == {1}
TwoNumbers == {1, 2}
Symmetric == Permutations(TwoEvaluators)

AllServices == {"enable", "disable", "clear", "loss", "config"}
NoRequests == {}
===============================================================================
