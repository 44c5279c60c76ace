-------------------------------- MODULE MCOrders --------------------------------
(***************************************************************************)
(* A small instance of Orders: two lifecycle runs; an order of two         *)
(* contracts of a profile that waits twice, and one of one contract of a   *)
(* profile that cancels at the second attempt.                             *)
(***************************************************************************)
EXTENDS Orders

CONSTANTS r1, r2, m1

TwoRuns == {r1, r2}
OfSupervisor == {r1}
OverAll == {r2}
TwoAndOne == <<2, 1>>
OneMarket == {m1}
WaitOrCancel == <<[max_wait |-> 2, cancel_after |-> 0], [max_wait |-> 3, cancel_after |-> 2]>>
Second == {2}
OneOrTwo == {1, 2}
NoneOrOne == {0, 1}
===============================================================================
