------------------------------ MODULE MCApprovals ------------------------------
(***************************************************************************)
(* A small instance of Approvals: two clients, an approval that can be     *)
(* queued again, a proposal and a notice.                                  *)
(***************************************************************************)
EXTENDS Approvals, TLC

CONSTANTS c1, c2, a1, p1, n1, i1, i2

TwoClients == {c1, c2}
OneApproval == {a1}
OneProposal == {p1}
OneNotice == {n1}
TwoItems == {i1, i2}

(* Clients and item ids are not told apart; every property is safety.      *)
Interchangeable == Permutations(TwoClients) \cup Permutations(TwoItems)
===============================================================================
