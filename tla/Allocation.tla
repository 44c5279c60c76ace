------------------------------- MODULE Allocation -------------------------------
(***************************************************************************)
(* evaluate_allocation: ranked proposals share out the cash above a        *)
(* reserve, under a limit for the run, one for each market and a number of *)
(* executions.  Money is in cents, prices in 1/PScale cents, quantities in *)
(* 1/QScale contracts, as in PaperLedger.                                  *)
(***************************************************************************)
EXTENDS PaperLedger, Sequences, SequencesExt

CONSTANTS
  Markets,              \* what proposals are about
  MaxExecutions,        \* max_executions_per_run
  MaxTotalAllocation,   \* max_total_allocation_per_run
  MaxMarketAllocation,  \* max_allocation_per_market
  ReserveCash           \* reserve_cash_amount

ASSUME AllocationAssumption ==
  /\ MaxExecutions \in Nat /\ MaxTotalAllocation \in Nat
  /\ MaxMarketAllocation \in Nat /\ ReserveCash \in Nat

(* requested: the suggested quantity, capped by the risk agent's; price:   *)
(* the first of the prices in question that is there.                      *)
Proposal ==
  [market : Markets, requested : Nat, price : Nat \ {0},
   policy_decision : {"AUTO_APPROVE", "APPROVAL_REQUIRED", "HARD_BLOCK"}]

(* What is left to the proposals not yet considered.                       *)
Share == [budget : Nat, allocated : Nat, market : [Markets -> Nat], selected : Nat]

Lesser(a, b) == IF a <= b THEN a ELSE b

(* Mutant: the reserve is not set aside.                                   *)
AvailableAll(cash) == IF cash > 0 THEN cash ELSE 0

Available(cash) == IF cash > ReserveCash THEN cash - ReserveCash ELSE 0

FirstShare(cash) ==
  [budget |-> Lesser(Available(cash), MaxTotalAllocation), allocated |-> 0,
   market |-> [k \in Markets |-> 0], selected |-> 0]

MarketCap(share, exposure, p) ==
  MaxMarketAllocation - exposure[p.market] - share.market[p.market]

(* Is p passed over?  Rejected or skipped, it takes nothing.               *)
PassedOver(share, exposure, p) ==
  \/ p.requested = 0
  \/ p.policy_decision \in {"HARD_BLOCK", "APPROVAL_REQUIRED"}
  \/ share.selected >= MaxExecutions
  \/ share.budget = 0
  \/ MarketCap(share, exposure, p) <= 0

Allocatable(share, exposure, p) ==
  Lesser(HalfEven(p.requested * p.price, Scale),
         Lesser(MarketCap(share, exposure, p), share.budget))

(* final_allocated_quantity, rounded down.                                 *)
FinalQuantity(share, exposure, p) ==
  IF PassedOver(share, exposure, p) THEN 0
  ELSE (Allocatable(share, exposure, p) * Scale) \div p.price

FinalValue(share, exposure, p) ==
  HalfEven(FinalQuantity(share, exposure, p) * p.price, Scale)

(* The proposal is considered; one whose quantity rounds to nothing counts *)
(* as skipped.                                                             *)
Consider(share, exposure, p) ==
  LET value == FinalValue(share, exposure, p) IN
  IF FinalQuantity(share, exposure, p) = 0 THEN share
  ELSE [budget    |-> share.budget - value,
        allocated |-> share.allocated + value,
        market    |-> [share.market EXCEPT ![p.market] = @ + value],
        selected  |-> share.selected + 1]

(* The whole run.                                                          *)
Allocated(cash, exposure, ranked) ==
  FoldLeft(LAMBDA share, p : Consider(share, exposure, p), FirstShare(cash), ranked)
===============================================================================
