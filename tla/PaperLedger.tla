------------------------------ MODULE PaperLedger ------------------------------
(***************************************************************************)
(* The arithmetic of paper trading (services/execution.py and              *)
(* services/valuation.py) on fixed-point numbers.  Money is in cents, a    *)
(* price in 1/PScale cents, a quantity in 1/QScale contracts; in the code  *)
(* money has 2 decimals, prices and quantities 4, so that PScale is 100    *)
(* and QScale 10000.  Fees are always zero.                                *)
(***************************************************************************)
EXTENDS Integers

CONSTANTS QScale, PScale

ASSUME LedgerScales == QScale \in Nat \ {0} /\ PScale \in Nat \ {0}

Scale == QScale * PScale

(* A PaperPosition row; open is status = OPEN, value is market_value.      *)
Position == [qty : Nat, avg : Nat, realized : Int, value : Nat,
             open : BOOLEAN]

NewPosition == [qty |-> 0, avg |-> 0, realized |-> 0, value |-> 0,
                open |-> TRUE]

(* n / d to the nearest integer.  ROUND_HALF_UP takes ties away from zero, *)
(* the decimal module's default ROUND_HALF_EVEN takes them to the even     *)
(* neighbour.                                                              *)
HalfUpNat(n, d) == (2 * n + d) \div (2 * d)
HalfUp(n, d) == IF n >= 0 THEN HalfUpNat(n, d) ELSE -HalfUpNat(-n, d)
HalfEven(n, d) ==
  LET up == HalfUpNat(n, d)
  IN  IF (2 * n + d) % (2 * d) = 0 /\ up % 2 = 1 THEN up - 1 ELSE up

(* quantize_money(quantity * price)                                        *)
Amount(q, price) == HalfUp(q * price, Scale)

CostBasis(r) == Amount(r.qty, r.avg)

(* The position after a BUY of q at price: the average entry price is the  *)
(* rounded cost basis divided by the quantity.                             *)
Bought(r, q, price) ==
  [r EXCEPT !.qty  = r.qty + q,
            !.avg  = HalfEven((CostBasis(r) + Amount(q, price)) * Scale,
                              r.qty + q),
            !.open = TRUE]

(* Mutant: the profit is taken after the entry price is reset.             *)
SoldAfterReset(r, q, price) ==
  LET avg == IF r.qty = q THEN 0 ELSE r.avg IN
  [r EXCEPT !.qty = r.qty - q,
            !.avg = avg,
            !.realized = r.realized + HalfUp((price - avg) * q, Scale),
            !.open = (r.qty # q)]

(* The position after a SELL of q <= r.qty at price.                       *)
Sold(r, q, price) ==
  [r EXCEPT !.qty = r.qty - q,
            !.avg = IF r.qty = q THEN 0 ELSE r.avg,
            !.realized = r.realized + HalfUp((price - r.avg) * q, Scale),
            !.open = (r.qty # q)]

(* revalue_position at a mark price.                                       *)
Marked(r, mark) ==
  [r EXCEPT !.value = Amount(r.qty, mark), !.open = (r.qty > 0)]
===============================================================================
