----------------------------- MODULE MCGlobalMode ------------------------------
(***************************************************************************)
(* A small instance of GlobalMode.                                         *)
(***************************************************************************)
EXTENDS GlobalMode

CONSTANTS w1, w2

TwoWorkers == {w1, w2}

Calm == [blocked |-> FALSE, loss |-> "NONE", pressure |-> FALSE, signal |-> "NORMAL",
         flags |-> 0, backlog |-> "NORMAL"]
FewPostures == {Calm, [Calm EXCEPT !.loss = "RECENT_LOSS"]}

Relax == [type |-> "RELAX_TO_CAUTION", hard_block |-> FALSE, critical |-> FALSE,
          backlog |-> "NORMAL"]
FewFeedbacks == {Relax, [Relax EXCEPT !.type = "ENTER_RECOVERY_MODE"]}

Symmetric == Permutations(TwoWorkers)
===============================================================================
