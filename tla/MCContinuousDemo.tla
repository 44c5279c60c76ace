--------------------------- MODULE MCContinuousDemo ---------------------------
(***************************************************************************)
(* Small instances of ContinuousDemo: the thresholds are lowered so that   *)
(* a few cycles reach them, and each configuration opens the endpoints its *)
(* question needs.                                                         *)
(***************************************************************************)
EXTENDS ContinuousDemo

CONSTANTS w1

NoCallers == {}
OneCaller == {w1}

NoTrades == {0}
UpToTwoTrades == {0, 1, 2}

AssistOnly == {"PAPER_ASSIST"}

(* loop.cfg: sessions end, restart and overlap, limits and cooldowns bite, *)
(* and halts come at every point of two loops.                             *)
LoopRequests == {"start", "pause", "stop", "mode", "loss"}
(* calls.cfg: run-cycle requests beside the loops, halts raised and lifted *)
(* and process restarts.                                                   *)
CallRequests == {"start", "stop", "mode", "restart", "disable", "cooldown", "kill"}
===============================================================================
