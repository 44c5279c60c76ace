---------------------------- MODULE MCMissionControl ----------------------------
(***************************************************************************)
(* A small instance of MissionControl: two sessions and a run-cycle        *)
(* request beside their loops.                                             *)
(***************************************************************************)
EXTENDS MissionControl

CONSTANTS c1

OneCaller == {c1}
===============================================================================
