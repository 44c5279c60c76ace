------------------------------ MODULE MCHeartbeat -------------------------------
(***************************************************************************)
(* A small instance of Heartbeat: one session, the thread and one request. *)
(***************************************************************************)
EXTENDS Heartbeat

CONSTANTS s1, c1

OneSession == {s1}
OneCaller == {c1}
===============================================================================
