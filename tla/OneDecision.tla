------------------------------ MODULE OneDecision ------------------------------
(***************************************************************************)
(* What deciding on a proposed trade should come to: it is executed once   *)
(* or rejected, and that is final.  Nothing is promised about a subject    *)
(* that is spoiled: decided on by overlapping requests, or by a process    *)
(* that died between the trade and its record.                             *)
(***************************************************************************)
EXTENDS Naturals

CONSTANTS Subjects  \* what is decided on

VARIABLES
  outcome,  \* what has become of each subject
  trades,   \* trades committed on its behalf
  spoiled   \* subjects nothing is promised about

vars == <<outcome, trades, spoiled>>

Outcomes == {"open", "executed", "rejected"}

Init ==
  /\ outcome = [s \in Subjects |-> "open"]
  /\ trades = [s \in Subjects |-> 0]
  /\ spoiled = {}

Execute(s) ==
  /\ outcome[s] = "open"
  /\ outcome' = [outcome EXCEPT ![s] = "executed"]
  /\ trades' = [trades EXCEPT ![s] = @ + 1]
  /\ UNCHANGED spoiled

Reject(s) ==
  /\ outcome[s] = "open"
  /\ outcome' = [outcome EXCEPT ![s] = "rejected"]
  /\ UNCHANGED <<trades, spoiled>>

Spoil(s) ==
  /\ spoiled' = spoiled \cup {s}
  /\ UNCHANGED <<outcome, trades>>

(* A spoiled subject may be executed again or change its outcome.          *)
Anything(s) ==
  /\ s \in spoiled
  /\ \E o \in Outcomes, n \in {trades[s], trades[s] + 1} :
       /\ outcome' = [outcome EXCEPT ![s] = o]
       /\ trades' = [trades EXCEPT ![s] = n]
  /\ UNCHANGED spoiled

Next ==
  \E s \in Subjects : Execute(s) \/ Reject(s) \/ Spoil(s) \/ Anything(s)

Spec == Init /\ [][Next]_vars
===============================================================================
