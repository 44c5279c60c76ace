----------------------------- MODULE SafetyRules -----------------------------
(***************************************************************************)
(* The row safety_guard.SafetyPolicyConfig and the operations that read    *)
(* and rewrite it, as operators from one value of the row to the next.     *)
(* The module has no variables: SafetyGuard applies the operators at the   *)
(* grain of single UPDATE statements, ContinuousDemo as parts of whole     *)
(* cycles.  A row keeps the fields some decision depends on; messages and  *)
(* the monetary limits are left out.  cooldown_until_cycle = NULL is 0.    *)
(***************************************************************************)
EXTENDS Naturals

CONSTANTS
  HardStopAfterErrors,    \* hard_stop_after_error_count        (default 5)
  MaxFailedCycles,        \* max_consecutive_failed_cycles      (default 3)
  CooldownAfterBlocks,    \* cooldown_after_block_count         (default 3)
  CooldownCycles          \* cooldown_cycles                    (default 2)

ASSUME SafetyLimits ==
  /\ HardStopAfterErrors \in Nat /\ MaxFailedCycles \in Nat
  /\ CooldownAfterBlocks \in Nat /\ CooldownCycles \in Nat

Labels == {"HEALTHY", "COOLDOWN", "HARD_STOP", "KILL_SWITCH"}

CycleStatuses == {"SUCCESS", "PARTIAL", "FAILED"}

Config == [kill : BOOLEAN, hard : BOOLEAN, until : Nat, label : Labels,
           errs : Nat, failed : Nat, blocked : Nat]

DefaultConfig ==
  [kill |-> FALSE, hard |-> FALSE, until |-> 0, label |-> "HEALTHY",
   errs |-> 0, failed |-> 0, blocked |-> 0]

(* The two flags that forbid every automatic action. *)
Halted(c) == c.kill \/ c.hard

EnableKillSwitch(c) == [c EXCEPT !.kill = TRUE, !.label = "KILL_SWITCH"]

(* The label the row gets back is derived from what the caller read (r). *)
DisableKillSwitch(c, r) ==
  [c EXCEPT !.kill  = FALSE,
            !.label = CASE r.hard                 -> "HARD_STOP"
                        [] ~r.hard /\ r.until # 0 -> "COOLDOWN"
                        [] OTHER                  -> "HEALTHY"]

AtLeast1(n) == IF n = 0 THEN 1 ELSE n

TriggerCooldown(c, cycle) ==
  [c EXCEPT !.until = cycle + AtLeast1(CooldownCycles), !.label = "COOLDOWN"]

(* Mutant: the whole row is saved, as it was loaded.                       *)
ClearCooldownWholeRow(c, r) ==
  [c EXCEPT !.until = 0, !.kill = r.kill, !.hard = r.hard,
            !.label = IF Halted(r) THEN r.label ELSE "HEALTHY"]

ClearCooldown(c, r) ==
  [c EXCEPT !.until = 0,
            !.label = IF Halted(r) THEN r.label ELSE "HEALTHY"]

(* Mutant: a label the field does not have.                                *)
LossHardStopMislabelled(c) == [c EXCEPT !.hard = TRUE, !.label = "LOSS_STOP"]

LossHardStop(c) == [c EXCEPT !.hard = TRUE, !.label = "HARD_STOP"]

(***************************************************************************)
(* evaluate_cycle_health works on an object loaded from the row: Tally is  *)
(* that object after the counters are advanced, Verdict the branch it      *)
(* takes, SaveHealth what the branch writes over the row c, which other    *)
(* requests may have changed since the object m was loaded.  The cooldown  *)
(* branch saves none of the counters: trigger_cooldown loads the row       *)
(* afresh and saves its own fields only.                                   *)
(***************************************************************************)
Tally(c, status, blocked) ==
  LET bad == status \in {"FAILED", "PARTIAL"} IN
  [c EXCEPT !.errs    = IF bad THEN @ + 1 ELSE 0,
            !.failed  = IF bad THEN @ + (IF status = "FAILED" THEN 1 ELSE 0)
                               ELSE 0,
            !.blocked = IF blocked THEN @ + 1 ELSE 0]

(* Mutant: a cooldown one blocked cycle late.                              *)
VerdictLate(m, unfavorable) ==
  CASE m.errs >= HardStopAfterErrors -> "hard_stop"
    [] /\ m.errs < HardStopAfterErrors
       /\ \/ m.blocked > CooldownAfterBlocks
          \/ m.failed >= MaxFailedCycles
          \/ unfavorable             -> "cooldown"
    [] OTHER                         -> "passed"

Verdict(m, unfavorable) ==
  CASE m.errs >= HardStopAfterErrors -> "hard_stop"
    [] /\ m.errs < HardStopAfterErrors
       /\ \/ m.blocked >= CooldownAfterBlocks
          \/ m.failed >= MaxFailedCycles
          \/ unfavorable             -> "cooldown"
    [] OTHER                         -> "passed"

WithCounters(c, m) ==
  [c EXCEPT !.errs = m.errs, !.failed = m.failed, !.blocked = m.blocked]

(* What the error limit saves, before it enables the kill switch as well.  *)
ErrorHardStop(c, m) ==
  [WithCounters(c, m) EXCEPT !.hard = TRUE, !.label = "HARD_STOP"]

SaveHealth(c, m, cycle, unfavorable) ==
  LET verdict == Verdict(m, unfavorable) IN
  CASE verdict = "hard_stop" -> EnableKillSwitch(ErrorHardStop(c, m))
    [] verdict = "cooldown"  -> TriggerCooldown(c, cycle)
    [] verdict = "passed"    ->
         [WithCounters(c, m) EXCEPT
            !.label = IF Halted(m) THEN m.label ELSE "HEALTHY"]
===============================================================================
