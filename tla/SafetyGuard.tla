----------------------------- MODULE SafetyGuard -----------------------------
(***************************************************************************)
(* The safety guard under concurrent requests.  No service of the app      *)
(* locks the SafetyPolicyConfig row: each loads it, decides, and later     *)
(* saves the fields it names in update_fields (or, for POST /config, all   *)
(* of them).  An action is a load or a save; what a request holds between  *)
(* the two is its task.  A cycle is evaluated after cycle_in_progress has  *)
(* been cleared, so that the evaluations of two loops, or of a loop and a  *)
(* run-cycle request, may overlap and overwrite each other's counters.     *)
(***************************************************************************)
EXTENDS SafetyRules

CONSTANTS
  Workers,         \* web workers serving operators and trading runs
  Evaluators,      \* loop threads and web workers that have finished a cycle
  CycleNumbers,    \* numbers of the cycles evaluated, each in its session
  MaxEvaluations,  \* bound: cycles evaluated
  Endpoints        \* the services the workers are asked for

ASSUME GuardAssumption ==
  /\ Evaluators \cap Workers = {} /\ MaxEvaluations \in Nat
  /\ CycleNumbers \subseteq Nat

VARIABLES
  cfg,       \* the SafetyPolicyConfig row
  ctl,       \* kill, stop and status of the LoopRuntimeControl row
  task,      \* what each actor holds in memory between load and save
  cycles,    \* evaluations begun so far
  hist,      \* history: the streaks, see Streak
  missed,    \* history: what was added to each since an evaluation's load
  errs       \* history: failed or partial cycles in a row

streaks == <<hist, missed, errs>>
vars == <<cfg, ctl, task, cycles, streaks>>

(* Two counters of the row are about streaks: of failed or partial cycles, *)
(* and of cycles with blocked proposals.                                   *)
Kinds == {"err", "blk"}
Counter(row, k) == IF k = "err" THEN row.errs ELSE row.blocked

(* run: the evaluations that added to the streak, in the order they are    *)
(* saved, since the last that did not or the last cooldown or POST         *)
(* /config; lost: how many of them were overwritten, each of them counted  *)
(* when an evaluation is saved that had not seen it.                       *)
Streak == [run : Nat, lost : Nat]
NoStreak == [run |-> 0, lost |-> 0]
NoneMissed == [k \in Kinds |-> 0]

Everyone == Workers \cup Evaluators
CtlStatuses == {"IDLE", "RUNNING", "PAUSED", "STOPPED"}
Ops == {"none", "health", "trip", "disable", "clear", "loss", "config"}

Task == [op : Ops, row : Config, status : CtlStatuses, cycle : Nat]
Idle == [op |-> "none", row |-> DefaultConfig, status |-> "IDLE", cycle |-> 0]

(* The label a service means to leave in the row, as it was loaded.        *)
Label(row) == IF Halted(row) THEN row.label ELSE "HEALTHY"

(* What a service will use of the row it loads, and of the control row.    *)
Loaded(op) ==
  [Idle EXCEPT
   !.op = op,
   !.row = CASE op = "disable" -> [DefaultConfig EXCEPT !.hard  = cfg.hard,
                                                        !.until = cfg.until]
             [] op = "clear"   -> [DefaultConfig EXCEPT !.hard  = cfg.hard,
                                                        !.kill  = cfg.kill,
                                                        !.label = Label(cfg)]
             [] op = "loss"    -> DefaultConfig
             [] OTHER          -> cfg,
   !.status = IF op = "disable" THEN ctl.status ELSE "IDLE"]

Init ==
  /\ cfg = DefaultConfig
  /\ ctl = [kill |-> FALSE, stop |-> FALSE, status |-> "RUNNING"]
  /\ task = [w \in Everyone |-> Idle]
  /\ cycles = 0
  /\ hist = [k \in Kinds |-> NoStreak]
  /\ missed = [e \in Evaluators |-> NoneMissed]
  /\ errs = 0

(* evaluate_auto_execution refuses a trade on a halted row and ends there. *)
Load(w, op) ==
  /\ op \in Endpoints /\ task[w] = Idle
  /\ op = "loss" => ~Halted(cfg)
  /\ task' = [task EXCEPT ![w] = Loaded(op)]
  /\ UNCHANGED <<cfg, ctl, cycles, streaks>>

Saving(w, op) ==
  /\ task[w].op = op
  /\ task' = [task EXCEPT ![w] = Idle]
  /\ UNCHANGED cycles

(* enable_kill_switch writes constants only, in one transaction, so no     *)
(* worker is seen in the middle of it.                                     *)
KilledCtl == [kill |-> TRUE, stop |-> TRUE, status |-> "STOPPED"]

EnableKill ==
  /\ "enable" \in Endpoints
  /\ cfg' = EnableKillSwitch(cfg)
  /\ ctl' = KilledCtl
  /\ UNCHANGED <<task, cycles, streaks>>

(* disable_kill_switch derives the label and the loop's status from what   *)
(* it loaded; both rows are committed together.                            *)
DisableSave(w) ==
  /\ Saving(w, "disable") /\ UNCHANGED streaks
  /\ cfg' = DisableKillSwitch(cfg, task[w].row)
  /\ ctl' = [kill |-> FALSE, stop |-> FALSE,
             status |-> IF task[w].status = "STOPPED" THEN "IDLE"
                                                      ELSE task[w].status]

ClearSave(w) ==
  /\ Saving(w, "clear") /\ UNCHANGED streaks
  /\ cfg' = ClearCooldown(cfg, task[w].row)
  /\ UNCHANGED ctl

(* The loss limits set the hard stop, also when a halt has come since the  *)
(* row was loaded.                                                         *)
LossSave(w) ==
  /\ Saving(w, "loss") /\ UNCHANGED streaks
  /\ cfg' = LossHardStop(cfg)
  /\ UNCHANGED ctl

(* POST /config saves the whole row through the serializer: the fields the *)
(* request does not mention are written back as they were loaded.          *)
ConfigSave(w) ==
  /\ Saving(w, "config")
  /\ cfg' = task[w].row
  /\ hist' = [k \in Kinds |-> NoStreak]
  /\ missed' = [e \in Evaluators |-> NoneMissed]
  /\ UNCHANGED <<ctl, errs>>

(* evaluate_cycle_health, of the cycle with number n: of the row it uses   *)
(* the counters, whether the row was halted and, if so, its label.         *)
Used(row) == [row EXCEPT !.until = 0, !.hard = Halted(row), !.kill = FALSE,
                         !.label = Label(row)]

HealthLoad(e, n, status, blocked) ==
  /\ task[e] = Idle /\ cycles < MaxEvaluations
  /\ cycles' = cycles + 1
  /\ task' = [task EXCEPT ![e] =
                [Idle EXCEPT !.op = "health", !.cycle = n,
                             !.row = Used(Tally(cfg, status, blocked))]]
  /\ missed' = [missed EXCEPT ![e] = NoneMissed]
  /\ UNCHANGED <<cfg, ctl, hist, errs>>

(* History: the streaks as they are once e's evaluation is saved, and what *)
(* it adds to them the evaluations still at work have not seen.            *)
AddToStreaks(e, cooldown) ==
  LET adds == {k \in Kinds : ~cooldown /\ Counter(task[e].row, k) > 0} IN
  /\ hist' = [k \in Kinds |->
                IF k \in adds THEN [run  |-> hist[k].run + 1,
                                    lost |-> hist[k].lost + missed[e][k]]
                ELSE NoStreak]
  /\ missed' = [d \in Evaluators |->
                  [k \in Kinds |->
                    IF k \in adds /\ d # e /\ task[d].op = "health"
                    THEN missed[d][k] + 1 ELSE 0]]
  /\ errs' = IF task[e].row.errs > 0 THEN errs + 1 ELSE 0

(* What the evaluation saves first; after a hard stop it goes on to enable *)
(* the kill switch, in a transaction of its own.                           *)
HealthSave(e, unfavorable) ==
  LET m == task[e].row
      verdict == Verdict(m, unfavorable) IN
  /\ task[e].op = "health"
  /\ cfg' = IF verdict = "hard_stop" THEN ErrorHardStop(cfg, m)
            ELSE SaveHealth(cfg, m, task[e].cycle, unfavorable)
  /\ AddToStreaks(e, verdict = "cooldown")
  /\ task' = [task EXCEPT ![e] =
                IF verdict = "hard_stop" THEN [Idle EXCEPT !.op = "trip"]
                                         ELSE Idle]
  /\ UNCHANGED <<ctl, cycles>>

(* Mutant: the kill switch is set in the safety row only.                  *)
TripKillOneRow(e) ==
  /\ Saving(e, "trip") /\ UNCHANGED <<streaks, ctl>>
  /\ cfg' = EnableKillSwitch(cfg)

TripKill(e) ==
  /\ Saving(e, "trip") /\ UNCHANGED streaks
  /\ cfg' = EnableKillSwitch(cfg)
  /\ ctl' = KilledCtl

(* The loop itself moves between running and paused.                       *)
LoopMoves(s) ==
  /\ ctl.status \in {"RUNNING", "PAUSED"} /\ s \in {"RUNNING", "PAUSED"}
  /\ ctl' = [ctl EXCEPT !.status = s]
  /\ UNCHANGED <<cfg, task, cycles, streaks>>

Next ==
  \/ \E w \in Workers :
       \/ \E op \in Ops \ {"none", "health", "trip"} : Load(w, op)
       \/ DisableSave(w) \/ ClearSave(w) \/ LossSave(w) \/ ConfigSave(w)
  \/ EnableKill
  \/ \E e \in Evaluators :
       \/ \E n \in CycleNumbers, s \in CycleStatuses, b \in BOOLEAN :
            HealthLoad(e, n, s, b)
       \/ \E u \in BOOLEAN : HealthSave(e, u)
       \/ TripKill(e)
  \/ \E s \in CtlStatuses : LoopMoves(s)

Spec == Init /\ [][Next]_vars

-------------------------------------------------------------------------------
(* Type invariant.                                                         *)
TypeOK ==
  /\ cfg \in Config
  /\ ctl \in [kill : BOOLEAN, stop : BOOLEAN, status : CtlStatuses]
  /\ task \in [Everyone -> Task] /\ cycles \in Nat
  /\ hist \in [Kinds -> Streak] /\ missed \in [Evaluators -> [Kinds -> Nat]]
  /\ errs \in Nat

ConfigPosted == \E w \in Workers : task[w].op = "config" /\ task'[w] = Idle

(* The kill switch lives in two rows.  Enabling, disabling and tripping it *)
(* move both, in every interleaving; only POST /config can part them.      *)
KillMovesTogether ==
  [][ cfg.kill = ctl.kill => cfg'.kill = ctl'.kill \/ ConfigPosted ]_vars

(* Saves computed from stale objects do not lift a halt: apart from        *)
(* POST /config, which writes back every field it loaded, only a request   *)
(* to disable the kill switch clears it and nothing clears the hard stop.  *)
HaltNotLiftedByStaleSave ==
  [][ \/ ConfigPosted
      \/ /\ cfg.hard => cfg'.hard
         /\ cfg.kill /\ ~cfg'.kill =>
              \E w \in Workers : task[w].op = "disable" /\ task'[w] = Idle ]_vars

(* Evaluations that overlap overwrite each other's counters, but a streak  *)
(* does not go unanswered for longer than that explains: apart from those  *)
(* that were overwritten, CooldownAfterBlocks cycles with blocked          *)
(* proposals leave a cooldown that covers the next cycle, or the hard      *)
(* stop, and HardStopAfterErrors failed or partial cycles leave the hard   *)
(* stop, whatever other requests save in between.                          *)
Unseen(e, k) == hist[k].lost + missed[e][k]
LongEnough(e, k, limit) ==
  /\ Counter(task[e].row, k) > 0
  /\ hist[k].run + 1 >= limit + Unseen(e, k)
StreaksAnswered ==
  [][ \A e \in Evaluators :
        task[e].op = "health" /\ task'[e].op # "health" =>
          /\ LongEnough(e, "blk", CooldownAfterBlocks) =>
               cfg'.until > task[e].cycle \/ cfg'.hard
          /\ LongEnough(e, "err", HardStopAfterErrors) => cfg'.hard ]_vars

(* Why: a streak is longer than the row's counter by what was lost at      *)
(* most, and than what an evaluation will save by what it has missed, too. *)
StreaksCounted ==
  \A k \in Kinds :
    /\ hist[k].run <= Counter(cfg, k) + hist[k].lost
    /\ \A e \in Evaluators :
         task[e].op = "health" /\ Counter(task[e].row, k) > 0 =>
           hist[k].run + 1 <= Counter(task[e].row, k) + Unseen(e, k)

(* evaluation.py:172, "Hard stop activated after repeated cycle errors.":  *)
(* after HardStopAfterErrors failed cycles in a row the hard stop is on.   *)
HardStopAfterStreak ==
  (\A e \in Evaluators : task[e] = Idle) /\ errs >= HardStopAfterErrors
    => cfg.hard
===============================================================================
