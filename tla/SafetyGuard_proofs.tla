--------------------------- MODULE SafetyGuard_proofs ---------------------------
(***************************************************************************)
(* Proofs about SafetyGuard for any number of workers, any set of services *)
(* and any thresholds: type correctness, what stale saves cannot do to the *)
(* halting flags, and streaks that are answered in every interleaving.     *)
(***************************************************************************)
EXTENDS SafetyGuard, TLAPS

-------------------------------------------------------------------------------
(* Lemmas about the operators on the safety row: the rules yield rows.     *)

LEMMA TallyType ==
  ASSUME NEW c \in Config, NEW o \in CycleStatuses, NEW b \in BOOLEAN
  PROVE  Tally(c, o, b) \in Config
<1> DEFINE bad == o \in {"FAILED", "PARTIAL"}
           errors == IF bad THEN c.errs + 1 ELSE 0
           failed == IF bad THEN c.failed + (IF o = "FAILED" THEN 1 ELSE 0)
                            ELSE 0
           blocked == IF b THEN c.blocked + 1 ELSE 0
<1>1. errors \in Nat /\ failed \in Nat /\ blocked \in Nat
  BY DEF Config
<1>2. Tally(c, o, b) = [c EXCEPT !.errs = errors, !.failed = failed,
                                 !.blocked = blocked]
  BY Zenon DEF Tally
<1> HIDE DEF errors, failed, blocked
<1> QED BY <1>1, <1>2 DEF Config

LEMMA DisableType ==
  ASSUME NEW c \in Config, NEW r \in Config
  PROVE  DisableKillSwitch(c, r) \in Config
<1> DEFINE label == CASE r.hard                 -> "HARD_STOP"
                      [] ~r.hard /\ r.until # 0 -> "COOLDOWN"
                      [] OTHER                  -> "HEALTHY"
<1>1. label \in Labels
  <2>1. CASE r.hard
    BY <2>1 DEF Labels
  <2>2. CASE ~r.hard /\ r.until # 0
    BY <2>2 DEF Labels
  <2>3. CASE ~r.hard /\ r.until = 0
    BY <2>3 DEF Labels
  <2> QED BY <2>1, <2>2, <2>3
<1>2. DisableKillSwitch(c, r) = [c EXCEPT !.kill = FALSE, !.label = label]
  BY DEF DisableKillSwitch
<1> HIDE DEF label
<1> QED BY <1>1, <1>2 DEF Config

LEMMA CooldownType ==
  ASSUME NEW c \in Config, NEW n \in Nat
  PROVE  TriggerCooldown(c, n) \in Config
<1>1. n + AtLeast1(CooldownCycles) \in Nat
  BY SafetyLimits DEF AtLeast1
<1>2. "COOLDOWN" \in Labels
  BY DEF Labels
<1> QED BY <1>1, <1>2 DEF TriggerCooldown, Config

LEMMA VerdictType ==
  ASSUME NEW m \in Config, NEW u \in BOOLEAN
  PROVE  Verdict(m, u) \in {"hard_stop", "cooldown", "passed"}
<1>1. CASE m.errs >= HardStopAfterErrors
  BY <1>1 DEF Verdict
<1>2. CASE ~(m.errs >= HardStopAfterErrors)
  <2>1. m.errs < HardStopAfterErrors
    BY <1>2, SafetyLimits DEF Config
  <2>2. CASE \/ m.blocked >= CooldownAfterBlocks
             \/ m.failed >= MaxFailedCycles
             \/ u
    BY <1>2, <2>1, <2>2 DEF Verdict
  <2>3. CASE ~(\/ m.blocked >= CooldownAfterBlocks
               \/ m.failed >= MaxFailedCycles
               \/ u)
    BY <1>2, <2>3 DEF Verdict
  <2> QED BY <2>2, <2>3
<1> QED BY <1>1, <1>2

(* What evaluate_cycle_health saves is a row, and it never lifts a halt.   *)
LEMMA SaveHealthType ==
  ASSUME NEW c \in Config, NEW m \in Config, NEW n \in Nat, NEW u \in BOOLEAN
  PROVE  /\ SaveHealth(c, m, n, u) \in Config
         /\ Halted(c) => Halted(SaveHealth(c, m, n, u))
<1>1. CASE Verdict(m, u) = "hard_stop"
  <2>1. SaveHealth(c, m, n, u) =
          EnableKillSwitch(ErrorHardStop(c, m))
    BY <1>1 DEF SaveHealth
  <2> QED
    BY <2>1 DEF EnableKillSwitch, ErrorHardStop, WithCounters, Config, Labels, Halted
<1>2. CASE Verdict(m, u) = "cooldown"
  <2>1. SaveHealth(c, m, n, u) = TriggerCooldown(c, n)
    BY <1>2 DEF SaveHealth
  <2> QED BY <2>1, CooldownType DEF TriggerCooldown, Halted, Config
<1>3. CASE Verdict(m, u) = "passed"
  <2>1. SaveHealth(c, m, n, u) =
          [WithCounters(c, m) EXCEPT
             !.label = IF Halted(m) THEN m.label ELSE "HEALTHY"]
    BY <1>3 DEF SaveHealth
  <2> QED BY <2>1 DEF WithCounters, Config, Labels, Halted
<1> QED BY <1>1, <1>2, <1>3, VerdictType

LEMMA ResetType ==
  ASSUME NEW c \in Config, NEW r \in Config
  PROVE  /\ ClearCooldown(c, r) \in Config
         /\ Halted(ClearCooldown(c, r)) = Halted(c)
         /\ EnableKillSwitch(c) \in Config /\ Halted(EnableKillSwitch(c))
         /\ LossHardStop(c) \in Config /\ Halted(LossHardStop(c))
BY DEF ClearCooldown, EnableKillSwitch, LossHardStop, Halted, Config, Labels

(* What each operation does to the two halting flags and the counters.     *)
LEMMA FieldsKept ==
  ASSUME NEW c \in Config, NEW r \in Config
  PROVE  /\ LET d == ClearCooldown(c, r) IN
              /\ d.kill = c.kill /\ d.hard = c.hard
              /\ d.errs = c.errs /\ d.blocked = c.blocked
         /\ LET d == LossHardStop(c) IN
              /\ d.kill = c.kill /\ d.hard
              /\ d.errs = c.errs /\ d.blocked = c.blocked
         /\ LET d == EnableKillSwitch(c) IN
              /\ d.kill = TRUE /\ d.hard = c.hard
              /\ d.errs = c.errs /\ d.blocked = c.blocked
         /\ LET d == DisableKillSwitch(c, r) IN
              /\ d.kill = FALSE /\ d.hard = c.hard
              /\ d.errs = c.errs /\ d.blocked = c.blocked
BY DEF ClearCooldown, LossHardStop, EnableKillSwitch, DisableKillSwitch, Config

LEMMA HardStopFields ==
  ASSUME NEW c \in Config, NEW m \in Config
  PROVE  /\ ErrorHardStop(c, m) \in Config
         /\ ErrorHardStop(c, m).kill = c.kill /\ ErrorHardStop(c, m).hard
         /\ ErrorHardStop(c, m).errs = m.errs
         /\ ErrorHardStop(c, m).blocked = m.blocked
BY DEF ErrorHardStop, WithCounters, Config, Labels

(* Unless it trips the hard stop, an evaluation leaves both flags alone; a *)
(* cooldown covers the next cycle, and passing saves the new counters.     *)
LEMMA SaveHealthFields ==
  ASSUME NEW c \in Config, NEW m \in Config, NEW n \in Nat, NEW u \in BOOLEAN,
         Verdict(m, u) # "hard_stop"
  PROVE  LET d == SaveHealth(c, m, n, u) IN
         /\ d.kill = c.kill /\ d.hard = c.hard
         /\ Verdict(m, u) = "cooldown" => d.until > n
         /\ Verdict(m, u) = "passed" => d.errs = m.errs /\ d.blocked = m.blocked
<1>1. CASE Verdict(m, u) = "cooldown"
  <2>1. SaveHealth(c, m, n, u) = TriggerCooldown(c, n)
    BY <1>1 DEF SaveHealth
  <2>2. AtLeast1(CooldownCycles) \in Nat \ {0}
    BY SafetyLimits DEF AtLeast1
  <2>3. n + AtLeast1(CooldownCycles) > n
    BY <2>2
  <2> QED BY <1>1, <2>1, <2>3 DEF TriggerCooldown, Config
<1>2. CASE Verdict(m, u) = "passed"
  <2>1. SaveHealth(c, m, n, u) =
          [WithCounters(c, m) EXCEPT
             !.label = IF Halted(m) THEN m.label ELSE "HEALTHY"]
    BY <1>2 DEF SaveHealth
  <2> QED BY <1>2, <2>1 DEF WithCounters, Config
<1> QED BY <1>1, <1>2, VerdictType

(* The limits are answered: errors by the hard stop, blocks by something.  *)
LEMMA VerdictAnswers ==
  ASSUME NEW m \in Config, NEW u \in BOOLEAN
  PROVE  /\ m.errs >= HardStopAfterErrors => Verdict(m, u) = "hard_stop"
         /\ m.blocked >= CooldownAfterBlocks => Verdict(m, u) # "passed"
<1>1. CASE m.errs >= HardStopAfterErrors
  <2>1. ~(m.errs < HardStopAfterErrors)
    BY <1>1, SafetyLimits DEF Config
  <2>2. Verdict(m, u) = "hard_stop"
    BY <1>1, <2>1 DEF Verdict
  <2> QED BY <2>2
<1>2. CASE ~(m.errs >= HardStopAfterErrors)
  <2>1. m.errs < HardStopAfterErrors
    BY <1>2, SafetyLimits DEF Config
  <2> QED BY <1>2, <2>1 DEF Verdict
<1> QED BY <1>1, <1>2

-------------------------------------------------------------------------------
(* Type correctness.                                                       *)

LEMMA IdleType == Idle \in Task
BY DEF Idle, Task, Ops, DefaultConfig, Config, Labels, CtlStatuses

LEMMA LoadedType ==
  ASSUME TypeOK, NEW op \in Ops
  PROVE  Loaded(op) \in Task /\ Loaded(op).op = op
<1>0. Label(cfg) \in Labels
  BY DEF Label, TypeOK, Config, Labels
<1>1. DefaultConfig \in Config
  BY DEF DefaultConfig, Config, Labels
<1>2. /\ [DefaultConfig EXCEPT !.hard = cfg.hard, !.until = cfg.until] \in Config
      /\ [DefaultConfig EXCEPT !.hard = cfg.hard, !.kill = cfg.kill,
                               !.label = Label(cfg)] \in Config
  BY <1>0, <1>1 DEF TypeOK, Config
<1> DEFINE row == CASE op = "disable" -> [DefaultConfig EXCEPT !.hard  = cfg.hard,
                                                             !.until = cfg.until]
                    [] op = "clear"   -> [DefaultConfig EXCEPT !.hard  = cfg.hard,
                                                             !.kill  = cfg.kill,
                                                             !.label = Label(cfg)]
                    [] op = "loss"    -> DefaultConfig
                    [] OTHER          -> cfg
           status == IF op = "disable" THEN ctl.status ELSE "IDLE"
<1>3. row \in Config
  <2>1. CASE op = "disable"
    BY <1>2, <2>1
  <2>2. CASE op = "clear"
    BY <1>2, <2>2
  <2>3. CASE op = "loss"
    BY <1>1, <2>3
  <2>4. CASE op \notin {"disable", "clear", "loss"}
    BY <2>4 DEF TypeOK
  <2> QED BY <2>1, <2>2, <2>3, <2>4
<1>4. status \in CtlStatuses
  BY DEF TypeOK, CtlStatuses
<1>5. Loaded(op) = [Idle EXCEPT !.op = op, !.row = row, !.status = status]
  BY Zenon DEF Loaded
<1> HIDE DEF row, status
<1> QED BY <1>3, <1>4, <1>5, IdleType DEF Task

(* What an evaluation keeps of the row it loads is a row with its counters. *)
LEMMA UsedType ==
  ASSUME NEW row \in Config
  PROVE  /\ Used(row) \in Config
         /\ \A k \in Kinds : Counter(Used(row), k) = Counter(row, k)
<1>1. Label(row) \in Labels /\ Halted(row) \in BOOLEAN
  BY DEF Label, Halted, Config, Labels
<1> QED BY <1>1 DEF Used, Counter, Config

LEMMA CounterType ==
  ASSUME NEW row \in Config, NEW k \in Kinds
  PROVE  Counter(row, k) \in Nat
BY DEF Counter, Config

LEMMA TypeInit == Init => TypeOK
<1> SUFFICES ASSUME Init PROVE TypeOK
  OBVIOUS
<1>1. cfg \in Config
  BY DEF Init, DefaultConfig, Config, Labels
<1>2. ctl \in [kill : BOOLEAN, stop : BOOLEAN, status : CtlStatuses]
  BY DEF Init, CtlStatuses
<1>3. hist \in [Kinds -> Streak] /\ missed \in [Evaluators -> [Kinds -> Nat]]
  BY DEF Init, NoStreak, NoneMissed, Streak
<1> QED BY <1>1, <1>2, <1>3, IdleType DEF Init, TypeOK

(* What a service is about to save is a row.                               *)
LEMMA SavingType ==
  ASSUME TypeOK, NEW w \in Everyone, NEW op, Saving(w, op)
  PROVE  /\ task[w].row \in Config /\ task[w].status \in CtlStatuses
         /\ task[w].op = op
         /\ task' \in [Everyone -> Task]
         /\ task' = [task EXCEPT ![w] = Idle]
         /\ cycles' = cycles
BY IdleType DEF TypeOK, Task, Saving

LEMMA HeldType ==
  ASSUME TypeOK, NEW e \in Evaluators
  PROVE  /\ e \in Everyone /\ task[e].row \in Config /\ task[e].cycle \in Nat
         /\ cfg \in Config
BY DEF TypeOK, Everyone, Task

LEMMA AddType ==
  ASSUME TypeOK, NEW e \in Evaluators, NEW c \in BOOLEAN, AddToStreaks(e, c)
  PROVE  /\ hist' \in [Kinds -> Streak]
         /\ missed' \in [Evaluators -> [Kinds -> Nat]]
         /\ errs' \in Nat
<1> DEFINE adds == {k \in Kinds : ~c /\ Counter(task[e].row, k) > 0}
<1>1. /\ \A k \in Kinds : hist[k] \in Streak
      /\ \A d \in Evaluators, k \in Kinds : missed[d][k] \in Nat
  BY DEF TypeOK
<1>2. hist' \in [Kinds -> Streak]
  <2>1. hist' = [k \in Kinds |->
                  IF k \in adds THEN [run  |-> hist[k].run + 1,
                                      lost |-> hist[k].lost + missed[e][k]]
                  ELSE NoStreak]
    BY DEF AddToStreaks
  <2>2. ASSUME NEW k \in Kinds
        PROVE  [run |-> hist[k].run + 1, lost |-> hist[k].lost + missed[e][k]]
                 \in Streak
    BY <1>1 DEF Streak
  <2>3. NoStreak \in Streak
    BY DEF NoStreak, Streak
  <2> HIDE DEF adds
  <2> QED BY <2>1, <2>2, <2>3
<1>3. missed' \in [Evaluators -> [Kinds -> Nat]]
  <2>1. missed' = [d \in Evaluators |->
                    [k \in Kinds |->
                      IF k \in adds /\ d # e /\ task[d].op = "health"
                      THEN missed[d][k] + 1 ELSE 0]]
    BY DEF AddToStreaks
  <2> HIDE DEF adds
  <2> QED BY <1>1, <2>1
<1>4. errs' \in Nat
  BY DEF AddToStreaks, TypeOK
<1> QED BY <1>2, <1>3, <1>4

LEMMA TypeHealthSave ==
  ASSUME TypeOK, NEW e \in Evaluators, NEW u \in BOOLEAN, HealthSave(e, u)
  PROVE  TypeOK'
<1> DEFINE m == task[e].row
           trip == [Idle EXCEPT !.op = "trip"]
<1>1. e \in Everyone /\ m \in Config /\ task[e].cycle \in Nat
  BY HeldType
<1>2. /\ SaveHealth(cfg, m, task[e].cycle, u) \in Config
      /\ ErrorHardStop(cfg, m) \in Config
  BY <1>1, SaveHealthType, HardStopFields DEF TypeOK
<1>3. cfg' \in Config
  BY <1>2 DEF HealthSave
<1>4. /\ hist' \in [Kinds -> Streak]
      /\ missed' \in [Evaluators -> [Kinds -> Nat]]
      /\ errs' \in Nat
  <2>1. AddToStreaks(e, Verdict(m, u) = "cooldown")
    BY DEF HealthSave
  <2> QED BY <2>1, AddType
<1>5. trip \in Task
  BY IdleType DEF Task, Ops
<1>6. task' \in [Everyone -> Task]
  <2>1. \/ task' = [task EXCEPT ![e] = trip]
        \/ task' = [task EXCEPT ![e] = Idle]
    BY DEF HealthSave
  <2> HIDE DEF trip
  <2> QED BY <2>1, <1>5, IdleType DEF TypeOK
<1> QED BY <1>3, <1>4, <1>6 DEF TypeOK, HealthSave

LEMMA TypeHealthLoad ==
  ASSUME TypeOK, NEW e \in Evaluators, NEW n \in CycleNumbers,
         NEW s \in CycleStatuses, NEW b \in BOOLEAN, HealthLoad(e, n, s, b)
  PROVE  TypeOK'
<1> DEFINE row == Used(Tally(cfg, s, b))
           held == [Idle EXCEPT !.op = "health", !.cycle = n, !.row = row]
<1>1. row \in Config
  BY TallyType, UsedType DEF TypeOK
<1>2. held \in Task
  <2>1. n \in Nat
    BY GuardAssumption
  <2> HIDE DEF row
  <2> QED BY <1>1, <2>1, IdleType DEF Task, Ops
<1>3. task' = [task EXCEPT ![e] = held]
  BY DEF HealthLoad
<1>4. missed' \in [Evaluators -> [Kinds -> Nat]]
  <2>1. NoneMissed \in [Kinds -> Nat]
    BY DEF NoneMissed
  <2> QED BY <2>1 DEF HealthLoad, TypeOK
<1>5. cycles' \in Nat /\ cfg' = cfg /\ ctl' = ctl /\ hist' = hist /\ errs' = errs
  BY DEF HealthLoad, TypeOK
<1> HIDE DEF held
<1>6. task' \in [Everyone -> Task]
  BY <1>2, <1>3 DEF TypeOK
<1> QED BY <1>4, <1>5, <1>6 DEF TypeOK

LEMMA TypeWorker ==
  ASSUME TypeOK, NEW w \in Workers,
         \/ \E op \in Ops \ {"none", "health", "trip"} : Load(w, op)
         \/ DisableSave(w) \/ ClearSave(w) \/ LossSave(w) \/ ConfigSave(w)
  PROVE  TypeOK'
<1>0. w \in Everyone
  BY DEF Everyone
<1>1. ASSUME NEW op \in Ops, Load(w, op) PROVE TypeOK'
  <2>1. Loaded(op) \in Task
    BY LoadedType
  <2> QED BY <1>0, <1>1, <2>1 DEF Load, TypeOK, streaks
<1>2. CASE DisableSave(w)
  <2>1. Saving(w, "disable")
    BY <1>2 DEF DisableSave
  <2>2. cfg' \in Config
    BY <1>0, <1>2, <2>1, SavingType, DisableType DEF DisableSave, TypeOK
  <2>3. ctl' \in [kill : BOOLEAN, stop : BOOLEAN, status : CtlStatuses]
    BY <1>0, <1>2, <2>1, SavingType DEF DisableSave, CtlStatuses
  <2> QED BY <1>0, <1>2, <2>1, <2>2, <2>3, SavingType
          DEF DisableSave, TypeOK, streaks
<1>3. CASE ClearSave(w)
  <2>1. Saving(w, "clear")
    BY <1>3 DEF ClearSave
  <2> QED BY <1>0, <1>3, <2>1, SavingType, ResetType DEF ClearSave, TypeOK, streaks
<1>4. CASE LossSave(w)
  <2>1. Saving(w, "loss")
    BY <1>4 DEF LossSave
  <2> QED BY <1>0, <1>4, <2>1, SavingType, ResetType DEF LossSave, TypeOK, streaks
<1>5. CASE ConfigSave(w)
  <2>1. Saving(w, "config")
    BY <1>5 DEF ConfigSave
  <2>2. hist' \in [Kinds -> Streak] /\ missed' \in [Evaluators -> [Kinds -> Nat]]
    BY <1>5 DEF ConfigSave, NoStreak, NoneMissed, Streak
  <2> QED BY <1>0, <1>5, <2>1, <2>2, SavingType DEF ConfigSave, TypeOK
<1> QED BY <1>1, <1>2, <1>3, <1>4, <1>5

LEMMA TypeNext == TypeOK /\ [Next]_vars => TypeOK'
<1> SUFFICES ASSUME TypeOK, [Next]_vars PROVE TypeOK'
  OBVIOUS
<1>1. CASE EnableKill
  <2>1. ctl' \in [kill : BOOLEAN, stop : BOOLEAN, status : CtlStatuses]
    BY <1>1 DEF EnableKill, KilledCtl, CtlStatuses
  <2> QED BY <1>1, <2>1, ResetType DEF EnableKill, TypeOK, streaks
<1>2. ASSUME NEW e \in Evaluators, TripKill(e) PROVE TypeOK'
  <2>1. Saving(e, "trip") /\ e \in Everyone
    BY <1>2 DEF TripKill, Everyone
  <2>2. ctl' \in [kill : BOOLEAN, stop : BOOLEAN, status : CtlStatuses]
    BY <1>2 DEF TripKill, KilledCtl, CtlStatuses
  <2> QED BY <1>2, <2>1, <2>2, SavingType, ResetType DEF TripKill, TypeOK, streaks
<1>3. CASE \E s \in CtlStatuses : LoopMoves(s)
  BY <1>3 DEF LoopMoves, TypeOK, streaks
<1>4. CASE UNCHANGED vars
  BY <1>4 DEF vars, TypeOK, streaks
<1> QED BY <1>1, <1>2, <1>3, <1>4, TypeWorker, TypeHealthLoad, TypeHealthSave
        DEF Next

(* Every reachable state of the safety guard is well typed.                *)
THEOREM TypeCorrect == Spec => []TypeOK
BY TypeInit, TypeNext, PTL DEF Spec

(* An evaluation's first save leaves the kill switch to TripKill, and      *)
(* takes no hard stop away.                                                *)
LEMMA HealthSaveFlags ==
  ASSUME TypeOK, NEW e \in Evaluators, NEW u \in BOOLEAN, HealthSave(e, u)
  PROVE  cfg'.kill = cfg.kill /\ (cfg.hard => cfg'.hard) /\ ctl' = ctl
<1> DEFINE m == task[e].row
<1>1. m \in Config /\ cfg \in Config /\ task[e].cycle \in Nat
  BY HeldType
<1>2. CASE Verdict(m, u) = "hard_stop"
  <2>1. cfg' = ErrorHardStop(cfg, m) /\ ctl' = ctl
    BY <1>2 DEF HealthSave
  <2> QED BY <1>1, <2>1, HardStopFields
<1>3. CASE Verdict(m, u) # "hard_stop"
  <2>1. cfg' = SaveHealth(cfg, m, task[e].cycle, u) /\ ctl' = ctl
    BY <1>3 DEF HealthSave
  <2> QED BY <1>1, <1>3, <2>1, SaveHealthFields
<1> QED BY <1>2, <1>3

LEMMA HealthSaveTask ==
  ASSUME TypeOK, NEW e \in Evaluators, NEW u \in BOOLEAN, HealthSave(e, u)
  PROVE  /\ task[e].op = "health" /\ task'[e].op # "health"
         /\ \A d \in Evaluators \ {e} : task'[d] = task[d]
<1> DEFINE trip == [Idle EXCEPT !.op = "trip"]
<1>1. Evaluators \subseteq Everyone
  BY DEF Everyone
<1>2. trip.op = "trip" /\ Idle.op = "none"
  BY DEF Idle
<1>3. /\ task[e].op = "health"
      /\ \/ task' = [task EXCEPT ![e] = trip]
         \/ task' = [task EXCEPT ![e] = Idle]
  BY DEF HealthSave
<1> HIDE DEF trip
<1> QED BY <1>1, <1>2, <1>3 DEF TypeOK

(* What the requests of workers leave of the evaluations.                  *)
LEMMA WorkerTask ==
  ASSUME TypeOK, NEW w \in Workers, NEW e \in Evaluators
  PROVE  /\ \A op \in Ops : Load(w, op) => task'[e] = task[e]
         /\ \A op : Saving(w, op) => task'[e] = task[e]
<1>1. w # e /\ e \in Everyone /\ w \in Everyone
  BY GuardAssumption DEF Everyone
<1>2. ASSUME NEW op \in Ops, Load(w, op) PROVE task'[e] = task[e]
  BY <1>1, <1>2 DEF Load, TypeOK
<1>3. ASSUME NEW op, Saving(w, op) PROVE task'[e] = task[e]
  BY <1>1, <1>3, SavingType DEF TypeOK
<1> QED BY <1>2, <1>3

(* Nothing else ends an evaluation.                                        *)
LEMMA OnlySaveEndsHealth ==
  ASSUME TypeOK, Next, NEW e \in Evaluators,
         task[e].op = "health", task'[e].op # "health"
  PROVE  \E u \in BOOLEAN : HealthSave(e, u)
<1>0. Evaluators \subseteq Everyone
  BY DEF Everyone
<1>1. ASSUME NEW w \in Workers,
             \/ \E op \in Ops \ {"none", "health", "trip"} : Load(w, op)
             \/ DisableSave(w) \/ ClearSave(w) \/ LossSave(w) \/ ConfigSave(w)
      PROVE  FALSE
  BY <1>1, WorkerTask DEF DisableSave, ClearSave, LossSave, ConfigSave
<1>2. CASE EnableKill
  BY <1>2 DEF EnableKill
<1>3. ASSUME NEW d \in Evaluators, TripKill(d) PROVE FALSE
  <2>1. task[d].op = "trip" /\ task' = [task EXCEPT ![d] = Idle]
    BY <1>3 DEF TripKill, Saving
  <2> QED BY <1>0, <2>1 DEF TypeOK
<1>4. ASSUME NEW d \in Evaluators, NEW n \in CycleNumbers,
             NEW s \in CycleStatuses, NEW b \in BOOLEAN, HealthLoad(d, n, s, b)
      PROVE  FALSE
  <2>1. d # e
    BY <1>4 DEF HealthLoad, Idle
  <2>2. task'[e] = task[e]
    BY <1>0, <1>4, <2>1 DEF HealthLoad, TypeOK
  <2> QED BY <2>2
<1>5. ASSUME NEW d \in Evaluators, NEW u \in BOOLEAN, HealthSave(d, u)
      PROVE  HealthSave(e, u)
  BY <1>5, HealthSaveTask
<1>6. ASSUME NEW s \in CtlStatuses, LoopMoves(s) PROVE FALSE
  BY <1>6 DEF LoopMoves
<1> QED BY <1>1, <1>2, <1>3, <1>4, <1>5, <1>6 DEF Next

-------------------------------------------------------------------------------
(* The halting flags                                                       *)

(* In every interleaving of unlocked loads and saves the kill switch moves *)
(* in the safety row and in the control row together; only POST /config    *)
(* can part them.                                                          *)
THEOREM KillSwitchInStep == Spec => KillMovesTogether
<1> DEFINE Step == cfg.kill = ctl.kill => cfg'.kill = ctl'.kill \/ ConfigPosted
<1>1. TypeOK /\ [Next]_vars => [Step]_vars
  <2> SUFFICES ASSUME TypeOK, Next PROVE Step
    OBVIOUS
  <2>1. ASSUME NEW w \in Workers, NEW op \in Ops, Load(w, op) PROVE Step
    BY <2>1 DEF Load
  <2>2. ASSUME NEW w \in Workers PROVE
          /\ DisableSave(w) => Step
          /\ ClearSave(w) => Step
          /\ LossSave(w) => Step
          /\ ConfigSave(w) => Step
    <3>0. w \in Everyone
      BY DEF Everyone
    <3>1. CASE DisableSave(w)
      BY <3>0, <3>1, SavingType, FieldsKept DEF DisableSave, TypeOK
    <3>2. CASE ClearSave(w)
      <4>1. task[w].row \in Config /\ cfg \in Config
        BY <3>0, <3>2, SavingType DEF ClearSave, TypeOK
      <4>2. cfg' = ClearCooldown(cfg, task[w].row) /\ ctl' = ctl
        BY <3>2 DEF ClearSave
      <4>3. cfg'.kill = cfg.kill /\ cfg'.hard = cfg.hard
        BY <4>1, <4>2, FieldsKept
      <4> QED BY <4>2, <4>3
    <3>3. CASE LossSave(w)
      BY <3>3, FieldsKept DEF LossSave, TypeOK
    <3>4. CASE ConfigSave(w)
      <4>1. task[w].op = "config" /\ task'[w] = Idle
        BY <3>0, <3>4, SavingType DEF ConfigSave, TypeOK
      <4> QED BY <4>1 DEF ConfigPosted
    <3> QED BY <3>1, <3>2, <3>3, <3>4
  <2>3. CASE EnableKill
    BY <2>3, FieldsKept DEF EnableKill, KilledCtl, TypeOK
  <2>4. ASSUME NEW e \in Evaluators, TripKill(e) PROVE Step
    BY <2>4, FieldsKept DEF TripKill, KilledCtl, TypeOK
  <2>5. ASSUME NEW e \in Evaluators, NEW n \in CycleNumbers,
               NEW s \in CycleStatuses, NEW b \in BOOLEAN, HealthLoad(e, n, s, b)
        PROVE Step
    BY <2>5 DEF HealthLoad
  <2>6. ASSUME NEW e \in Evaluators, NEW u \in BOOLEAN, HealthSave(e, u)
        PROVE Step
    <3>1. cfg'.kill = cfg.kill /\ ctl' = ctl
      BY <2>6, HealthSaveFlags
    <3> QED BY <3>1
  <2>7. ASSUME NEW s \in CtlStatuses, LoopMoves(s) PROVE Step
    <3>1. cfg' = cfg /\ ctl'.kill = ctl.kill
      BY <2>7 DEF LoopMoves, TypeOK
    <3> QED BY <3>1
  <2> QED BY <2>1, <2>2, <2>3, <2>4, <2>5, <2>6, <2>7 DEF Next
<1> QED BY <1>1, TypeCorrect, PTL DEF Spec, KillMovesTogether

(* No save computed from a stale object lifts a halt: but for POST         *)
(* /config, the hard stop stays on for good and the kill switch goes off   *)
(* only by a request to disable it.                                        *)
THEOREM HaltStays == Spec => HaltNotLiftedByStaleSave
<1> DEFINE Disabled == \E w \in Workers : task[w].op = "disable" /\ task'[w] = Idle
           Step == \/ ConfigPosted
                   \/ /\ cfg.hard => cfg'.hard
                      /\ cfg.kill /\ ~cfg'.kill => Disabled
<1>1. TypeOK /\ [Next]_vars => [Step]_vars
  <2> SUFFICES ASSUME TypeOK, Next PROVE Step
    OBVIOUS
  <2>1. ASSUME NEW w \in Workers, NEW op \in Ops, Load(w, op) PROVE Step
    BY <2>1 DEF Load
  <2>2. ASSUME NEW w \in Workers PROVE
          /\ DisableSave(w) => Step
          /\ ClearSave(w) => Step
          /\ LossSave(w) => Step
          /\ ConfigSave(w) => Step
    <3>0. w \in Everyone
      BY DEF Everyone
    <3>1. CASE DisableSave(w)
      <4>1. /\ task[w].row \in Config
            /\ task[w].op = "disable" /\ task'[w] = Idle
        BY <3>0, <3>1, SavingType DEF DisableSave, TypeOK
      <4>2. cfg' = DisableKillSwitch(cfg, task[w].row) /\ cfg \in Config
        BY <3>1 DEF DisableSave, TypeOK
      <4>4. cfg'.hard = cfg.hard
        BY <4>1, <4>2, FieldsKept
      <4>3. Disabled
        BY <4>1
      <4> QED BY <4>3, <4>4
    <3>2. CASE ClearSave(w)
      <4>1. task[w].row \in Config /\ cfg \in Config
        BY <3>0, <3>2, SavingType DEF ClearSave, TypeOK
      <4>2. cfg' = ClearCooldown(cfg, task[w].row) /\ ctl' = ctl
        BY <3>2 DEF ClearSave
      <4>3. cfg'.kill = cfg.kill /\ cfg'.hard = cfg.hard
        BY <4>1, <4>2, FieldsKept
      <4> QED BY <4>2, <4>3
    <3>3. CASE LossSave(w)
      BY <3>3, FieldsKept DEF LossSave, TypeOK
    <3>4. CASE ConfigSave(w)
      <4>1. task[w].op = "config" /\ task'[w] = Idle
        BY <3>0, <3>4, SavingType DEF ConfigSave, TypeOK
      <4> QED BY <4>1 DEF ConfigPosted
    <3> QED BY <3>1, <3>2, <3>3, <3>4
  <2>3. CASE EnableKill
    BY <2>3, FieldsKept DEF EnableKill, TypeOK
  <2>4. ASSUME NEW e \in Evaluators, TripKill(e) PROVE Step
    BY <2>4, FieldsKept DEF TripKill, TypeOK
  <2>5. ASSUME NEW e \in Evaluators, NEW n \in CycleNumbers,
               NEW s \in CycleStatuses, NEW b \in BOOLEAN, HealthLoad(e, n, s, b)
        PROVE Step
    BY <2>5 DEF HealthLoad
  <2>6. ASSUME NEW e \in Evaluators, NEW u \in BOOLEAN, HealthSave(e, u)
        PROVE Step
    <3>1. cfg'.kill = cfg.kill /\ (cfg.hard => cfg'.hard)
      BY <2>6, HealthSaveFlags
    <3> QED BY <3>1
  <2>7. ASSUME NEW s \in CtlStatuses, LoopMoves(s) PROVE Step
    BY <2>7 DEF LoopMoves
  <2> QED BY <2>1, <2>2, <2>3, <2>4, <2>5, <2>6, <2>7 DEF Next
<1> QED BY <1>1, TypeCorrect, PTL DEF Spec, HaltNotLiftedByStaleSave

-------------------------------------------------------------------------------
(* Streaks: the two facts of StreaksCounted, for one counter at a time.    *)

InRow(k) == hist[k].run <= Counter(cfg, k) + hist[k].lost
InFlight(e, k) ==
  task[e].op = "health" /\ Counter(task[e].row, k) > 0 =>
    hist[k].run + 1 <= Counter(task[e].row, k) + Unseen(e, k)

LEMMA StreaksParts ==
  StreaksCounted <=> \A k \in Kinds : InRow(k) /\ \A e \in Evaluators : InFlight(e, k)
BY DEF StreaksCounted, InRow, InFlight

LEMMA StreaksInit == Init => StreaksCounted
<1> SUFFICES ASSUME Init PROVE StreaksCounted
  OBVIOUS
<1>1. \A k \in Kinds : Counter(cfg, k) = 0 /\ hist[k] = NoStreak
  BY DEF Init, DefaultConfig, Counter
<1>2. \A e \in Evaluators : task[e].op # "health"
  BY DEF Init, Everyone, Idle
<1> QED BY <1>1, <1>2 DEF StreaksCounted, NoStreak

(* A step that leaves the counters, the streaks and the evaluations.       *)
LEMMA StreaksKept ==
  ASSUME StreaksCounted, hist' = hist, missed' = missed,
         cfg'.errs = cfg.errs, cfg'.blocked = cfg.blocked,
         NEW E \in SUBSET Evaluators,
         \A e \in E : task'[e] = task[e],
         \A e \in Evaluators \ E : task'[e].op # "health"
  PROVE  StreaksCounted'
BY DEF StreaksCounted, Counter, Unseen

(* The evaluation counts one more than the row, or starts over.            *)
LEMMA StreaksLoad ==
  ASSUME TypeOK, StreaksCounted, NEW e \in Evaluators, NEW n \in CycleNumbers,
         NEW s \in CycleStatuses, NEW b \in BOOLEAN, HealthLoad(e, n, s, b)
  PROVE  StreaksCounted'
<1> DEFINE m == Tally(cfg, s, b)
<1>0. Evaluators \subseteq Everyone /\ cfg \in Config
  BY DEF Everyone, TypeOK
<1>1. m \in Config /\ \A k \in Kinds : Counter(Used(m), k) = Counter(m, k)
  BY <1>0, TallyType, UsedType
<1>2. \A k \in Kinds : Counter(m, k) = 0 \/ Counter(m, k) = Counter(cfg, k) + 1
  BY <1>0 DEF Tally, Counter, Config
<1>3. hist' = hist /\ cfg' = cfg /\ missed' = [missed EXCEPT ![e] = NoneMissed]
  BY DEF HealthLoad
<1>4. /\ task'[e].row = Used(m)
      /\ \A d \in Evaluators \ {e} : task'[d] = task[d]
  BY <1>0 DEF HealthLoad, TypeOK, Idle
<1> HIDE DEF m
<1>5. ASSUME NEW k \in Kinds PROVE InRow(k)' /\ \A d \in Evaluators : InFlight(d, k)'
  <2>0. /\ hist[k].run \in Nat /\ hist[k].lost \in Nat /\ Counter(cfg, k) \in Nat
        /\ missed'[e][k] = 0
        /\ \A d \in Evaluators \ {e} : missed'[d] = missed[d]
    BY <1>0, <1>3, CounterType DEF TypeOK, Streak, NoneMissed
  <2>1. InRow(k)
    BY StreaksParts
  <2>2. InRow(k)'
    BY <1>3, <2>1 DEF InRow, Counter
  <2>3. ASSUME NEW d \in Evaluators \ {e} PROVE InFlight(d, k)'
    <3>1. InFlight(d, k)
      BY StreaksParts
    <3>2. task'[d] = task[d] /\ missed'[d] = missed[d]
      BY <1>4, <2>0
    <3> QED BY <1>3, <3>1, <3>2 DEF InFlight, Counter, Unseen
  <2>4. InFlight(e, k)'
    <3> SUFFICES ASSUME Counter(task'[e].row, k) > 0
                 PROVE  hist'[k].run + 1 <= Counter(task'[e].row, k)
                                            + (hist'[k].lost + missed'[e][k])
      BY DEF InFlight, Unseen, Counter
    <3>1. Counter(task'[e].row, k) = Counter(cfg, k) + 1
      BY <1>1, <1>2, <1>4
    <3> QED BY <1>3, <2>0, <2>1, <3>1 DEF InRow
  <2> QED BY <2>2, <2>3, <2>4
<1> QED BY <1>5 DEF StreaksCounted, InRow, InFlight

(* What is added to a streak is in the row, or was lost, or is yet to be   *)
(* missed by the evaluations at work.                                      *)
LEMMA StreaksSave ==
  ASSUME TypeOK, StreaksCounted, NEW e \in Evaluators, NEW u \in BOOLEAN,
         HealthSave(e, u)
  PROVE  StreaksCounted'
<1> DEFINE m == task[e].row
           c == Verdict(m, u) = "cooldown"
<1>0. m \in Config /\ cfg \in Config /\ task[e].cycle \in Nat
  BY HeldType
<1>1. /\ task[e].op = "health" /\ task'[e].op # "health"
      /\ \A d \in Evaluators \ {e} : task'[d] = task[d]
  BY HealthSaveTask
<1>2. cfg' \in Config
  BY TypeHealthSave DEF TypeOK
<1>3. ~c => \A k \in Kinds : Counter(cfg', k) = Counter(m, k)
  <2>1. CASE Verdict(m, u) = "hard_stop"
    <3>1. cfg' = ErrorHardStop(cfg, m)
      BY <2>1 DEF HealthSave
    <3> QED BY <1>0, <3>1, HardStopFields DEF Counter
  <2>2. CASE Verdict(m, u) = "passed"
    <3>1. cfg' = SaveHealth(cfg, m, task[e].cycle, u)
      BY <2>2 DEF HealthSave
    <3>2. cfg'.errs = m.errs /\ cfg'.blocked = m.blocked
      BY <1>0, <2>2, <3>1, SaveHealthFields
    <3> QED BY <3>2 DEF Counter
  <2> QED BY <1>0, <2>1, <2>2, VerdictType
<1>4. AddToStreaks(e, c)
  BY DEF HealthSave
<1> HIDE DEF c
<1>5. ASSUME NEW k \in Kinds PROVE InRow(k)' /\ \A d \in Evaluators : InFlight(d, k)'
  <2> DEFINE add == ~c /\ Counter(m, k) > 0
  <2>0. /\ hist[k].run \in Nat /\ hist[k].lost \in Nat
        /\ Counter(cfg, k) \in Nat /\ Counter(m, k) \in Nat
        /\ Counter(cfg', k) \in Nat
        /\ \A d \in Evaluators : missed[d][k] \in Nat
    BY <1>0, <1>2, CounterType DEF TypeOK, Streak
  <2>1. /\ add  => hist'[k].run = hist[k].run + 1
                   /\ hist'[k].lost = hist[k].lost + missed[e][k]
        /\ ~add => hist'[k].run = 0 /\ hist'[k].lost = 0
    BY <1>4 DEF AddToStreaks, NoStreak
  <2>2. \A d \in Evaluators \ {e} : task[d].op = "health" =>
          missed'[d][k] = IF add THEN missed[d][k] + 1 ELSE 0
    BY <1>4 DEF AddToStreaks
  <2>3. InFlight(e, k) /\ \A d \in Evaluators : InFlight(d, k)
    BY StreaksParts
  <2>4. InRow(k)'
    <3>1. CASE add
      <4>1. hist[k].run + 1 <= Counter(m, k) + (hist[k].lost + missed[e][k])
        BY <1>1, <2>3, <3>1 DEF InFlight, Unseen
      <4>2. Counter(cfg', k) = Counter(m, k)
        BY <1>3, <3>1
      <4>3. hist'[k].run <= Counter(cfg', k) + hist'[k].lost
        BY <2>0, <2>1, <3>1, <4>1, <4>2
      <4> QED BY <4>3 DEF InRow, Counter
    <3>2. CASE ~add
      <4>1. hist'[k].run <= Counter(cfg', k) + hist'[k].lost
        BY <2>0, <2>1, <3>2
      <4> QED BY <4>1 DEF InRow, Counter
    <3> QED BY <3>1, <3>2
  <2>5. ASSUME NEW d \in Evaluators PROVE InFlight(d, k)'
    <3> DEFINE n == Counter(task[d].row, k)
    <3> SUFFICES ASSUME d # e, task[d].op = "health", n > 0
                 PROVE  hist'[k].run + 1 <= n + (hist'[k].lost + missed'[d][k])
      BY <1>1 DEF InFlight, Unseen, Counter
    <3>0. n \in Nat
      BY HeldType, CounterType
    <3>1. CASE add
      <4>1. hist[k].run + 1 <= n + (hist[k].lost + missed[d][k])
        BY <2>3 DEF InFlight, Unseen
      <4>2. missed'[d][k] = missed[d][k] + 1
        BY <2>2, <3>1
      <4> HIDE DEF n
      <4> QED BY <2>0, <2>1, <3>0, <3>1, <4>1, <4>2
    <3>2. CASE ~add
      <4>1. missed'[d][k] = 0
        BY <2>2, <3>2
      <4> HIDE DEF n
      <4> QED BY <2>1, <3>0, <3>2, <4>1
    <3> QED BY <3>1, <3>2
  <2> QED BY <2>4, <2>5
<1> QED BY <1>5 DEF StreaksCounted, InRow, InFlight

LEMMA StreaksNext == TypeOK /\ StreaksCounted /\ [Next]_vars => StreaksCounted'
<1> SUFFICES ASSUME TypeOK, StreaksCounted, [Next]_vars
             PROVE  StreaksCounted'
  OBVIOUS
<1>0. cfg \in Config /\ Evaluators \subseteq Everyone
  BY DEF TypeOK, Everyone
<1>1. ASSUME NEW w \in Workers PROVE
        /\ \A op \in Ops : Load(w, op) => StreaksCounted'
        /\ DisableSave(w) => StreaksCounted'
        /\ ClearSave(w) => StreaksCounted'
        /\ LossSave(w) => StreaksCounted'
        /\ ConfigSave(w) => StreaksCounted'
  <2>0. w \in Everyone
    BY DEF Everyone
  <2>1. ASSUME NEW op, Saving(w, op)
        PROVE  /\ \A e \in Evaluators : task'[e] = task[e]
               /\ task[w].row \in Config
    BY <2>0, <2>1, WorkerTask, SavingType
  <2>2. ASSUME NEW op \in Ops, Load(w, op) PROVE StreaksCounted'
    <3>1. \A e \in Evaluators : task'[e] = task[e]
      BY <2>2, WorkerTask
    <3>2. cfg' = cfg /\ hist' = hist /\ missed' = missed
      BY <2>2 DEF Load, streaks
    <3> QED BY <3>1, <3>2, StreaksKept
  <2>3. CASE DisableSave(w)
    <3>1. Saving(w, "disable") /\ hist' = hist /\ missed' = missed
      BY <2>3 DEF DisableSave, streaks
    <3>2. cfg'.errs = cfg.errs /\ cfg'.blocked = cfg.blocked
      BY <1>0, <2>1, <2>3, <3>1, FieldsKept DEF DisableSave
    <3> QED BY <2>1, <3>1, <3>2, StreaksKept
  <2>4. CASE ClearSave(w)
    <3>1. Saving(w, "clear") /\ hist' = hist /\ missed' = missed
      BY <2>4 DEF ClearSave, streaks
    <3>2. cfg'.errs = cfg.errs /\ cfg'.blocked = cfg.blocked
      BY <1>0, <2>1, <2>4, <3>1, FieldsKept DEF ClearSave
    <3> QED BY <2>1, <3>1, <3>2, StreaksKept
  <2>5. CASE LossSave(w)
    <3>1. Saving(w, "loss") /\ hist' = hist /\ missed' = missed
      BY <2>5 DEF LossSave, streaks
    <3>2. cfg'.errs = cfg.errs /\ cfg'.blocked = cfg.blocked
      BY <1>0, <2>5, FieldsKept DEF LossSave
    <3> QED BY <2>1, <3>1, <3>2, StreaksKept
  <2>6. CASE ConfigSave(w)
    <3>1. Saving(w, "config") /\ cfg' = task[w].row
      BY <2>6 DEF ConfigSave
    <3>2. cfg' \in Config
      BY <2>1, <3>1
    <3>3. \A k \in Kinds : hist'[k].run = 0 /\ hist'[k].lost = 0
      BY <2>6 DEF ConfigSave, NoStreak
    <3>4. \A e \in Evaluators : /\ task'[e].row \in Config
                                /\ \A k \in Kinds : missed'[e][k] = 0
      BY <2>1, <2>6, <3>1, HeldType DEF ConfigSave, NoneMissed
    <3>5. \A k \in Kinds : /\ Counter(cfg', k) \in Nat
                           /\ \A e \in Evaluators : Counter(task'[e].row, k) \in Nat
      BY <3>2, <3>4, CounterType
    <3>6. \A k \in Kinds :
            /\ hist'[k].run <= Counter(cfg', k) + hist'[k].lost
            /\ \A e \in Evaluators : Counter(task'[e].row, k) > 0 =>
                 hist'[k].run + 1 <= Counter(task'[e].row, k)
                                     + (hist'[k].lost + missed'[e][k])
      BY <3>3, <3>4, <3>5
    <3> QED BY <3>6 DEF StreaksCounted, Unseen, Counter
  <2> QED BY <2>2, <2>3, <2>4, <2>5, <2>6
<1>2. CASE EnableKill
  <2>1. cfg'.errs = cfg.errs /\ cfg'.blocked = cfg.blocked
    BY <1>0, <1>2, FieldsKept DEF EnableKill
  <2> QED BY <1>2, <2>1, StreaksKept DEF EnableKill, streaks
<1>3. ASSUME NEW e \in Evaluators, TripKill(e) PROVE StreaksCounted'
  <2>1. Saving(e, "trip") /\ hist' = hist /\ missed' = missed
    BY <1>3 DEF TripKill, streaks
  <2>2. task'[e] = Idle /\ \A d \in Evaluators \ {e} : task'[d] = task[d]
    BY <1>0, <2>1, SavingType DEF TypeOK
  <2>3. task'[e].op # "health"
    BY <2>2 DEF Idle
  <2>4. cfg'.errs = cfg.errs /\ cfg'.blocked = cfg.blocked
    BY <1>0, <1>3, FieldsKept DEF TripKill
  <2> QED BY <2>1, <2>2, <2>3, <2>4, StreaksKept
<1>4. ASSUME NEW s \in CtlStatuses, LoopMoves(s) PROVE StreaksCounted'
  BY <1>4, StreaksKept DEF LoopMoves, streaks
<1>5. CASE UNCHANGED vars
  BY <1>5, StreaksKept DEF vars, streaks
<1> QED BY <1>1, <1>2, <1>3, <1>4, <1>5, StreaksLoad, StreaksSave DEF Next

(* Whatever other requests save in between and however the evaluations     *)
(* overlap, an evaluation that completes a streak answers it, unless the   *)
(* counters that were overwritten account for what is missing: by the hard *)
(* stop for errors, by a cooldown or the hard stop for blocked proposals.  *)
THEOREM StreaksGetAnswered == Spec => StreaksAnswered
<1> DEFINE Step ==
      \A e \in Evaluators :
        task[e].op = "health" /\ task'[e].op # "health" =>
          /\ LongEnough(e, "blk", CooldownAfterBlocks) =>
               cfg'.until > task[e].cycle \/ cfg'.hard
          /\ LongEnough(e, "err", HardStopAfterErrors) => cfg'.hard
<1>1. TypeOK /\ StreaksCounted /\ [Next]_vars => [Step]_vars
  <2> SUFFICES ASSUME TypeOK, StreaksCounted, Next, NEW e \in Evaluators,
                      task[e].op = "health", task'[e].op # "health"
               PROVE  /\ LongEnough(e, "blk", CooldownAfterBlocks) =>
                           cfg'.until > task[e].cycle \/ cfg'.hard
                      /\ LongEnough(e, "err", HardStopAfterErrors) => cfg'.hard
    OBVIOUS
  <2>1. PICK u \in BOOLEAN : HealthSave(e, u)
    BY OnlySaveEndsHealth
  <2> DEFINE m == task[e].row
  <2>2. m \in Config /\ cfg \in Config /\ task[e].cycle \in Nat
    BY HeldType
  <2>3. ASSUME NEW k \in Kinds, NEW limit \in Nat, LongEnough(e, k, limit)
        PROVE  Counter(m, k) >= limit
    <3>1. hist[k].run + 1 <= Counter(m, k) + Unseen(e, k)
      BY <2>3 DEF StreaksCounted, LongEnough
    <3>2. hist[k].run + 1 >= limit + Unseen(e, k)
      BY <2>3 DEF LongEnough
    <3>3. hist[k].run \in Nat /\ Unseen(e, k) \in Nat /\ Counter(m, k) \in Nat
      BY <2>2, CounterType DEF TypeOK, Streak, Unseen
    <3> QED BY <3>1, <3>2, <3>3
  <2>4. /\ LongEnough(e, "blk", CooldownAfterBlocks) => Verdict(m, u) # "passed"
        /\ LongEnough(e, "err", HardStopAfterErrors) => Verdict(m, u) = "hard_stop"
    <3>1. CooldownAfterBlocks \in Nat /\ HardStopAfterErrors \in Nat
      BY SafetyLimits
    <3>2. /\ LongEnough(e, "blk", CooldownAfterBlocks) => m.blocked >= CooldownAfterBlocks
          /\ LongEnough(e, "err", HardStopAfterErrors) => m.errs >= HardStopAfterErrors
      BY <2>3, <3>1 DEF Kinds, Counter
    <3> QED BY <2>2, <3>2, VerdictAnswers
  <2>5. CASE Verdict(m, u) = "hard_stop"
    <3>1. cfg' = ErrorHardStop(cfg, m)
      BY <2>1, <2>5 DEF HealthSave
    <3> QED BY <2>2, <3>1, HardStopFields
  <2>6. CASE Verdict(m, u) = "cooldown"
    <3>1. cfg' = SaveHealth(cfg, m, task[e].cycle, u)
      BY <2>1, <2>6 DEF HealthSave
    <3>2. cfg'.until > task[e].cycle
      BY <2>2, <2>6, <3>1, SaveHealthFields
    <3> QED BY <2>4, <2>6, <3>2
  <2>7. CASE Verdict(m, u) = "passed"
    BY <2>4, <2>7
  <2> QED BY <2>2, <2>5, <2>6, <2>7, VerdictType
<1>2. Spec => []StreaksCounted
  BY StreaksInit, StreaksNext, TypeCorrect, PTL DEF Spec
<1> QED BY <1>1, <1>2, TypeCorrect, PTL DEF Spec, StreaksAnswered
===============================================================================
