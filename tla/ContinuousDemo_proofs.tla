------------------------- MODULE ContinuousDemo_proofs -------------------------
(***************************************************************************)
(* Proofs about ContinuousDemo for any number of sessions and web workers, *)
(* any thresholds and any set of operator requests: type correctness,      *)
(* cycles that are numbered without gaps and never overlap within a        *)
(* session, and a halt that admits at most the cycles already in flight.   *)
(***************************************************************************)
EXTENDS ContinuousDemo, TLAPS

-------------------------------------------------------------------------------
(* What this loop uses of the safety guard (services/evaluation.py) keeps  *)
(* the type of its row.                                                    *)

LEMMA TallyType ==
  ASSUME NEW c \in Config, NEW o \in CycleStatuses, NEW b \in BOOLEAN
  PROVE  Tally(c, o, b) \in Config
<1> DEFINE bad == o \in {"FAILED", "PARTIAL"}
           errs == IF bad THEN c.errs + 1 ELSE 0
           failed == IF bad THEN c.failed + (IF o = "FAILED" THEN 1 ELSE 0)
                            ELSE 0
           blocked == IF b THEN c.blocked + 1 ELSE 0
<1>1. errs \in Nat /\ failed \in Nat /\ blocked \in Nat
  BY DEF Config
<1>2. Tally(c, o, b) = [c EXCEPT !.errs = errs, !.failed = failed,
                                 !.blocked = blocked]
  BY Zenon DEF Tally
<1> HIDE DEF errs, failed, blocked
<1> QED BY <1>1, <1>2 DEF Config

LEMMA DisableType ==
  ASSUME NEW c \in Config, NEW r \in Config
  PROVE  DisableKillSwitch(c, r) \in Config
<1> DEFINE label == CASE r.hard                 -> "HARD_STOP"
                      [] ~r.hard /\ r.until # 0 -> "COOLDOWN"
                      [] OTHER                  -> "HEALTHY"
<1>1. label \in Labels
  <2>1. CASE r.hard
    BY <2>1 DEF Labels
  <2>2. CASE ~r.hard /\ r.until # 0
    BY <2>2 DEF Labels
  <2>3. CASE ~r.hard /\ r.until = 0
    BY <2>3 DEF Labels
  <2> QED BY <2>1, <2>2, <2>3
<1>2. DisableKillSwitch(c, r) = [c EXCEPT !.kill = FALSE, !.label = label]
  BY DEF DisableKillSwitch
<1> HIDE DEF label
<1> QED BY <1>1, <1>2 DEF Config

LEMMA CooldownType ==
  ASSUME NEW c \in Config, NEW n \in Nat
  PROVE  TriggerCooldown(c, n) \in Config
<1>1. n + AtLeast1(CooldownCycles) \in Nat
  BY SafetyLimits DEF AtLeast1
<1>2. "COOLDOWN" \in Labels
  BY DEF Labels
<1> QED BY <1>1, <1>2 DEF TriggerCooldown, Config

LEMMA VerdictType ==
  ASSUME NEW m \in Config, NEW u \in BOOLEAN
  PROVE  Verdict(m, u) \in {"hard_stop", "cooldown", "passed"}
<1>1. CASE m.errs >= HardStopAfterErrors
  BY <1>1 DEF Verdict
<1>2. CASE ~(m.errs >= HardStopAfterErrors)
  <2>1. m.errs < HardStopAfterErrors
    BY <1>2, SafetyLimits DEF Config
  <2>2. CASE \/ m.blocked >= CooldownAfterBlocks
             \/ m.failed >= MaxFailedCycles
             \/ u
    BY <1>2, <2>1, <2>2 DEF Verdict
  <2>3. CASE ~(\/ m.blocked >= CooldownAfterBlocks
               \/ m.failed >= MaxFailedCycles
               \/ u)
    BY <1>2, <2>3 DEF Verdict
  <2> QED BY <2>2, <2>3
<1> QED BY <1>1, <1>2

(* What evaluate_cycle_health saves is a row, and it never lifts a halt.   *)
LEMMA SaveHealthType ==
  ASSUME NEW c \in Config, NEW m \in Config, NEW n \in Nat, NEW u \in BOOLEAN
  PROVE  /\ SaveHealth(c, m, n, u) \in Config
         /\ Halted(c) => Halted(SaveHealth(c, m, n, u))
<1>1. CASE Verdict(m, u) = "hard_stop"
  <2>1. SaveHealth(c, m, n, u) =
          EnableKillSwitch(ErrorHardStop(c, m))
    BY <1>1 DEF SaveHealth
  <2> QED
    BY <2>1 DEF EnableKillSwitch, ErrorHardStop, WithCounters, Config, Labels, Halted
<1>2. CASE Verdict(m, u) = "cooldown"
  <2>1. SaveHealth(c, m, n, u) = TriggerCooldown(c, n)
    BY <1>2 DEF SaveHealth
  <2> QED BY <2>1, CooldownType DEF TriggerCooldown, Halted, Config
<1>3. CASE Verdict(m, u) = "passed"
  <2>1. SaveHealth(c, m, n, u) =
          [WithCounters(c, m) EXCEPT
             !.label = IF Halted(m) THEN m.label ELSE "HEALTHY"]
    BY <1>3 DEF SaveHealth
  <2> QED BY <2>1 DEF WithCounters, Config, Labels, Halted
<1> QED BY <1>1, <1>2, <1>3, VerdictType

LEMMA ResetType ==
  ASSUME NEW c \in Config, NEW r \in Config
  PROVE  /\ ClearCooldown(c, r) \in Config
         /\ Halted(ClearCooldown(c, r)) = Halted(c)
         /\ EnableKillSwitch(c) \in Config /\ Halted(EnableKillSwitch(c))
         /\ LossHardStop(c) \in Config /\ Halted(LossHardStop(c))
BY DEF ClearCooldown, EnableKillSwitch, LossHardStop, Halted, Config, Labels

-------------------------------------------------------------------------------
LEMMA NoWorkType ==
  ASSUME NEW s \in Sessions
  PROVE  NoWork(s) \in Work
BY DEF NoWork, Work, SessionStatuses, CycleStatuses

LEMMA LoadedType ==
  ASSUME TypeOK, NEW s \in Sessions, NEW r \in SessionStatuses
  PROVE  /\ Loaded(s, r) \in Work
         /\ Loaded(s, r).ses = s /\ Loaded(s, r).total = session[s].total
BY DEF Loaded, NoWork, TypeOK, SessionRow, Work, SessionStatuses, CycleStatuses

LEMMA SessionOne == 1 \in Sessions
BY DemoAssumption DEF Sessions

-------------------------------------------------------------------------------
(* Type correctness, one step per action.                                  *)

LEMMA TypeInit == Init => TypeOK
BY SessionOne, NoWorkType
   DEF Init, TypeOK, Control, SessionRow, RunStatuses, SessionStatuses,
       DefaultConfig, Config, Labels, Points, Actors

LEMMA TypeOperator == TypeOK /\ Operator => TypeOK'
<1> SUFFICES ASSUME TypeOK, Operator PROVE TypeOK'
  OBVIOUS
<1> USE DEF TypeOK, Control, SessionRow, RunStatuses, SessionStatuses
<1>1. ASSUME NEW s \in Sessions, StartSession(s) PROVE TypeOK'
  BY <1>1 DEF StartSession, Points, Actors
<1>2. CASE PauseSession
  BY <1>2 DEF PauseSession
<1>3. CASE ResumeSession
  BY <1>3 DEF ResumeSession
<1>4. ASSUME NEW k \in BOOLEAN, StopSession(k) PROVE TypeOK'
  <2>1. cfg' \in Config
    BY <1>4, ResetType DEF StopSession
  <2>2. control' \in Control /\ session' \in [Sessions -> SessionRow]
    <3>1. CASE control.active = None
      <4>1. /\ session' = session
            /\ control' = [control EXCEPT !.status = "STOPPED",
                              !.kill = k \/ @, !.stop = k \/ @,
                              !.pause = IF k THEN FALSE ELSE @]
        BY <1>4, <3>1 DEF StopSession
      <4> QED BY <1>4, <4>1
    <3>2. CASE control.active # None
      <4>1. control.active \in Sessions
        BY <3>2
      <4>2. control' = [control EXCEPT !.status = "STOPPED",
                         !.kill = k \/ @, !.stop = TRUE, !.pause = FALSE]
        BY <1>4, <3>2 DEF StopSession
      <4>3. session' = [session EXCEPT ![control.active].status = "STOPPED"]
        BY <1>4, <3>2 DEF StopSession
      <4> QED BY <4>1, <4>2, <4>3
    <3> QED BY <3>1, <3>2
  <2> QED BY <1>4, <2>1, <2>2 DEF StopSession
<1>5. CASE EnableKill
  BY <1>5, ResetType DEF EnableKill, StoppedByKill
<1>6. CASE DisableKill
  BY <1>6, DisableType DEF DisableKill, Recount
<1>7. CASE ResetCooldown
  BY <1>7, ResetType DEF ResetCooldown
<1>8. ASSUME NEW m \in Modes, SetRuntimeMode(m) PROVE TypeOK'
  BY <1>8, DemoAssumption DEF SetRuntimeMode
<1> QED BY <1>1, <1>2, <1>3, <1>4, <1>5, <1>6, <1>7, <1>8 DEF Operator

LEMMA TypeLoop ==
  ASSUME TypeOK, NEW s \in Sessions,
         \/ LoopStop(s) \/ LoopPause(s) \/ LoopFull(s) \/ LoopGo(s)
         \/ LoopWait(s) \/ LoopAfterCycle(s)
  PROVE  TypeOK'
<1>1. s \in Actors
  BY DEF Actors
<1> USE <1>1 DEF TypeOK, Control, SessionRow, RunStatuses, SessionStatuses,
                 Points
<1>2. CASE LoopStop(s)
  BY <1>2 DEF LoopStop, LoopEnds
<1>3. CASE LoopPause(s)
  BY <1>3 DEF LoopPause
<1>4. CASE LoopFull(s)
  BY <1>4 DEF LoopFull, LoopEnds
<1>5. CASE LoopGo(s)
  <2>1. Loaded(s, "RUNNING") \in Work
    BY LoadedType
  <2> QED BY <1>5, <2>1 DEF LoopGo
<1>6. CASE LoopWait(s)
  BY <1>6 DEF LoopWait
<1>7. CASE LoopAfterCycle(s)
  <2>1. NoWork(1) \in Work
    BY NoWorkType, SessionOne
  <2>2. work' \in [Actors -> Work]
    BY <1>7, <2>1 DEF LoopAfterCycle, Forget
  <2>3. CASE work[s].outcome = "FAILED" /\ StopOnError
    <3>1. LoopEnds(s, "FAILED")
          /\ control' = [control EXCEPT !.status = "STOPPED",
                           !.active = None, !.stop = FALSE]
      BY <1>7, <2>3 DEF LoopAfterCycle
    <3> QED BY <2>2, <3>1 DEF LoopEnds
  <2>4. CASE ~(work[s].outcome = "FAILED" /\ StopOnError)
    BY <1>7, <2>2, <2>4 DEF LoopAfterCycle
  <2> QED BY <2>3, <2>4
<1> QED BY <1>2, <1>3, <1>4, <1>5, <1>6, <1>7

LEMMA TypeCycle ==
  ASSUME TypeOK, NEW a \in Actors, CycleStep(a)
  PROVE  TypeOK'
<1>1. NoWork(1) \in Work
  BY NoWorkType, SessionOne
<1> USE <1>1 DEF TypeOK
<1>2. CASE CycleCaps(a)
  BY <1>2 DEF CycleCaps, ReconciledMode, Raise, Forget, Points
<1>3. CASE BeginCycle(a)
  <2>1. CycleRow(a) \in Sessions \X Nat
    BY DEF CycleRow, Work
  <2>2. late' \in [Actors -> Nat]
    BY <1>3 DEF BeginCycle
  <2> QED BY <1>3, <2>1, <2>2 DEF BeginCycle, Control, Points
<1>4. CASE RefuseCycle(a)
  BY <1>4 DEF RefuseCycle, Raise, Forget, Points
<1>5. CASE FinishCycle(a)
  <2>1. session' \in [Sessions -> SessionRow]
    <3>1. work[a] \in Work
      OBVIOUS
    <3>2. [status |-> IF work[a].outcome = "FAILED" THEN "FAILED"
                                                    ELSE work[a].status,
           total |-> work[a].total + 1,
           auto |-> work[a].auto + work[a].count] \in SessionRow
      BY <3>1 DEF Work, SessionRow, SessionStatuses
    <3> QED BY <1>5, <3>2 DEF FinishCycle
  <2> QED BY <1>5, <2>1 DEF FinishCycle, Control, Points
<1>6. ASSUME NEW o \in CycleStatuses, NEW b \in BOOLEAN, NEW n \in AutoCounts,
             CycleBody(a, o, b, n)
      PROVE TypeOK'
  <2>1. n \in Nat
    BY DemoAssumption
  <2>2. work' \in [Actors -> Work]
    <3>1. work' = [work EXCEPT ![a].outcome = o, ![a].blocked = b, ![a].count = n]
      BY <1>6 DEF CycleBody
    <3>2. work \in [Actors -> Work]
      OBVIOUS
    <3> QED BY <2>1, <3>1, <3>2 DEF Work
  <2> QED BY <1>6, <2>2 DEF CycleBody, Points
<1>7. ASSUME NEW u \in BOOLEAN, CycleHealth(a, u) PROVE TypeOK'
  <2> DEFINE m == Tally(cfg, work[a].outcome, work[a].blocked)
  <2>1. work[a].outcome \in CycleStatuses /\ work[a].blocked \in BOOLEAN
        /\ work[a].total + 1 \in Nat
    BY DEF Work
  <2>2. m \in Config
    BY <2>1, TallyType
  <2>3. cfg' = SaveHealth(cfg, m, work[a].total + 1, u)
    BY <1>7 DEF CycleHealth
  <2> HIDE DEF m
  <2>4. cfg' \in Config
    BY <2>1, <2>2, <2>3, SaveHealthType
  <2>5. control' \in Control
    BY <1>7 DEF CycleHealth, StoppedByKill, Control, RunStatuses
  <2> QED BY <1>7, <2>4, <2>5 DEF CycleHealth, Forget, Points
<1> QED BY <1>2, <1>3, <1>4, <1>5, <1>6, <1>7 DEF CycleStep

LEMMA TypeRequest ==
  ASSUME TypeOK, NEW c \in Callers, NEW s \in Sessions, RunCycleRequest(c, s)
  PROVE  TypeOK'
<1>1. c \in Actors /\ session[s].status \in SessionStatuses
  BY DEF Actors, TypeOK, SessionRow
<1>2. Loaded(s, session[s].status) \in Work /\ Loaded(s, "RUNNING") \in Work
  BY <1>1, LoadedType DEF SessionStatuses
<1>3. work' \in [Actors -> Work]
  BY <1>1, <1>2 DEF RunCycleRequest, TypeOK
<1>4. session' \in [Sessions -> SessionRow]
  BY DEF RunCycleRequest, TypeOK, SessionRow, SessionStatuses
<1> QED BY <1>1, <1>3, <1>4 DEF RunCycleRequest, TypeOK, Points

LEMMA TypeRest ==
  ASSUME TypeOK, Restart \/ \E a \in Actors : LossStop(a)
  PROVE  TypeOK'
<1>1. CASE Restart
  BY <1>1, NoWorkType, SessionOne DEF Restart, TypeOK, Points
<1>2. ASSUME NEW a \in Actors, LossStop(a) PROVE TypeOK'
  BY <1>2, ResetType DEF LossStop, TypeOK
<1> QED BY <1>1, <1>2

(* Every reachable state is well typed, for all values of the constants.   *)
THEOREM TypeCorrect == Spec => []TypeOK
<1>1. Init => TypeOK
  BY TypeInit
<1>2. TypeOK /\ [Next]_vars => TypeOK'
  <2> SUFFICES ASSUME TypeOK, [Next]_vars PROVE TypeOK'
    OBVIOUS
  <2>1. ASSUME NEW s \in Sessions, LoopStep(s) PROVE TypeOK'
    BY <2>1, TypeLoop, TypeCycle DEF LoopStep, Actors
  <2>2. ASSUME NEW c \in Callers, CycleStep(c) PROVE TypeOK'
    BY <2>2, TypeCycle DEF Actors
  <2>3. CASE UNCHANGED vars
    BY <2>3 DEF vars, TypeOK
  <2> QED
    BY <2>1, <2>2, <2>3, TypeOperator, TypeRequest, TypeRest DEF Next
<1> QED BY <1>1, <1>2, PTL DEF Spec
-------------------------------------------------------------------------------
(* Cycle numbers.  A step that neither begins nor finishes a cycle and     *)
(* moves no actor towards one keeps CycleInv: what it must not touch.      *)

LEMMA CycleInit == Init => CycleInv
BY DEF Init, CycleInv, CyclesDense, OneCyclePerSession, MemoryInv, InCycle

LEMMA CycleFrame ==
  ASSUME TypeOK, CycleInv, rows' = rows,
         session' \in [Sessions -> SessionRow],
         \A s \in Sessions : session'[s].total = session[s].total,
         \A a \in Actors :
           \/ /\ pc'[a] = pc[a]
              /\ work'[a].ses = work[a].ses
              /\ work'[a].total = work[a].total
           \/ pc'[a] \notin {"caps", "begin", "body", "finish"}
           \/ /\ pc'[a] = "caps"
              /\ work'[a].ses \in Sessions
              /\ work'[a].total = session[work'[a].ses].total
           \/ /\ pc[a] = "caps" /\ pc'[a] = "begin"
              /\ work'[a] = work[a]
           \/ /\ pc[a] = "body" /\ pc'[a] = "finish"
              /\ work'[a].ses = work[a].ses
              /\ work'[a].total = work[a].total
  PROVE  CycleInv'
<1>1. \A a \in Actors : work[a].ses \in Sessions /\ work[a].total \in Nat
  BY DEF TypeOK, Work
<1>2. \A r \in rows : r[1] \in Sessions
  BY DEF TypeOK
<1>3. \A s \in Sessions : session[s].total \in Nat
  BY DEF TypeOK, SessionRow
<1>4. CyclesDense'
  BY <1>2 DEF CycleInv, CyclesDense
<1>5. ASSUME NEW a \in Actors, InCycle(a)'
      PROVE  InCycle(a) /\ work'[a].ses = work[a].ses
                        /\ work'[a].total = work[a].total
  BY <1>5 DEF InCycle
<1>6. OneCyclePerSession'
  BY <1>5 DEF CycleInv, OneCyclePerSession, InCycle
<1>7. MemoryInv'
  <2> SUFFICES ASSUME NEW a \in Actors
               PROVE  /\ pc'[a] \in {"caps", "begin"} =>
                           work'[a].total <= session'[work'[a].ses].total
                      /\ InCycle(a)' =>
                           /\ work'[a].total = session'[work'[a].ses].total
                           /\ <<work'[a].ses, session'[work'[a].ses].total + 1>>
                                \in rows'
    BY DEF MemoryInv
  <2>1. ASSUME InCycle(a)'
        PROVE  /\ work'[a].total = session'[work'[a].ses].total
               /\ <<work'[a].ses, session'[work'[a].ses].total + 1>> \in rows'
    BY <1>1, <1>5, <2>1 DEF CycleInv, MemoryInv
  <2>2. ASSUME pc'[a] \in {"caps", "begin"}
        PROVE  work'[a].total <= session'[work'[a].ses].total
    <3>1. CASE pc'[a] = pc[a] /\ work'[a].ses = work[a].ses
               /\ work'[a].total = work[a].total
      <4>1. work[a].total <= session[work[a].ses].total
        BY <2>2, <3>1 DEF CycleInv, MemoryInv
      <4>2. session'[work'[a].ses].total = session[work[a].ses].total
        BY <1>1, <3>1
      <4> QED BY <3>1, <4>1, <4>2
    <3>2. CASE pc'[a] = "caps" /\ work'[a].ses \in Sessions
               /\ work'[a].total = session[work'[a].ses].total
      BY <1>3, <3>2
    <3>3. CASE pc[a] = "caps" /\ pc'[a] = "begin" /\ work'[a] = work[a]
      BY <1>1, <3>3 DEF CycleInv, MemoryInv
    <3> QED BY <2>2, <3>1, <3>2, <3>3
  <2> QED BY <2>1, <2>2
<1> QED BY <1>4, <1>6, <1>7 DEF CycleInv

(* _begin_cycle: the number it takes is new, so it is total_cycles + 1 and *)
(* nobody else is inside a cycle of the session.                           *)
LEMMA CycleBegins ==
  ASSUME TypeOK, CycleInv, NEW a \in Actors, BeginCycle(a)
  PROVE  CycleInv'
<1> DEFINE s == work[a].ses
           t == session[s].total
<1>1. s \in Sessions /\ t \in Nat /\ work[a].total \in Nat
  BY DEF TypeOK, Work, SessionRow
<1>2. work[a].total <= t /\ <<s, work[a].total + 1>> \notin rows
  BY DEF BeginCycle, CycleRow, CycleInv, MemoryInv
<1>3. work[a].total = t
  <2>1. CASE work[a].total < t
    <3>1. work[a].total + 1 \in 1 .. t
      BY <1>1, <2>1
    <3>2. <<s, work[a].total + 1>> \in rows
      BY <1>1, <3>1 DEF CycleInv, CyclesDense
    <3> QED BY <1>2, <3>2
  <2> QED BY <1>1, <1>2, <2>1
<1>4. rows' = rows \cup {<<s, t + 1>>} /\ session' = session /\ work' = work
  BY <1>3 DEF BeginCycle, CycleRow
<1>5. \A b \in Actors : pc'[b] = IF b = a THEN "body" ELSE pc[b]
  BY DEF BeginCycle, TypeOK
<1>6. \A b \in Actors : InCycle(b) => work[b].ses # s
  <2> SUFFICES ASSUME NEW b \in Actors, InCycle(b), work[b].ses = s
               PROVE  FALSE
    OBVIOUS
  <2>1. <<s, t + 1>> \in rows
    BY DEF CycleInv, MemoryInv
  <2> QED BY <1>2, <1>3, <2>1
<1>7. CyclesDense'
  <2>1. \A z \in Sessions : \A n \in 1 .. session'[z].total :
          <<z, n>> \in rows'
    BY <1>4 DEF CycleInv, CyclesDense
  <2>2. ASSUME NEW r \in rows'
        PROVE  r[2] \in 1 .. session'[r[1]].total + 1
    <3>1. CASE r \in rows
      BY <1>4, <3>1 DEF CycleInv, CyclesDense
    <3>2. CASE r = <<s, t + 1>>
      BY <1>1, <1>4, <3>2
    <3> QED BY <1>4, <2>2, <3>1, <3>2
  <2> QED BY <2>1, <2>2 DEF CyclesDense
<1>8. OneCyclePerSession'
  BY <1>4, <1>5, <1>6 DEF CycleInv, OneCyclePerSession, InCycle
<1>9. MemoryInv'
  <2> SUFFICES ASSUME NEW b \in Actors
               PROVE  /\ pc'[b] \in {"caps", "begin"} =>
                           work[b].total <= session[work[b].ses].total
                      /\ pc'[b] \in {"body", "finish"} =>
                           /\ work[b].total = session[work[b].ses].total
                           /\ <<work[b].ses, session[work[b].ses].total + 1>>
                                \in rows'
    BY <1>4 DEF MemoryInv, InCycle
  <2>1. CASE b = a
    <3>1. pc'[b] = "body" /\ work[b].ses = s /\ session[s].total = t
      BY <1>5, <2>1
    <3>2. <<s, t + 1>> \in rows'
      BY <1>4
    <3> QED BY <1>3, <2>1, <3>1, <3>2
  <2>2. CASE b # a
    BY <1>4, <1>5, <2>2 DEF CycleInv, MemoryInv, InCycle
  <2> QED BY <2>1, <2>2
<1> QED BY <1>7, <1>8, <1>9 DEF CycleInv

(* _finish_cycle: the totals it writes back are exact.                     *)
LEMMA CycleFinishes ==
  ASSUME TypeOK, CycleInv, NEW a \in Actors, FinishCycle(a)
  PROVE  CycleInv'
<1> DEFINE s == work[a].ses
           t == session[s].total
<1>1. s \in Sessions /\ t \in Nat
  BY DEF TypeOK, Work, SessionRow
<1>2. InCycle(a)
  BY DEF FinishCycle, InCycle
<1>3. work[a].total = t /\ <<s, t + 1>> \in rows
  BY <1>2 DEF CycleInv, MemoryInv
<1>4. rows' = rows /\ work' = work
  BY DEF FinishCycle
<1>5. \A z \in Sessions :
        session'[z].total = IF z = s THEN t + 1 ELSE session[z].total
  BY <1>1, <1>3 DEF FinishCycle, TypeOK
<1>6. \A b \in Actors : pc'[b] = IF b = a THEN "health" ELSE pc[b]
  BY DEF FinishCycle, TypeOK
<1>7. \A r \in rows : r[1] \in Sessions
  BY DEF TypeOK
<1>8. CyclesDense'
  <2>1. ASSUME NEW z \in Sessions, NEW n \in 1 .. session'[z].total
        PROVE  <<z, n>> \in rows'
    <3>1. CASE z = s /\ n = t + 1
      BY <1>3, <1>4, <3>1
    <3>2. CASE ~(z = s /\ n = t + 1)
      <4>1. n \in 1 .. session[z].total
        BY <1>1, <1>5, <2>1, <3>2
      <4> QED BY <1>4, <4>1 DEF CycleInv, CyclesDense
    <3> QED BY <3>1, <3>2
  <2>2. ASSUME NEW r \in rows'
        PROVE  r[2] \in 1 .. session'[r[1]].total + 1
    <3>1. r[1] \in Sessions /\ session[r[1]].total \in Nat
      BY <1>4, <1>7 DEF TypeOK, SessionRow
    <3>2. r[2] \in 1 .. session[r[1]].total + 1
      BY <1>4 DEF CycleInv, CyclesDense
    <3> QED BY <1>5, <3>1, <3>2
  <2> QED BY <2>1, <2>2 DEF CyclesDense
<1>9. \A b \in Actors : InCycle(b) /\ b # a => work[b].ses # s
  BY <1>2 DEF CycleInv, OneCyclePerSession
<1>10. OneCyclePerSession'
  BY <1>4, <1>6 DEF CycleInv, OneCyclePerSession, InCycle
<1>11. MemoryInv'
  <2> SUFFICES ASSUME NEW b \in Actors
               PROVE  /\ pc'[b] \in {"caps", "begin"} =>
                           work[b].total <= session'[work[b].ses].total
                      /\ pc'[b] \in {"body", "finish"} =>
                           /\ work[b].total = session'[work[b].ses].total
                           /\ <<work[b].ses, session'[work[b].ses].total + 1>>
                                \in rows
    BY <1>4 DEF MemoryInv, InCycle
  <2>1. work[b].ses \in Sessions /\ work[b].total \in Nat
        /\ session[work[b].ses].total \in Nat
    BY DEF TypeOK, Work, SessionRow
  <2>2. CASE b = a
    BY <1>6, <2>2
  <2>3. ASSUME b # a, pc[b] \in {"caps", "begin"}
        PROVE  work[b].total <= session'[work[b].ses].total
    <3>1. work[b].total <= session[work[b].ses].total
      BY <2>3 DEF CycleInv, MemoryInv
    <3> QED BY <1>1, <1>5, <2>1, <3>1
  <2>4. ASSUME b # a, pc[b] \in {"body", "finish"}
        PROVE  /\ work[b].total = session'[work[b].ses].total
               /\ <<work[b].ses, session'[work[b].ses].total + 1>> \in rows
    <3>1. InCycle(b)
      BY <2>4 DEF InCycle
    <3>2. session'[work[b].ses].total = session[work[b].ses].total
      BY <1>5, <1>9, <2>1, <2>4, <3>1
    <3> QED BY <3>1, <3>2 DEF CycleInv, MemoryInv
  <2> QED BY <1>6, <2>2, <2>3, <2>4
<1> QED BY <1>8, <1>10, <1>11 DEF CycleInv

(* The other steps of threads, web workers and operators, by the frame.    *)
LEMMA CycleOperator ==
  ASSUME TypeOK, TypeOK', CycleInv, Operator PROVE CycleInv'
<1>1. rows' = rows /\ work' = work
  BY DEF Operator, StartSession, PauseSession, ResumeSession, StopSession,
         EnableKill, DisableKill, ResetCooldown, SetRuntimeMode
<1>2. \A s \in Sessions : session'[s].total = session[s].total
  <2>1. \/ session' = session
        \/ \E t \in Sessions \cup {None}, r \in SessionStatuses :
             session' = [session EXCEPT ![t].status = r]
    BY DEF Operator, StartSession, PauseSession, ResumeSession, StopSession,
           EnableKill, DisableKill, ResetCooldown, SetRuntimeMode, TypeOK,
           Control, SessionStatuses
  <2>2. ASSUME NEW t, NEW r, session' = [session EXCEPT ![t].status = r],
               NEW s \in Sessions
        PROVE  session'[s].total = session[s].total
    BY <2>2 DEF TypeOK, SessionRow
  <2> QED BY <2>1, <2>2
<1>3. \A a \in Actors : pc'[a] = pc[a] \/ pc'[a] = "top"
  BY DEF Operator, StartSession, PauseSession, ResumeSession, StopSession,
         EnableKill, DisableKill, ResetCooldown, SetRuntimeMode, TypeOK
<1>4. session' \in [Sessions -> SessionRow]
  BY DEF TypeOK
<1> QED BY <1>1, <1>2, <1>3, <1>4, CycleFrame

LEMMA CycleLoop ==
  ASSUME TypeOK, TypeOK', CycleInv, NEW s \in Sessions,
         \/ LoopStop(s) \/ LoopPause(s) \/ LoopFull(s) \/ LoopGo(s)
         \/ LoopWait(s) \/ LoopAfterCycle(s)
  PROVE  CycleInv'
<1>1. rows' = rows /\ session' \in [Sessions -> SessionRow]
  BY DEF LoopStop, LoopPause, LoopFull, LoopGo, LoopWait, LoopAfterCycle,
         LoopEnds, TypeOK
<1>2. \A z \in Sessions : session'[z].total = session[z].total
  BY DEF LoopStop, LoopPause, LoopFull, LoopGo, LoopWait, LoopAfterCycle,
         LoopEnds, TypeOK, SessionRow
<1>3. \A a \in Actors : a # s => pc'[a] = pc[a] /\ work'[a] = work[a]
  BY DEF LoopStop, LoopPause, LoopFull, LoopGo, LoopWait, LoopAfterCycle,
         LoopEnds, Forget, TypeOK
<1>4. s \in Actors
  BY DEF Actors
<1>5. \/ pc'[s] \notin {"caps", "begin", "body", "finish"}
      \/ /\ pc'[s] = "caps" /\ work'[s].ses \in Sessions
         /\ work'[s].total = session[work'[s].ses].total
  <2>1. CASE LoopGo(s)
    <3>1. Loaded(s, "RUNNING").ses = s
          /\ Loaded(s, "RUNNING").total = session[s].total
      BY LoadedType DEF SessionStatuses
    <3> QED BY <1>4, <2>1, <3>1 DEF LoopGo, TypeOK
  <2>2. CASE LoopStop(s) \/ LoopFull(s)
    BY <1>4, <2>2 DEF LoopStop, LoopFull, LoopEnds, TypeOK
  <2>3. CASE LoopPause(s) \/ LoopWait(s)
    BY <1>4, <2>3 DEF LoopPause, LoopWait, TypeOK
  <2>4. CASE LoopAfterCycle(s)
    BY <1>4, <2>4 DEF LoopAfterCycle, LoopEnds, TypeOK
  <2> QED BY <2>1, <2>2, <2>3, <2>4
<1> QED BY <1>1, <1>2, <1>3, <1>5, CycleFrame

LEMMA CycleWork ==
  ASSUME TypeOK, TypeOK', CycleInv, NEW a \in Actors, CycleStep(a)
  PROVE  CycleInv'
<1>0. session' \in [Sessions -> SessionRow]
  BY DEF TypeOK
<1>1. CASE CycleCaps(a)
  <2>1. rows' = rows /\ session' = session
    BY <1>1 DEF CycleCaps
  <2>2. \A b \in Actors : b # a => pc'[b] = pc[b] /\ work'[b] = work[b]
    BY <1>1 DEF CycleCaps, Raise, Forget, TypeOK
  <2>3. \/ pc'[a] \in {"died", "off"}
        \/ pc[a] = "caps" /\ pc'[a] = "begin" /\ work'[a] = work[a]
    BY <1>1 DEF CycleCaps, Raise, TypeOK
  <2> QED BY <1>0, <2>1, <2>2, <2>3, CycleFrame
<1>2. CASE BeginCycle(a)
  BY <1>2, CycleBegins
<1>3. CASE RefuseCycle(a)
  <2>1. rows' = rows /\ session' = session
    BY <1>3 DEF RefuseCycle
  <2>2. \A b \in Actors : b # a => pc'[b] = pc[b] /\ work'[b] = work[b]
    BY <1>3 DEF RefuseCycle, Raise, Forget, TypeOK
  <2>3. pc'[a] \in {"died", "off"}
    BY <1>3 DEF RefuseCycle, Raise, TypeOK
  <2> QED BY <1>0, <2>1, <2>2, <2>3, CycleFrame
<1>4. CASE FinishCycle(a)
  BY <1>4, CycleFinishes
<1>5. ASSUME NEW o \in CycleStatuses, NEW b \in BOOLEAN, NEW n \in AutoCounts,
             CycleBody(a, o, b, n)
      PROVE  CycleInv'
  <2>1. rows' = rows /\ session' = session
    BY <1>5 DEF CycleBody
  <2>2. \A c \in Actors : c # a => pc'[c] = pc[c] /\ work'[c] = work[c]
    BY <1>5 DEF CycleBody, TypeOK
  <2>3. pc[a] = "body" /\ pc'[a] = "finish"
    BY <1>5 DEF CycleBody, TypeOK
  <2>4. work'[a].ses = work[a].ses /\ work'[a].total = work[a].total
    BY <1>5 DEF CycleBody, TypeOK, Work
  <2> QED BY <1>0, <2>1, <2>2, <2>3, <2>4, CycleFrame
<1>6. ASSUME NEW u \in BOOLEAN, CycleHealth(a, u) PROVE CycleInv'
  <2>1. rows' = rows /\ session' = session
    BY <1>6 DEF CycleHealth
  <2>2. \A b \in Actors : b # a => pc'[b] = pc[b] /\ work'[b] = work[b]
    BY <1>6 DEF CycleHealth, Forget, TypeOK
  <2>3. pc'[a] \in {"post", "off"}
    BY <1>6 DEF CycleHealth, TypeOK
  <2> QED BY <1>0, <2>1, <2>2, <2>3, CycleFrame
<1> QED BY <1>1, <1>2, <1>3, <1>4, <1>5, <1>6 DEF CycleStep

LEMMA CycleRequest ==
  ASSUME TypeOK, TypeOK', CycleInv, NEW c \in Callers, NEW s \in Sessions,
         RunCycleRequest(c, s)
  PROVE  CycleInv'
<1>1. rows' = rows /\ session' \in [Sessions -> SessionRow] /\ c \in Actors
  BY DEF RunCycleRequest, TypeOK, Actors
<1>2. \A z \in Sessions : session'[z].total = session[z].total
  BY DEF RunCycleRequest, TypeOK, SessionRow
<1>3. \A b \in Actors : b # c => pc'[b] = pc[b] /\ work'[b] = work[b]
  BY DEF RunCycleRequest, TypeOK
<1>4. pc'[c] = "caps"
  BY <1>1 DEF RunCycleRequest, TypeOK
<1>5. work'[c].ses = s /\ work'[c].total = session[s].total
  <2>1. session[s].status \in SessionStatuses /\ "RUNNING" \in SessionStatuses
    BY DEF TypeOK, SessionRow, SessionStatuses
  <2>2. \E r \in SessionStatuses : work' = [work EXCEPT ![c] = Loaded(s, r)]
    BY <2>1 DEF RunCycleRequest
  <2> QED BY <1>1, <2>2, LoadedType DEF TypeOK
<1> QED BY <1>1, <1>2, <1>3, <1>4, <1>5, CycleFrame

LEMMA CycleRest ==
  ASSUME TypeOK, TypeOK', CycleInv, Restart \/ \E a \in Actors : LossStop(a)
  PROVE  CycleInv'
<1>1. CASE Restart
  <2>1. \A a \in Actors : pc'[a] \notin {"caps", "begin", "body", "finish"}
    BY <1>1 DEF Restart, Alive, TypeOK, Actors
  <2>2. rows' = rows /\ session' = session
    BY <1>1 DEF Restart
  <2> QED BY <2>1, <2>2, CycleFrame DEF TypeOK
<1>2. ASSUME NEW a \in Actors, LossStop(a) PROVE CycleInv'
  <2>1. rows' = rows /\ session' = session /\ pc' = pc /\ work' = work
    BY <1>2 DEF LossStop
  <2> QED BY <2>1, CycleFrame DEF TypeOK
<1> QED BY <1>1, <1>2

(* Cycle rows are numbered without gaps, totals count them exactly, and no *)
(* session runs two cycles at once, however many threads and web workers   *)
(* run them and wherever the process is restarted.                         *)
THEOREM CyclesInOrder == Spec => []CyclesSerial
<1>1. Init => CycleInv
  BY CycleInit
<1>2. TypeOK /\ TypeOK' /\ CycleInv /\ [Next]_vars => CycleInv'
  <2> SUFFICES ASSUME TypeOK, TypeOK', CycleInv, [Next]_vars PROVE CycleInv'
    OBVIOUS
  <2>1. ASSUME NEW s \in Sessions, LoopStep(s) PROVE CycleInv'
    BY <2>1, CycleLoop, CycleWork DEF LoopStep, Actors
  <2>2. ASSUME NEW c \in Callers, CycleStep(c) PROVE CycleInv'
    BY <2>2, CycleWork DEF Actors
  <2>3. CASE UNCHANGED vars
    BY <2>3, CycleFrame DEF vars, TypeOK
  <2> QED
    BY <2>1, <2>2, <2>3, CycleOperator, CycleRequest, CycleRest DEF Next
<1>3. CycleInv => CyclesSerial
  BY DEF CycleInv, CyclesSerial
<1> QED BY <1>1, <1>2, <1>3, TypeCorrect, PTL DEF Spec

-------------------------------------------------------------------------------
(* A halt and the cycles in flight.                                        *)

(* Only disable_kill_switch lifts a halt, and the history restarts there.  *)
LEMMA HaltOperator ==
  ASSUME TypeOK, TypeOK', HaltInv, Operator PROVE HaltInv'
<1>1. \A a \in Actors : late[a] \in Nat /\ pc'[a] \in Points
  BY DEF TypeOK
<1>2. CASE DisableKill
  <2>1. pc' = pc
    BY <1>2 DEF DisableKill
  <2>2. CASE Halted(cfg')
    <3>1. Halted(cfg)
      BY <1>2, <2>2 DEF DisableKill, DisableKillSwitch, Halted, TypeOK, Config
    <3>2. late' = late
      BY <1>2, <2>2 DEF DisableKill, Recount
    <3> QED
      BY <2>1, <2>2, <3>2 DEF HaltInv, HaltAdmitsOnlyInFlight, LateInv
  <2>3. CASE ~Halted(cfg')
    <3>1. \A a \in Actors : late'[a] = 0
      BY <1>2, <2>3 DEF DisableKill, Recount
    <3> QED BY <3>1 DEF HaltInv, HaltAdmitsOnlyInFlight, LateInv
  <2> QED BY <2>2, <2>3
<1>3. CASE ~DisableKill
  <2>1. late' = late
    BY <1>3 DEF Operator, StartSession, PauseSession, ResumeSession,
                StopSession, EnableKill, ResetCooldown, SetRuntimeMode
  <2>2. \A a \in Actors : pc'[a] = "begin" => pc[a] = "begin"
    BY <1>3 DEF Operator, StartSession, PauseSession, ResumeSession,
                StopSession, EnableKill, ResetCooldown, SetRuntimeMode, TypeOK
  <2>3. \/ cfg' = cfg \/ cfg' = EnableKillSwitch(cfg)
        \/ cfg' = ClearCooldown(cfg, cfg)
    BY <1>3 DEF Operator, StartSession, PauseSession, ResumeSession,
                StopSession, EnableKill, ResetCooldown, SetRuntimeMode
  <2>4. Halted(cfg) => Halted(cfg')
    BY <2>3, ResetType DEF TypeOK
  <2> QED
    BY <2>1, <2>2, <2>4 DEF HaltInv, HaltAdmitsOnlyInFlight, LateInv
<1> QED BY <1>2, <1>3

(* A step that raises no count and clears no actor, and keeps the halt.    *)
LEMMA HaltFrame ==
  ASSUME HaltInv, late' = late, Halted(cfg) => Halted(cfg'),
         \A a \in Actors : pc'[a] = "begin" => pc[a] = "begin"
  PROVE  HaltInv'
BY DEF HaltInv, HaltAdmitsOnlyInFlight, LateInv

LEMMA HaltLoop ==
  ASSUME TypeOK, TypeOK', HaltInv, NEW s \in Sessions,
         \/ LoopStop(s) \/ LoopPause(s) \/ LoopFull(s) \/ LoopGo(s)
         \/ LoopWait(s) \/ LoopAfterCycle(s)
  PROVE  HaltInv'
<1>1. late' = late /\ cfg' = cfg
  BY DEF LoopStop, LoopPause, LoopFull, LoopGo, LoopWait, LoopAfterCycle,
         LoopEnds
<1>2. \A a \in Actors : pc'[a] = "begin" => pc[a] = "begin"
  BY DEF LoopStop, LoopPause, LoopFull, LoopGo, LoopWait, LoopAfterCycle,
         LoopEnds, TypeOK
<1> QED BY <1>1, <1>2, HaltFrame

LEMMA HaltWork ==
  ASSUME TypeOK, TypeOK', HaltInv, NEW a \in Actors, CycleStep(a)
  PROVE  HaltInv'
<1>1. CASE CycleCaps(a)
  <2>1. late' = late /\ cfg' = cfg
    BY <1>1 DEF CycleCaps
  <2>2. CASE Halted(cfg)
    <3>1. \A b \in Actors : pc'[b] = "begin" => pc[b] = "begin"
      BY <1>1, <2>2 DEF CycleCaps, AllowContinuousLoop, Raise, TypeOK
    <3> QED BY <2>1, <3>1, HaltFrame
  <2>3. CASE ~Halted(cfg)
    BY <2>1, <2>3 DEF HaltInv, HaltAdmitsOnlyInFlight, LateInv
  <2> QED BY <2>2, <2>3
<1>2. CASE BeginCycle(a)
  <2>1. cfg' = cfg /\ late[a] = 0
    BY <1>2 DEF BeginCycle, HaltInv, LateInv
  <2>2. \A b \in Actors : pc'[b] = "begin" => pc[b] = "begin" /\ b # a
    BY <1>2 DEF BeginCycle, TypeOK
  <2>3. \A b \in Actors : late'[b] = IF Halted(cfg) /\ b = a THEN 1
                                                           ELSE late[b]
    BY <1>2, <2>1 DEF BeginCycle, TypeOK
  <2> QED
    BY <2>1, <2>2, <2>3 DEF HaltInv, HaltAdmitsOnlyInFlight, LateInv
<1>3. CASE RefuseCycle(a) \/ FinishCycle(a)
  <2>1. late' = late /\ cfg' = cfg
    BY <1>3 DEF RefuseCycle, FinishCycle
  <2>2. \A b \in Actors : pc'[b] = "begin" => pc[b] = "begin"
    BY <1>3 DEF RefuseCycle, FinishCycle, Raise, TypeOK
  <2> QED BY <2>1, <2>2, HaltFrame
<1>4. ASSUME NEW o \in CycleStatuses, NEW b \in BOOLEAN, NEW n \in AutoCounts,
             CycleBody(a, o, b, n)
      PROVE  HaltInv'
  <2>1. late' = late /\ cfg' = cfg
    BY <1>4 DEF CycleBody
  <2>2. \A c \in Actors : pc'[c] = "begin" => pc[c] = "begin"
    BY <1>4 DEF CycleBody, TypeOK
  <2> QED BY <2>1, <2>2, HaltFrame
<1>5. ASSUME NEW u \in BOOLEAN, CycleHealth(a, u) PROVE HaltInv'
  <2> DEFINE w == work[a]
             m == Tally(cfg, w.outcome, w.blocked)
  <2>1. late' = late /\ cfg' = SaveHealth(cfg, m, w.total + 1, u)
    BY <1>5 DEF CycleHealth
  <2>2. \A c \in Actors : pc'[c] = "begin" => pc[c] = "begin"
    BY <1>5 DEF CycleHealth, TypeOK
  <2>3. /\ w.outcome \in CycleStatuses /\ w.blocked \in BOOLEAN
        /\ w.total + 1 \in Nat /\ cfg \in Config
    BY DEF TypeOK, Work
  <2>4. m \in Config
    BY <2>3, TallyType
  <2>5. Halted(cfg) => Halted(cfg')
    BY <2>1, <2>3, <2>4, SaveHealthType
  <2> QED BY <2>1, <2>2, <2>5, HaltFrame
<1> QED BY <1>1, <1>2, <1>3, <1>4, <1>5 DEF CycleStep

LEMMA HaltRest ==
  ASSUME TypeOK, TypeOK', HaltInv,
         \/ \E a \in Actors : LossStop(a)
         \/ \E c \in Callers, s \in Sessions : RunCycleRequest(c, s)
         \/ Restart
  PROVE  HaltInv'
<1>1. \A a \in Actors : pc'[a] = "begin" => pc[a] = "begin"
  BY DEF LossStop, RunCycleRequest, Restart, Alive, TypeOK
<1>2. late' = late /\ (cfg' = cfg \/ cfg' = LossHardStop(cfg))
  BY DEF LossStop, RunCycleRequest, Restart
<1>3. Halted(cfg) => Halted(cfg')
  BY <1>2, ResetType DEF TypeOK
<1> QED BY <1>1, <1>2, <1>3, HaltFrame

(* Once a halt is raised, an actor begins at most the one cycle it had     *)
(* already cleared: at most one cycle each, until the halt is lifted.      *)
THEOREM HaltInFlight == Spec => []HaltAdmitsOnlyInFlight
<1>1. Init => HaltInv
  BY DEF Init, HaltInv, HaltAdmitsOnlyInFlight, LateInv
<1>2. TypeOK /\ TypeOK' /\ HaltInv /\ [Next]_vars => HaltInv'
  <2> SUFFICES ASSUME TypeOK, TypeOK', HaltInv, [Next]_vars PROVE HaltInv'
    OBVIOUS
  <2>1. ASSUME NEW s \in Sessions, LoopStep(s) PROVE HaltInv'
    BY <2>1, HaltLoop, HaltWork DEF LoopStep, Actors
  <2>2. ASSUME NEW c \in Callers, CycleStep(c) PROVE HaltInv'
    BY <2>2, HaltWork DEF Actors
  <2>3. CASE UNCHANGED vars
    BY <2>3, HaltFrame DEF vars
  <2> QED BY <2>1, <2>2, <2>3, HaltOperator, HaltRest DEF Next
<1>3. HaltInv => HaltAdmitsOnlyInFlight
  BY DEF HaltInv
<1> QED BY <1>1, <1>2, <1>3, TypeCorrect, PTL DEF Spec

-------------------------------------------------------------------------------
(* The limits.  A thread inside a cycle holds totals that were within them *)
(* when it entered, and it is what it holds that its cycle adds to.        *)
Within(s) ==
  /\ MaxCycles # 0 => work[s].total < MaxCycles
  /\ work[s].auto < MaxAutoTotal
LimitsInv ==
  /\ LoopLimits
  /\ \A s \in Sessions :
       /\ pc[s] \in {"caps", "begin", "body", "finish"} => Within(s)
       /\ pc[s] = "finish" => work[s].count \in AutoCounts

(* A step that leaves the totals alone, and takes no thread into a cycle   *)
(* or on in it.                                                            *)
LEMMA LimitsFrame ==
  ASSUME LimitsInv,
         \A s \in Sessions :
           session'[s].total = session[s].total /\ session'[s].auto = session[s].auto,
         \A s \in Sessions :
           pc'[s] \in {"caps", "begin", "body", "finish"} =>
             work'[s] = work[s] /\ (pc'[s] = pc[s] \/ (pc[s] = "caps" /\ pc'[s] = "begin"))
  PROVE  LimitsInv'
BY DEF LimitsInv, LoopLimits, Within

LEMMA LimitsOperator ==
  ASSUME TypeOK, LimitsInv, Operator
  PROVE  LimitsInv'
<1>1. work' = work
  BY DEF Operator, StartSession, PauseSession, ResumeSession, StopSession, EnableKill,
         DisableKill, ResetCooldown, SetRuntimeMode
<1>2. \A s \in Sessions : pc'[s] = pc[s] \/ pc'[s] = "top"
  BY DEF Operator, StartSession, PauseSession, ResumeSession, StopSession, EnableKill,
         DisableKill, ResetCooldown, SetRuntimeMode, TypeOK, Actors
<1>3. \A s \in Sessions :
        session'[s].total = session[s].total /\ session'[s].auto = session[s].auto
  <2>1. \/ session' = session
        \/ \E s \in Sessions, r \in SessionStatuses : session' = [session EXCEPT ![s].status = r]
    BY DEF Operator, StartSession, PauseSession, ResumeSession, StopSession, EnableKill,
           DisableKill, ResetCooldown, SetRuntimeMode, TypeOK, Control, SessionStatuses
  <2> QED BY <2>1 DEF TypeOK, SessionRow
<1> QED BY <1>1, <1>2, <1>3, LimitsFrame

LEMMA LimitsLoop ==
  ASSUME TypeOK, LimitsInv, NEW s \in Sessions,
         \/ LoopStop(s) \/ LoopPause(s) \/ LoopFull(s) \/ LoopGo(s)
         \/ LoopWait(s) \/ LoopAfterCycle(s)
  PROVE  LimitsInv'
<1>1. s \in Actors /\ Sessions \subseteq Actors
  BY DEF Actors
<1>2. \A t \in Sessions :
        session'[t].total = session[t].total /\ session'[t].auto = session[t].auto
  <2>1. \/ session' = session
        \/ \E r \in SessionStatuses : session' = [session EXCEPT ![s].status = r]
    BY DEF LoopStop, LoopPause, LoopFull, LoopGo, LoopWait, LoopAfterCycle, LoopEnds,
           SessionStatuses
  <2> QED BY <2>1 DEF TypeOK, SessionRow
<1>3. CASE LoopGo(s)
  <2>1. ~CyclesSpent(s) /\ ~BudgetSpent(s) /\ work' = [work EXCEPT ![s] = Loaded(s, "RUNNING")]
        /\ pc' = [pc EXCEPT ![s] = "caps"]
    BY <1>3 DEF LoopGo
  <2>2. Loaded(s, "RUNNING").total = session[s].total
        /\ Loaded(s, "RUNNING").auto = session[s].auto
    BY DEF Loaded, NoWork
  <2>3. session[s].total \in Nat /\ session[s].auto \in Nat
    BY DEF TypeOK, SessionRow
  <2>4. (MaxCycles # 0 => session[s].total < MaxCycles) /\ session[s].auto < MaxAutoTotal
    BY <2>1, <2>3, DemoAssumption DEF CyclesSpent, BudgetSpent
  <2>5. work'[s] = Loaded(s, "RUNNING") /\ pc'[s] = "caps"
        /\ \A t \in Sessions \ {s} : work'[t] = work[t] /\ pc'[t] = pc[t]
    BY <1>1, <2>1 DEF TypeOK
  <2>6. Within(s)'
    BY <2>2, <2>4, <2>5 DEF Within
  <2>7. LoopLimits'
    BY <1>2 DEF LimitsInv, LoopLimits
  <2> QED BY <2>5, <2>6, <2>7 DEF LimitsInv, Within
<1>4. CASE ~LoopGo(s)
  <2>1. \A t \in Sessions : pc'[t] \in {"caps", "begin", "body", "finish"} =>
                              work'[t] = work[t] /\ pc'[t] = pc[t]
    BY <1>1, <1>4 DEF LoopStop, LoopPause, LoopFull, LoopWait, LoopAfterCycle, LoopEnds,
                      Forget, TypeOK
  <2> QED BY <1>2, <2>1, LimitsFrame
<1> QED BY <1>3, <1>4

LEMMA LimitsCycle ==
  ASSUME TypeOK, LimitsInv, NEW a \in Sessions, CycleStep(a)
  PROVE  LimitsInv'
<1>1. a \in Actors /\ Sessions \subseteq Actors
  BY DEF Actors
<1>2. CASE CycleCaps(a) \/ RefuseCycle(a)
  <2>1. session' = session
    BY <1>2 DEF CycleCaps, RefuseCycle
  <2>2. \A s \in Sessions :
          pc'[s] \in {"caps", "begin", "body", "finish"} =>
            work'[s] = work[s] /\ (pc'[s] = pc[s] \/ (pc[s] = "caps" /\ pc'[s] = "begin"))
    BY <1>1, <1>2 DEF CycleCaps, RefuseCycle, Raise, Forget, TypeOK
  <2> QED BY <2>1, <2>2, LimitsFrame
<1>3. CASE BeginCycle(a)
  <2>1. session' = session /\ work' = work /\ pc[a] = "begin" /\ pc' = [pc EXCEPT ![a] = "body"]
    BY <1>3 DEF BeginCycle
  <2> QED BY <1>1, <2>1 DEF LimitsInv, LoopLimits, Within, TypeOK
<1>4. ASSUME NEW o \in CycleStatuses, NEW b \in BOOLEAN, NEW n \in AutoCounts,
             CycleBody(a, o, b, n)
      PROVE  LimitsInv'
  <2>1. session' = session /\ pc[a] = "body" /\ pc' = [pc EXCEPT ![a] = "finish"]
        /\ work' = [work EXCEPT ![a].outcome = o, ![a].blocked = b, ![a].count = n]
    BY <1>4 DEF CycleBody
  <2>2. /\ work'[a].total = work[a].total /\ work'[a].auto = work[a].auto
        /\ work'[a].count = n
        /\ \A t \in Sessions \ {a} : work'[t] = work[t] /\ pc'[t] = pc[t]
    BY <1>1, <2>1 DEF TypeOK, Work
  <2>3. pc'[a] = "finish"
    BY <1>1, <2>1 DEF TypeOK
  <2>4. LoopLimits'
    BY <2>1 DEF LimitsInv, LoopLimits
  <2>5. Within(a)'
    BY <2>1, <2>2 DEF LimitsInv, Within
  <2> QED BY <2>2, <2>3, <2>4, <2>5 DEF LimitsInv, Within
<1>5. CASE FinishCycle(a)
  <2>1. PICK t \in Sessions : t = work[a].ses
    BY <1>1 DEF TypeOK, Work
  <2>2. pc[a] = "finish" /\ pc' = [pc EXCEPT ![a] = "health"] /\ work' = work
    BY <1>5 DEF FinishCycle
  <2>3. /\ session'[t].total = work[a].total + 1
        /\ session'[t].auto = work[a].auto + work[a].count
        /\ \A s \in Sessions \ {t} : session'[s] = session[s]
    BY <1>5, <2>1 DEF FinishCycle, TypeOK
  <2>4. Within(a) /\ work[a].count \in AutoCounts
    BY <2>2 DEF LimitsInv
  <2>5. work[a].total \in Nat /\ work[a].auto \in Nat /\ work[a].count \in Nat
    BY <1>1 DEF TypeOK, Work
  <2>6. /\ MaxCycles # 0 => session'[t].total <= MaxCycles
        /\ session'[t].auto < MaxAutoTotal + work[a].count
    BY <2>3, <2>4, <2>5, DemoAssumption DEF Within
  <2>7. LoopLimits'
    BY <2>3, <2>4, <2>6 DEF LimitsInv, LoopLimits
  <2> QED BY <1>1, <2>2, <2>7 DEF LimitsInv, Within, TypeOK
<1>6. ASSUME NEW u \in BOOLEAN, CycleHealth(a, u) PROVE LimitsInv'
  <2>1. session' = session /\ work' = work /\ pc' = [pc EXCEPT ![a] = "post"]
    BY <1>6 DEF CycleHealth
  <2> QED BY <1>1, <2>1 DEF LimitsInv, LoopLimits, Within, TypeOK
<1> QED BY <1>2, <1>3, <1>4, <1>5, <1>6 DEF CycleStep

LEMMA LimitsRest ==
  ASSUME TypeOK, LimitsInv, Restart \/ \E a \in Actors : LossStop(a)
  PROVE  LimitsInv'
<1>1. session' = session
  BY DEF Restart, LossStop
<1>2. CASE Restart
  <2>1. \A s \in Sessions : pc'[s] \notin {"caps", "begin", "body", "finish"}
    BY <1>2 DEF Restart, Alive, TypeOK, Actors
  <2> QED BY <1>1, <2>1, LimitsFrame
<1>3. CASE \E a \in Actors : LossStop(a)
  <2>1. pc' = pc /\ work' = work
    BY <1>3 DEF LossStop
  <2> QED BY <1>1, <2>1, LimitsFrame
<1> QED BY <1>2, <1>3

(* Where nobody runs cycles by request, no session passes the limit of its *)
(* cycles, and none its trade budget by more than what a cycle may add:    *)
(* the loop tests the row before each cycle and the cycle adds to what it  *)
(* loaded then, through every pause, stop, kill, restart and new session.  *)
(* A cycle must be able to trade, or the budget may be spent before any.   *)
THEOREM LoopKeepsLimits ==
  ASSUME Callers = {}, \E n \in AutoCounts : MaxAutoTotal + n > 0
  PROVE  Spec => []LoopLimits
<1>1. Init => LimitsInv
  BY DemoAssumption DEF Init, LimitsInv, LoopLimits, Sessions, Actors
<1>2. TypeOK /\ LimitsInv /\ [Next]_vars => LimitsInv'
  <2> SUFFICES ASSUME TypeOK, LimitsInv, [Next]_vars PROVE LimitsInv'
    OBVIOUS
  <2>1. ASSUME NEW s \in Sessions, LoopStep(s) PROVE LimitsInv'
    BY <2>1, LimitsLoop, LimitsCycle DEF LoopStep
  <2>2. CASE UNCHANGED vars
    BY <2>2, LimitsFrame DEF vars
  <2> QED BY <2>1, <2>2, LimitsOperator, LimitsRest DEF Next
<1>3. LimitsInv => LoopLimits
  BY DEF LimitsInv
<1> QED BY <1>1, <1>2, <1>3, TypeCorrect, PTL DEF Spec
===============================================================================
