---------------------------- MODULE ContinuousDemo ----------------------------
(***************************************************************************)
(* The continuous paper-trading loop: one daemon thread per started        *)
(* session (services/loop.py), cycles run by the threads and by the        *)
(* run-cycle endpoint (services/cycle.py, views.py), operator requests,    *)
(* the safety guard's row and the runtime mode that gates every cycle.     *)
(*                                                                         *)
(* An action is one database transaction, or one piece of code between two *)
(* of them.  get_runtime_control locks the control row, so a transaction   *)
(* that begins with it is atomic with respect to the others; whatever an   *)
(* actor keeps in memory from one transaction to the next is in work[a].   *)
(***************************************************************************)
EXTENDS SafetyRules, FiniteSets

CONSTANTS
  NumSessions,        \* bound: sessions ever created
  Callers,            \* web workers that may serve a run-cycle request
  MaxCycles,          \* max_cycles_per_session, 0 for "no limit"
  MaxAutoTotal,       \* max_auto_trades_total_per_session
  AutoCounts,         \* auto trades one cycle may report
  StopOnError,        \* the stop_on_error setting
  MaxManual,          \* bound: no run-cycle request on a session this long
  Modes,              \* modes the operator may ask for
  Requests,           \* operator endpoints that are used
  None

ASSUME DemoAssumption ==
  /\ NumSessions \in Nat \ {0} /\ MaxCycles \in Nat /\ MaxAutoTotal \in Nat
  /\ MaxManual \in Nat /\ AutoCounts \subseteq Nat /\ StopOnError \in BOOLEAN
  /\ Modes \subseteq {"OBSERVE_ONLY", "PAPER_ASSIST", "PAPER_SEMI_AUTO"}
  /\ Callers \cap (1 .. NumSessions) = {}
  /\ None \notin 1 .. NumSessions

Sessions == 1 .. NumSessions
Actors == Sessions \cup Callers       \* the thread of session s is s itself

VARIABLES
  control,   \* the LoopRuntimeControl row
  cfg,       \* the SafetyPolicyConfig row
  mode,      \* RuntimeModeState.current_mode
  session,   \* the ContinuousDemoSession rows
  rows,      \* the ContinuousDemoCycleRun rows, as <<session, cycle_number>>
  pc,        \* where each actor is
  work,      \* what each actor holds in memory
  late       \* history: cycles each actor began since the last halt

vars == <<control, cfg, mode, session, rows, pc, work, late>>

RunStatuses == {"IDLE", "RUNNING", "PAUSED", "STOPPED"}
SessionStatuses == {"NONE", "RUNNING", "PAUSED", "STOPPED", "FAILED"}

Control == [status : RunStatuses, kill : BOOLEAN, stop : BOOLEAN,
            pause : BOOLEAN, busy : BOOLEAN, active : Sessions \cup {None}]
SessionRow == [status : SessionStatuses, total : Nat, auto : Nat]
Work == [ses : Sessions, status : SessionStatuses, total : Nat, auto : Nat,
         outcome : CycleStatuses, blocked : BOOLEAN, count : Nat]

(* Between two cycles the loop thread is at "top" or "wait"; inside        *)
(* run_single_cycle every actor goes caps, begin, body, finish, health;    *)
(* "post" is the stop_on_error test.  "died": an exception ended a thread. *)
Points == {"off", "top", "caps", "begin", "body", "finish", "health",
           "post", "wait", "ended", "died"}

Alive(s) == pc[s] \notin {"off", "ended", "died"}
InCycle(a) == pc[a] \in {"body", "finish"}

NoWork(s) == [ses |-> s, status |-> "NONE", total |-> 0, auto |-> 0,
              outcome |-> "SUCCESS", blocked |-> FALSE, count |-> 0]

Init ==
  /\ control = [status |-> "IDLE", kill |-> FALSE, stop |-> FALSE,
                pause |-> FALSE, busy |-> FALSE, active |-> None]
  /\ cfg = DefaultConfig
  /\ mode = "OBSERVE_ONLY"
  /\ session = [s \in Sessions |->
                  [status |-> "NONE", total |-> 0, auto |-> 0]]
  /\ rows = {}
  /\ pc = [a \in Actors |-> "off"]
  /\ work = [a \in Actors |-> NoWork(1)]
  /\ late = [a \in Actors |-> 0]

(* The next primary key: sessions are numbered in the order of creation.   *)
Fresh(s) ==
  /\ session[s].status = "NONE"
  /\ \A t \in Sessions : t < s => session[t].status # "NONE"

(* Mutant: the totals are loaded one short.                                *)
LoadedShort(s, r) ==
  [NoWork(s) EXCEPT !.status = r, !.total = session[s].total - 1,
                    !.auto = session[s].auto]

(* What an actor loads of session s, with the status r it has by then.     *)
Loaded(s, r) ==
  [NoWork(s) EXCEPT !.status = r, !.total = session[s].total,
                    !.auto = session[s].auto]

(* What an actor held is gone once its cycle is over.                      *)
Forget(a) == work' = [work EXCEPT ![a] = NoWork(1)]

(* History only: the counts restart whenever the halt is over.             *)
Recount(c) == late' = IF Halted(c) THEN late ELSE [a \in Actors |-> 0]

-------------------------------------------------------------------------------
(* Operator requests (services/loop.py)                                    *)

StartSession(s) ==
  /\ "start" \in Requests /\ Fresh(s) /\ pc[s] = "off"
  /\ ~control.kill /\ ~Halted(cfg)
  /\ ~(control.status = "RUNNING" /\ control.active # None)
  /\ session' = [session EXCEPT ![s].status = "RUNNING"]
  /\ control' = [control EXCEPT !.status = "RUNNING", !.stop = FALSE,
                   !.pause = FALSE, !.kill = FALSE, !.active = s]
  /\ pc' = [pc EXCEPT ![s] = "top"]
  /\ UNCHANGED <<cfg, mode, rows, work, late>>

PauseSession ==
  /\ "pause" \in Requests /\ control.active # None
  /\ control' = [control EXCEPT !.pause = TRUE, !.status = "PAUSED"]
  /\ session' = [session EXCEPT ![control.active].status = "PAUSED"]
  /\ UNCHANGED <<cfg, mode, rows, pc, work, late>>

ResumeSession ==
  /\ "pause" \in Requests /\ control.active # None
  /\ session[control.active].status = "PAUSED"
  /\ control' = [control EXCEPT !.pause = FALSE, !.status = "RUNNING"]
  /\ session' = [session EXCEPT ![control.active].status = "RUNNING"]
  /\ UNCHANGED <<cfg, mode, rows, pc, work, late>>

(* stop_session(kill_switch): with no active session only the status, and  *)
(* enable_kill_switch's own write of the row is overwritten field by field *)
(* except for stop_requested, which stop_session then does not save.       *)
StopSession(kill) ==
  /\ "stop" \in Requests
  /\ kill => "kill" \in Requests
  /\ cfg' = IF kill THEN EnableKillSwitch(cfg) ELSE cfg
  /\ IF control.active = None
     THEN /\ control' = [control EXCEPT !.status = "STOPPED",
                !.kill  = kill \/ @, !.stop = kill \/ @,
                !.pause = IF kill THEN FALSE ELSE @]
          /\ UNCHANGED session
     ELSE /\ control' = [control EXCEPT !.status = "STOPPED",
                !.kill = kill \/ @, !.stop = TRUE, !.pause = FALSE]
          /\ session' = [session EXCEPT ![control.active].status = "STOPPED"]
  /\ UNCHANGED <<mode, rows, pc, work, late>>

-------------------------------------------------------------------------------
(* Operator requests on the safety guard and the runtime mode              *)

StoppedByKill == [control EXCEPT !.kill = TRUE, !.stop = TRUE,
                                 !.pause = FALSE, !.status = "STOPPED"]

EnableKill ==
  /\ "kill" \in Requests
  /\ cfg' = EnableKillSwitch(cfg)
  /\ control' = StoppedByKill
  /\ UNCHANGED <<mode, session, rows, pc, work, late>>

DisableKill ==
  /\ "disable" \in Requests
  /\ cfg' = DisableKillSwitch(cfg, cfg)
  /\ control' = [control EXCEPT !.kill = FALSE, !.stop = FALSE,
                   !.status = IF @ = "STOPPED" THEN "IDLE" ELSE @]
  /\ Recount(cfg')
  /\ UNCHANGED <<mode, session, rows, pc, work>>

ResetCooldown ==
  /\ "cooldown" \in Requests
  /\ cfg' = ClearCooldown(cfg, cfg)
  /\ UNCHANGED <<control, mode, session, rows, pc, work, late>>

(* evaluate_mode_constraints with readiness READY.                         *)
ModeAllowed(m) ==
  /\ Halted(cfg) => m = "OBSERVE_ONLY"
  /\ cfg.label = "COOLDOWN" => m # "PAPER_SEMI_AUTO"

SetRuntimeMode(m) ==
  /\ "mode" \in Requests
  /\ ModeAllowed(m)
  /\ mode' = m
  /\ UNCHANGED <<control, cfg, session, rows, pc, work, late>>

-------------------------------------------------------------------------------
(* One pass of _run_loop up to the cycle: a single transaction             *)

LoopEnds(s, verdict) ==
  /\ session' = [session EXCEPT ![s].status = verdict]
  /\ pc' = [pc EXCEPT ![s] = "ended"]
  /\ UNCHANGED <<cfg, mode, rows, late>>

StopAsked == control.kill \/ control.stop
PauseAsked == control.pause \/ control.status = "PAUSED"
InCooldown(s) == session[s].total < cfg.until
CyclesSpent(s) == MaxCycles # 0 /\ session[s].total >= MaxCycles
(* Mutant: one trade more than the budget.                                 *)
BudgetOverspent(s) == session[s].auto > MaxAutoTotal

BudgetSpent(s) == session[s].auto >= MaxAutoTotal

(* Mutant: the loop looks at its own row only.                             *)
LoopStopOnRequest(s) ==
  /\ pc[s] = "top"
  /\ StopAsked
  /\ control' = [control EXCEPT !.status = "STOPPED", !.active = None,
                   !.stop = FALSE, !.pause = FALSE, !.busy = FALSE]
  /\ LoopEnds(s, "STOPPED") /\ UNCHANGED work

LoopStop(s) ==
  /\ pc[s] = "top"
  /\ Halted(cfg) \/ StopAsked
  /\ control' = [control EXCEPT !.status = "STOPPED", !.active = None,
                   !.stop = FALSE, !.pause = FALSE, !.busy = FALSE]
  /\ LoopEnds(s, "STOPPED") /\ UNCHANGED work

LoopPause(s) ==
  /\ pc[s] = "top"
  /\ ~Halted(cfg) /\ ~StopAsked
  /\ PauseAsked \/ InCooldown(s)
  /\ control' = [control EXCEPT !.status = "PAUSED"]
  /\ session' = [session EXCEPT ![s].status = "PAUSED"]
  /\ UNCHANGED <<cfg, mode, rows, pc, work, late>>

MayContinue(s) ==
  ~Halted(cfg) /\ ~StopAsked /\ ~PauseAsked /\ ~InCooldown(s)

LoopFull(s) ==
  /\ pc[s] = "top" /\ MayContinue(s)
  /\ CyclesSpent(s) \/ BudgetSpent(s)
  /\ control' = [control EXCEPT !.status = "STOPPED", !.active = None]
  /\ LoopEnds(s, "STOPPED") /\ UNCHANGED work

LoopGo(s) ==
  /\ pc[s] = "top" /\ MayContinue(s)
  /\ ~CyclesSpent(s) /\ ~BudgetSpent(s)
  /\ control' = [control EXCEPT !.status = "RUNNING"]
  /\ session' = [session EXCEPT ![s].status = "RUNNING"]
  /\ work' = [work EXCEPT ![s] = Loaded(s, "RUNNING")]
  /\ pc' = [pc EXCEPT ![s] = "caps"]
  /\ UNCHANGED <<cfg, mode, rows, late>>

(* The interval sleep ends early on a stop or kill request; either way the *)
(* thread is back at the top of the loop.                                  *)
LoopWait(s) ==
  /\ pc[s] = "wait"
  /\ pc' = [pc EXCEPT ![s] = "top"]
  /\ UNCHANGED <<control, cfg, mode, session, rows, work, late>>

(* After a cycle: stop_on_error ends the loop, otherwise it sleeps.        *)
LoopAfterCycle(s) ==
  /\ pc[s] = "post"
  /\ IF work[s].outcome = "FAILED" /\ StopOnError
     THEN /\ control' = [control EXCEPT !.status = "STOPPED",
                           !.active = None, !.stop = FALSE]
          /\ LoopEnds(s, "FAILED")
     ELSE /\ pc' = [pc EXCEPT ![s] = "wait"]
          /\ UNCHANGED <<control, cfg, mode, session, rows, late>>
  /\ Forget(s)

-------------------------------------------------------------------------------
(* The run-cycle endpoint: the latest running or paused session, else a    *)
(* new one                                                                 *)

Open(s) == session[s].status \in {"RUNNING", "PAUSED"}
Latest(s) == Open(s) /\ \A t \in Sessions : t > s => ~Open(t)

RunCycleRequest(c, s) ==
  /\ pc[c] = "off"
  /\ \/ /\ Latest(s) /\ session[s].total < MaxManual
        /\ work' = [work EXCEPT ![c] = Loaded(s, session[s].status)]
        /\ UNCHANGED session
     \/ /\ \A t \in Sessions : ~Open(t)
        /\ Fresh(s)
        /\ session' = [session EXCEPT ![s].status = "RUNNING"]
        /\ work' = [work EXCEPT ![c] = Loaded(s, "RUNNING")]
  /\ pc' = [pc EXCEPT ![c] = "caps"]
  /\ UNCHANGED <<control, cfg, mode, rows, late>>

-------------------------------------------------------------------------------
(* run_single_cycle, by a loop thread or by a web worker                   *)

(* An exception that leaves run_single_cycle ends a loop thread, which     *)
(* clears nothing, and gives a web worker an error response.               *)
Raise(a) ==
  /\ pc' = [pc EXCEPT ![a] = IF a \in Sessions THEN "died" ELSE "off"]
  /\ Forget(a)

(* reconcile_runtime_state: stay if allowed, else fall back to             *)
(* PAPER_ASSIST, or to OBSERVE_ONLY when that is refused as well.          *)
ReconciledMode ==
  IF ModeAllowed(mode) THEN mode
  ELSE IF ~Halted(cfg) THEN "PAPER_ASSIST" ELSE "OBSERVE_ONLY"

AllowContinuousLoop(m) == m # "OBSERVE_ONLY" /\ ~Halted(cfg)

(* Mutant: the mode is reconciled, the capability is not tested.           *)
CycleCapsUntested(a) ==
  /\ pc[a] = "caps"
  /\ mode' = ReconciledMode
  /\ pc' = [pc EXCEPT ![a] = "begin"]
  /\ UNCHANGED <<control, cfg, session, rows, work, late>>

CycleCaps(a) ==
  /\ pc[a] = "caps"
  /\ mode' = ReconciledMode
  /\ IF AllowContinuousLoop(mode') 
     THEN pc' = [pc EXCEPT ![a] = "begin"] /\ UNCHANGED work
     ELSE Raise(a)
  /\ UNCHANGED <<control, cfg, session, rows, late>>

CycleRow(a) == <<work[a].ses, work[a].total + 1>>

(* Mutant: no unique constraint, only the flag.                            *)
BeginCycleOnFlag(a) ==
  /\ pc[a] = "begin"
  /\ ~control.busy
  /\ control' = [control EXCEPT !.busy = TRUE]
  /\ rows' = rows \cup {CycleRow(a)}
  /\ pc' = [pc EXCEPT ![a] = "body"]
  /\ late' = IF Halted(cfg) THEN [late EXCEPT ![a] = @ + 1] ELSE late
  /\ UNCHANGED <<cfg, mode, session, work>>

(* _begin_cycle raises ValueError when the flag is up; the unique          *)
(* constraint (session, cycle_number) raises IntegrityError and rolls the  *)
(* flag back.                                                              *)
BeginCycle(a) ==
  /\ pc[a] = "begin"
  /\ ~control.busy /\ CycleRow(a) \notin rows
  /\ control' = [control EXCEPT !.busy = TRUE]
  /\ rows' = rows \cup {CycleRow(a)}
  /\ pc' = [pc EXCEPT ![a] = "body"]
  /\ late' = IF Halted(cfg) THEN [late EXCEPT ![a] = @ + 1] ELSE late
  /\ UNCHANGED <<cfg, mode, session, work>>

RefuseCycle(a) ==
  /\ pc[a] = "begin"
  /\ control.busy \/ CycleRow(a) \in rows
  /\ Raise(a)
  /\ UNCHANGED <<control, cfg, mode, session, rows, late>>

(* The body trades (evaluate_auto_execution may turn the hard stop on) and *)
(* ends with a status and counts; FAILED is any exception, with counts 0.  *)
LossStop(a) ==
  /\ "loss" \in Requests
  /\ pc[a] = "body" /\ ~Halted(cfg)
  /\ cfg' = LossHardStop(cfg)
  /\ UNCHANGED <<control, mode, session, rows, pc, work, late>>

CycleBody(a, outcome, blocked, count) ==
  /\ pc[a] = "body"
  /\ outcome = "FAILED" => ~blocked /\ count = 0
  /\ work' = [work EXCEPT ![a].outcome = outcome, ![a].blocked = blocked,
                          ![a].count = count]
  /\ pc' = [pc EXCEPT ![a] = "finish"]
  /\ UNCHANGED <<control, cfg, mode, session, rows, late>>

(* _finish_cycle saves totals and status computed from the loaded session. *)
FinishCycle(a) ==
  LET w == work[a]
      done == [status |-> IF w.outcome = "FAILED" THEN "FAILED" ELSE w.status,
               total  |-> w.total + 1,
               auto   |-> w.auto + w.count]
  IN
  /\ pc[a] = "finish"
  /\ control' = [control EXCEPT !.busy = FALSE]
  /\ session' = [session EXCEPT ![w.ses] = done]
  /\ pc' = [pc EXCEPT ![a] = "health"]
  /\ UNCHANGED <<cfg, mode, rows, work, late>>

(* evaluate_cycle_health; a hard stop goes through enable_kill_switch.     *)
CycleHealth(a, unfavorable) ==
  LET w == work[a]
      m == Tally(cfg, w.outcome, w.blocked)
  IN
  /\ pc[a] = "health"
  /\ cfg' = SaveHealth(cfg, m, w.total + 1, unfavorable)
  /\ control' = IF Verdict(m, unfavorable) = "hard_stop" THEN StoppedByKill
                                                         ELSE control
  /\ IF a \in Sessions THEN pc' = [pc EXCEPT ![a] = "post"] /\ UNCHANGED work
                      ELSE pc' = [pc EXCEPT ![a] = "off"] /\ Forget(a)
  /\ UNCHANGED <<mode, session, rows, late>>

-------------------------------------------------------------------------------
(* The process dies and restarts: daemon threads and requests are gone,    *)
(* the rows stay as the last commit left them.                             *)
Restart ==
  /\ "restart" \in Requests
  /\ pc' = [a \in Actors |-> IF a \in Callers \/ pc[a] = "off" THEN "off"
                             ELSE IF Alive(a) THEN "died" ELSE pc[a]]
  /\ work' = [a \in Actors |-> NoWork(1)]
  /\ UNCHANGED <<control, cfg, mode, session, rows, late>>

CycleStep(a) ==
  \/ CycleCaps(a) \/ BeginCycle(a) \/ RefuseCycle(a) \/ FinishCycle(a)
  \/ \E o \in CycleStatuses, b \in BOOLEAN, n \in AutoCounts :
       CycleBody(a, o, b, n)
  \/ \E u \in BOOLEAN : CycleHealth(a, u)

LoopStep(s) ==
  \/ LoopStop(s) \/ LoopPause(s) \/ LoopFull(s) \/ LoopGo(s)
  \/ LoopWait(s) \/ LoopAfterCycle(s) \/ CycleStep(s)

Operator ==
  \/ \E s \in Sessions : StartSession(s)
  \/ PauseSession \/ ResumeSession \/ \E k \in BOOLEAN : StopSession(k)
  \/ EnableKill \/ DisableKill \/ ResetCooldown
  \/ \E m \in Modes : SetRuntimeMode(m)

Next ==
  \/ Operator
  \/ \E s \in Sessions : LoopStep(s)
  \/ \E c \in Callers :
       CycleStep(c) \/ \E s \in Sessions : RunCycleRequest(c, s)
  \/ \E a \in Actors : LossStop(a)
  \/ Restart

Spec == Init /\ [][Next]_vars

(* Threads and web workers keep running; operators owe nothing.            *)
Fairness ==
  /\ \A s \in Sessions : WF_vars(LoopStep(s))
  /\ \A c \in Callers : WF_vars(CycleStep(c))

FairSpec == Spec /\ Fairness
-------------------------------------------------------------------------------
(* Type invariant of the rows and of the actors' memory.                   *)
TypeOK ==
  /\ control \in Control
  /\ cfg \in Config
  /\ mode \in {"OBSERVE_ONLY", "PAPER_ASSIST", "PAPER_SEMI_AUTO"}
  /\ session \in [Sessions -> SessionRow]
  /\ rows \subseteq Sessions \X Nat
  /\ pc \in [Actors -> Points]
  /\ work \in [Actors -> Work]
  /\ late \in [Actors -> Nat]

(* The counters of a session are never lost or counted twice, whatever     *)
(* threads, web workers and restarts do: the numbered cycle rows are       *)
(* exactly 1 .. total_cycles, and at most one more, whose cycle is still   *)
(* running or was cut off by a restart.  cycle_in_progress alone does not  *)
(* give this (the stop paths drop it while a cycle runs): the unique       *)
(* constraint on (session, cycle_number) does, because _begin_cycle takes  *)
(* the number from the totals that _finish_cycle will write back.          *)
CyclesDense ==
  /\ \A s \in Sessions : \A n \in 1 .. session[s].total : <<s, n>> \in rows
  /\ \A r \in rows : r[2] \in 1 .. session[r[1]].total + 1

(* Two actors are never inside a cycle of the same session.                *)
OneCyclePerSession ==
  \A a, b \in Actors :
    InCycle(a) /\ InCycle(b) /\ work[a].ses = work[b].ses => a = b

(* Cycles are serial and counted: the two above, which hold each other up. *)
CyclesSerial == CyclesDense /\ OneCyclePerSession

(* Why: totals loaded before a cycle may be old but are never ahead, and   *)
(* inside a cycle they are exact and the cycle's own row is the last one.  *)
MemoryInv ==
  \A a \in Actors :
    LET t == session[work[a].ses].total IN
    /\ pc[a] \in {"caps", "begin"} => work[a].total <= t
    /\ InCycle(a) => work[a].total = t /\ <<work[a].ses, t + 1>> \in rows

CycleInv == CyclesDense /\ OneCyclePerSession /\ MemoryInv

(* A halt (kill switch or hard stop) admits at most the one cycle an actor *)
(* had already cleared against the safety guard when the halt was raised.  *)
HaltAdmitsOnlyInFlight == \A a \in Actors : late[a] <= 1

(* Why: what makes an actor ready to begin is a check made without a halt. *)
LateInv ==
  /\ ~Halted(cfg) => \A a \in Actors : late[a] = 0
  /\ \A a \in Actors : pc[a] = "begin" => late[a] = 0

HaltInv == HaltAdmitsOnlyInFlight /\ LateInv

(* Without run-cycle requests a session never passes its limits: the loop  *)
(* compares them with the totals of its own last cycle, so the last cycle  *)
(* may exceed the trade budget by no more than the trades of one cycle.    *)
LoopLimits ==
  \A s \in Sessions :
    /\ MaxCycles # 0 => session[s].total <= MaxCycles
    /\ \E n \in AutoCounts : session[s].auto < MaxAutoTotal + n

(* A halt that lasts ends every loop thread, also one that sleeps, is      *)
(* paused or is inside a cycle.                                            *)
HaltEndsLoops ==
  <>[]Halted(cfg) => <>[](\A s \in Sessions : ~Alive(s))
===============================================================================
