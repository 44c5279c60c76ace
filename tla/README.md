# A verification project for the market trading bot

The repository is a Django monolith (`src/apps/backend`, 88 apps), a React
front end, and HTTP adapters to two prediction-market providers.  It trades on
paper only: markets are read, proposals are scored, and trades are booked on a
simulated account.  Most apps are registries of reviews and recommendations,
moved through their statuses by hand.  The core that can go wrong in ways a unit
test does not reach is small: background threads, web requests and operator
switches that share a few database rows.  That core is what is modelled here in
TLA+ and checked with TLC; every safety property the passing runs check is also
proved with TLAPS, for every value of the constants.

Paths below are relative to `src/apps/backend/apps/`.

## 1. The system's parts

| part | state it keeps | operations | hard behaviour | what makes it correct |
|---|---|---|---|---|
| `continuous_demo` | one `LoopRuntimeControl` row (status, kill, stop, pause, cycle_in_progress, active session), `ContinuousDemoSession` rows with totals, `ContinuousDemoCycleRun` rows unique on (session, number), one daemon thread per session | start, pause, resume, stop, kill, run-cycle; the loop; a cycle = check, begin, body, finish, evaluate | several threads and web workers on one control row; totals written back from memory; exceptions and restarts that leave the row behind | cycles of a session are serial and counted; limits hold; a halt stops the threads and admits no new work |
| `safety_guard` | one `SafetyPolicyConfig` row: kill switch, hard stop, cooldown, counters | enable/disable kill switch, cooldown set/clear, evaluation of a trade, evaluation of a cycle, POST /config | nothing is locked: every service loads, decides and saves some fields; the kill switch is also in the control row | no stale save lifts a halt; both rows agree; streaks of bad cycles are answered |
| `paper_trading` | one active `PaperAccount`, `PaperPosition` rows, `PaperTrade` rows, snapshots | execute a trade, revalue the account | the position row is locked, the account object is not; revaluation rewrites every position | quantities and cash are what the trades add up to; equity agrees with the rows; rounding is bounded |
| `semi_auto_demo`, `operator_queue`, `approval_center` | `PendingApproval`, `OperatorQueueItem` and `ApprovalRequest`, three rows for one decision | propose, approve, reject, snooze, escalate, expire, rebuild, synchronise on GET | three endpoints decide the same approval; statuses checked on objects loaded without a lock and saved after the trade; a process may die between trade and save | an approval is traded once and finally decided; queue and approval tell the same story |
| `mission_control`, session loop | one state row, sessions, cycles unique on (session, number), one thread per session | start, pause, resume, stop, run-cycle | a start against a thread that has not noticed the stop; cycles beside cycles; cycles that fall | cycles serial and numbered; stops and halts obeyed |
| `mission_control`, heartbeat | a runner row, a stop event and one thread; autonomous sessions with ticks unique on (session, index), cadences, cooldowns | start/stop/pause the runner; passes of the thread and on request; ticks dispatched and requested | row, event and thread are three things; a pass, a request and a dispatch may find the same session due | ticks serial and numbered; RUNNING means a thread runs |
| `runtime_governor` | the runtime mode; in its metadata column the global operating mode and the enforcement; records of feedback applies | set and reconcile the runtime mode; operating mode reviews; stabilization and feedback applies; enforcement reviews | everybody who writes a key writes the column, and most load it without a lock; the gate reads dwell and flapping off one kind of record | the mode in force is the one decided; relaxing takes its dwell; flapping is bounded |
| `allocation_engine` | allocation runs and decisions | rank and allocate | caps applied in turn to rounded quantities | caps and reserve hold for every input |
| `execution_simulator` | paper orders, attempts, fills | create an order, run a lifecycle | runs that overlap or roll back; one account object per order of a run | fills add up; closed orders stay closed; orders settle |

How they interact: a cycle of `continuous_demo` asks `runtime_governor` for the
capabilities (which reconciles the mode against `safety_guard`), then runs
`semi_auto_demo`, which asks `safety_guard` about each trade and books it with
`paper_trading`; after the cycle `safety_guard` evaluates it and may set a
cooldown, or the hard stop and the kill switch, which writes the control row of
`continuous_demo`.  What needs a human becomes a `PendingApproval`, an item of
`operator_queue` and a request of `approval_center`.  A cycle of
`mission_control` ends in `opportunity_supervisor`, which allocates, creates
orders and runs their lifecycle, or queues them.  Operators reach every row
through REST endpoints at any time.  Everything else reads these rows.

`PROJECT.json` lists every app, modelled or not, and the hazards at their lines.

## 2. Plan

1. **SafetyRules, ContinuousDemo** - the row of the safety guard as operators;
   the loop, the cycles and the operators.  *Done; all safety properties proved.*
2. **SafetyGuard** - the same row at the grain of loads and saves.  *Done; all
   properties proved.*
3. **PaperLedger, PaperTrading** - arithmetic and row locks of one account.
   *Done; all properties proved.*
4. **OneDecision, Approvals** - a one-shot decision, and the three endpoints that
   implement it.  *Done; all properties and the refinement proved.*
5. **MissionControl** - session threads and run-cycle requests.  *Done; all safety
   properties proved.*  **Heartbeat** - the runner's thread, its event, ticks.
   *Done; all properties proved.*
6. **Allocation, Orders** - allocation as operators, orders and lifecycle runs.
   *Done; all safety properties proved, and the limits of an allocation run.*
7. **GlobalMode** - the global operating mode kept in metadata, the gate, the
   enforcement.  *Done; all properties proved.*

Left: abstract specifications that the other components implement, as OneDecision
is for Approvals (a serial counter for the cycles and ticks of ContinuousDemo,
MissionControl and Heartbeat; an order that fills once for Orders), with the
refinement proved from the invariants there are; `position_manager` and
`rollout_manager`, the next state machines outside the core.

## 3. Modules and their correspondence to the code

**SafetyRules** (no variables) has the row as a record and one operator per
operation that rewrites it: `EnableKillSwitch`, `DisableKillSwitch`,
`TriggerCooldown`, `ClearCooldown`, `LossHardStop`, and `evaluate_cycle_health` as
`Tally` (counters advanced on the loaded object), `Verdict` (the branch) and
`SaveHealth` (what the branch saves over the row).  `SaveHealth` keeps that the
cooldown branch saves none of the counters.  Whether recent reviews are
unfavorable is a free input.

**ContinuousDemo** has the threads and web workers as actors: the thread of
session `s` is `s`.  An action is one transaction or one stretch of code between
two of them; `get_runtime_control` locks the control row first
(`select_for_update`), so a transaction that begins with it is atomic for the
others.  What an actor carries in memory between transactions is `work[a]`: the
totals it loaded, the status it will write back, the outcome of its cycle.

| action | code |
|---|---|
| `StartSession`, `PauseSession`, `ResumeSession`, `StopSession` | `services/loop.py`; the commit of the start and the spawning of its thread are one action, as the thread cannot be seen before its first transaction |
| `EnableKill`, `DisableKill`, `ResetCooldown`, `SetRuntimeMode` | safety and runtime endpoints |
| `LoopStop`, `LoopPause`, `LoopFull`, `LoopGo` | the four outcomes of the transaction at the top of `_run_loop` |
| `LoopWait`, `LoopAfterCycle` | the interval sleep; the `stop_on_error` test |
| `RunCycleRequest` | the endpoint picks the latest open session or creates one |
| `CycleCaps`, `BeginCycle`, `RefuseCycle`, `CycleBody`, `FinishCycle`, `CycleHealth` | `run_single_cycle` in order; `RefuseCycle` is the ValueError of the flag and the IntegrityError of the unique constraint |
| `LossStop` | a loss limit met by a trade inside the body |
| `Restart` | the process dies: threads and requests gone, rows as committed |

Choices: reconciliation and the capability test are one action (two adjacent
reads); readiness is READY and the global operating mode imposes nothing;
`evaluate_cycle_health` and `disable_kill_switch` are atomic here and are split
into load and save in SafetyGuard; a halt is the kill switch or the hard stop.
`late` is history: the cycles an actor began since the last halt.

**SafetyGuard** has the same row with requests that load and save separately.
`task[w]` holds only what the service will use of what it loaded.  POST /config
saves the whole row.  The error limit saves the hard stop and then enables the
kill switch in a second transaction (`HealthSave`, `TripKill`).  `cycle.py:211`
clears `cycle_in_progress` before `evaluate_cycle_health`, so evaluations of two loops,
or of a loop and a run-cycle request, overlap: any `Evaluators` may load and save
counters of one row, in any order.  `hist` counts streaks independently of the row, in
the order evaluations are saved, and with them the evaluations that were overwritten:
`missed[e]` were saved since `e` loaded the row, and are added to `lost` when `e` saves.
Of the control row it keeps kill, stop and status; `LoopMoves` is the loop
changing between running and paused.

**PaperLedger** is the decimal arithmetic on integers: `HalfUp` is
`quantize_money`, `HalfEven` the default rounding the average entry price gets when it is
stored with four decimals.  `QScale` and `PScale` are constants (10000 and 100 in
the code).

**PaperTrading** is one account on PostgreSQL at READ COMMITTED (the database of
the base settings).  A trade is `Buy`/`Sell` (lock the position, decide, save it),
`SaveCash` (the statement that waits for the account row), `RevalueRow`/`SkipRow`
for each position, and `CommitTrade`; a revaluation is `BeginRevalue`, the same
rows, and `CommitRevalue`.  Locks are released at the end; a circle of waiters is
broken by the database, which aborts one of them (`AbortDeadlocked`).  What a
transaction wrote shows at its commit.  A caller keeps its account object from
trade to trade, as the semi-automatic run does (`LoadAccount`, `Release`).
`book` sums up the committed PaperTrade rows; `lost` is history: some trade was
committed on an account object loaded before somebody else's trade.  Rejected
trades leave no trace (guards); a trade's own position is revalued once, though
the code does it twice with the same result; snapshots are left out.

**OneDecision** is what deciding on a proposed trade should come to: executed once
or rejected, and that is final; `spoiled` subjects are out of its promise.

**Approvals** implements it with three endpoints.  A decision is a walk of `pc[c]`
through the saves it makes: look at the approval (`LookApproval`), trade, mark the
approval, close the item, and, at the approval center, save the request; the
first two endpoints commit each save, the third commits all of them at once (`Commit`).
Runs create approvals (`Escalate`), the queue is filled and rebuilt (`Ensure`, `Create`,
`QueueDirect`, `Rebuild`; `todo` is the list loaded before), a GET of the approval center saves the statuses it has
`seen`.  A process may die at every point.  History variables say what a property
excuses: `crowded` (two decisions under way on one subject), `cut` (death between a
trade and its record), `requeued` (queued by two clients at once or too late),
`untold` (decided past the queue).  Worth knowing: EXPIRE at the approval center
leaves the approval PENDING, and a rebuild queues it again; an item whose approval
was executed at its own endpoint can only be rejected.

**MissionControl** has one thread for each session and callers of run-cycle-now.
Every read-modify-write of the state row is one transaction under its lock; the cycle
in between works on a session object loaded before (`mem`).  History: `early` (a
start found a thread that had not obeyed its stop), `torn` (sessions with a cycle
that ended without its record), `fell`.  Worth knowing: run_cycle_now may leave a
session of its own RUNNING without a loop (`controller.py:183`); the thread orphaned
by a stop and an early start cannot be stopped by `stop_session` any more, only
by a halt.

**Heartbeat** keeps the runner's row, its stop event and its thread apart:
`StartRunner`/`StartThread`, `StopRunner`/`SetStopEvent`, `RunnerLeaves`/`RunnerEnds`
are the two halves of what the code does to them.  A pass loads the RUNNING
sessions and dispatches each that is due, in a transaction whose tick shows at its
commit; a tick on request is visible statement by statement.  The unique (session,
index) is `Taken`; `MayCreate` also waits for a dispatch that has not committed.
Choices: one process; the reads of one evaluation are one moment; halts,
capabilities, portfolio pressure and admission stand free (`PassOver`, the cadence);
STOPPED stands for COMPLETED; one start and one stop request are in flight at
most.  Worth knowing: a start that finds the old thread alive with its event set, or a
restart, leaves RUNNING without a thread, and the bootstrap reports it active
(`live_paper_bootstrap.py:185`); a tick of a session that is not runnable takes the
next index without being counted, so resuming the session brings no tick any
more; the timing says RUN_NOW only while none of the last ten ticks was COMPLETED
and never compares `next_due_at`, so after its first completed tick the heartbeat
passes over the session (root README, line 1168, calls it self-advancing).

**Allocation** (no variables) is `evaluate_allocation`: `Consider` one proposal,
`Allocated` folds it over the ranked list.  **Orders** extends it with one account,
one market and lifecycle runs.  A run is one transaction that loads (`Load`) and commits (`CommitRun`, `Booked`) or rolls back:
its writes wait for those of the run before, so they all take place at its
commit, on rows loaded earlier.  Every order carries an account object of its own,
as `select_related` loads it: the second fill of one run starts from cash that
misses the first (`lifecycle.py:24`), which is `lost`, as is a trade of a run that
another overtook (`behind`).  `crossed` are orders saved by an overtaken run.  The supervisor's
cycle reads the account twice: `Allocate` sizes a proposal by the cash and the exposure
it finds, at the proposal's reference price (`allocation.py:109`); `Supervise`, later,
orders what the throttle leaves of that and loads everything for its lifecycle run.
Trades committed in between make it `outdated`, those committed after the load
`behind`.  The price of a fill is the market's with slippage (`fills.py:102`), chosen
from `Prices` for each fill at the commit, whatever the reference price was; liquidity
is a free choice of fills.  A supervisor's cycle makes one order here; in the code it makes one
for each item, each with a lifecycle run of its own in the same transaction.
Worth knowing: a profile with `cancel_after_n_cycles` 1 cancels at its first
attempt and never fills; one order whose trade is refused takes back the attempts
of all orders of its run; nothing sets aside what a fill may cost above the reference
price, so the reserve is kept only up to that; the allocation is made for one proposal at a time, so the
caps of a run apply to each proposal; a run over all orders may turn a FILLED
order into a CANCELLED or EXPIRED one.

**GlobalMode** is the metadata column of the runtime state: the global operating mode
and the enforcement computed for it.  `DecideMode`/`ApplyReview` are an operating mode
review, the one writer under a row lock; `LoadDecision`, `LoadTransition`,
`LoadAutoSafe`, `LoadFeedback`, `LoadFeedbackKept` load the column for the others and
`ApplyMode` saves it; enforcement reviews are `BeginEnforcement`, `LoadEnforcement`,
`SaveEnforcement`.  `TargetMode`, `WithHysteresis`, `Allows`, `BuildsApply` are the
decisions, in the order of the code's conditions.  Time passes in steps and ages are
counted up to `Old`; `switches` and `last` are the feedback apply records the gate
counts.  Choices: deciding at the gate and loading the column are one step; postures,
feedback decisions and stored decisions are free inputs (the database may hold older
ones); reviews that apply nothing and manual outcomes change nothing; the saves of
one transaction are one commit, which `SavedInTurn` lists: after a transition the
enforcement review loads and saves the column, and then the first copy is saved again.  History: `since`, `applied`, `crossed` (requests
another save has overtaken), `lost`.  Worth knowing: `set_runtime_mode`, also by the
reconciliation behind a GET of the status, replaces the metadata, so the mode is
BALANCED again and the enforcement gone; a transition takes back the enforcement it has just refreshed (the run
`globalmode_enforcement`); the flapping guard counts feedback switches only; RECOVERY_MODE
is entered from BLOCKED without dwell, as an entry into a protective mode; the
hysteresis branch for BLOCKED cannot be reached (`mode_switch.py:39`).

## 4. Runs

| run | question | answer |
|---|---|---|
| `loop` | sessions overlap, pause, stop, run into limits; kill switch and hard stop at every point | limits are passed by no more than one cycle's trades; a halt that lasts ends every thread |
| `calls` | run-cycle requests beside the loops, restarts | no two cycles of one session overlap and rows are 1..total, although `cycle_in_progress` is dropped by the stop paths: the unique constraint does the work; a halt admits at most the cycle an actor had cleared |
| `guard` | unlocked loads and saves in every order | the kill switch moves in both rows; no stale save but POST /config lifts a halt; a streak is answered at its threshold, later by as many evaluations as were overwritten at most |
| `paper` | trades and revaluations at the grain of row locks | quantities add up always, cash unless an account object was stale; books close with every trade; rounding drift is bounded; a deadlock takes two locked positions |
| `approvals` | three endpoints, row by row, with deaths in between | a subject is traded once and finally decided (refinement of OneDecision) unless crowded or cut; one open item; a closed item stays closed; a REJECTED item of a trade that was made has one of three causes |
| `mission` | sessions, run-cycle requests, cycles that raise, restarts | one cycle of a session at a time, numbered without gaps; the thread at work is the active session's unless a start came early; halts and stops are obeyed |
| `orders` | lifecycle runs that overtake each other and roll back | fills and rest add up unless a run saved an order loaded before; cash is exact unless `lost`; an order filled at once leaves the reserve, but for what it costs above the price it was sized at; orders settle unless runs roll back for ever |
| `heartbeat` | the runner's row, event and thread; passes, dispatches, requests | ticks stay serial and numbered; one that is not counted is the session's last; RUNNING has a thread unless it was told to stop or fell |
| `globalmode` | requests that decide, load and save one JSON column, while time passes | the mode is the one applied last unless an overtaken enforcement review saved; relaxing takes its dwell unless the mode had come back; each request adds at most one switch beyond the limit; only enforcement reviews, transitions and the runtime mode change the enforcement, unless a request was overtaken |
| `guard_error_streak` (violation) | the hard stop comes after that many errors | failed cycles reach the cooldown first, whose branch does not save the counters |
| `globalmode_enforcement` (violation) | a transition refreshes the enforcement, as its record says | the transition's last save puts the former enforcement back |
| `paper_lost_cash` (violation) | cash is the initial balance and the trades | a trade on a stale account object overwrites another's cash |

The three violations are the findings in `PROJECT.json`.  (Two sessions of
`continuous_demo` may both be RUNNING, against its README, line 27: a start while the
first is paused is not refused, `loop.py:129`.  That takes two requests and needs no model;
what the loops do then is part of `loop` and `calls`.  A loop in a cooldown waits until
`total_cycles` reaches `cooldown_until_cycle` and runs no cycle meanwhile
(`loop.py:64`), so only a reset of the cooldown or run-cycle requests, which raise the
total as well, end it; that is plain from the test and has no run either.)  Each property of a
passing run has a mutant, a plausible bug in one mapped definition, that breaks it.

### Bounds

* `loop`, `calls`: two sessions: overlap needs an old thread and a new one; a third
  repeats the second.  One web worker beside two threads gives three actors on the
  flag.  Thresholds are 1 or 2, so that few cycles reach them; `guard_error_streak`
  keeps the order of the defaults (cooldown at fewer failures than the hard stop).
  `MaxCycles` 1 or 2 and a budget of 1 trade make both limits bite, and cycles of up
  to two trades pass the budget; `MaxManual`
  bounds the cycles that requests add to a session.  1,043,166 and 1,204,682 states.
* `guard`: two evaluators, so that one may overwrite the other; `MaxEvaluations` 3 lets a
  streak reach its threshold of 2, be answered and go on, or lose one of its
  evaluations and reach it at the third; 1,424,190 states.
* `paper`: two workers, two positions, three trades: a stale object needs one
  trade of another, a deadlock two positions, a drift a buy at another price.
  Prices 1 and 3 at `PScale` 2 hit ties of both rounding rules.
* `approvals`: two clients, and one approval, one proposal and one notice of
  which one is brought up in a behaviour (`MaxSubjects` 1: decisions on different
  subjects share no row); two items, as a second item of one subject is the interesting
  case; `AfterCrowd` FALSE stops deciding on a subject out of every promise.
  508,847 states.
* `mission`: two sessions and a caller, `MaxCycles` 1 and `MaxRows` 2, so that
  the caller's cycle may be the one beyond the limit; 328,002 states.
* `orders`: an order of two contracts, so that it can be filled in part, and one of
  one contract; cash 2 and reserve 1, so that both cannot be bought; one profile that
  expires by waiting and one that cancels; two runs, of which one may be a supervisor's;
  prices 1 and 2, so that a fill may cost more or less than it was sized at; exposures 0
  and 1 with a market limit of 2; 351,691 states.
* `heartbeat`: one session (sessions share nothing but the pass), a caller beside
  the thread; `Window` 2 stands for the last ten ticks, `MaxTicks` 2 lets a tick
  come after a counted one; 1,138,721 states.
* `globalmode`: two requests, a relaxation dwell of 2 steps, minimum dwell and flapping
  window of 1, flapping at 2 switches; two postures (calm and a recent loss) and two
  feedback decisions (relax, enter recovery), which between them reach every branch
  of the gate but the backlog's; 1,579,593 states.
* Symmetry is used where all properties of a run are safety properties.
* `CHECK_DEADLOCK FALSE`, where it stands: the run ends by its bounds, and a system
  whose sessions are over and whose operators ask nothing really does stop.

### Fairness

`loop`: `WF_vars(LoopStep(s))` for each session and `WF_vars(CycleStep(c))`
for each worker; `mission`: `WF_vars(Loop(s) \/ Cycle(s))` for each session.  A thread
that can take its next step does so in the end; there are no unbounded waits in
the code other than row locks held for one transaction.  `orders`: lifecycle runs are
begun again and again, as the mission control loop does every cycle, and each one
ends, by a commit or a roll back.  Nothing is assumed of operators, requests,
losses, falls or restarts, nor which of the outcomes of a cycle or a run comes.

## 5. Proofs

Each proof module proves every safety property of its component's runs.  The form is
the same throughout: an inductive invariant that adds to the property what callers
hold in memory, one lemma for each action, and the properties as consequences.

`ContinuousDemo_proofs` proves, for any number of sessions and workers and any
thresholds that satisfy the ASSUMEs (naturals; workers are not session numbers):

* `TypeCorrect`: `Spec => []TypeOK`.
* `CyclesSerial`: `Spec => [](CyclesDense /\ OneCyclePerSession)`.  `CyclesDense`
  alone is not inductive: `FinishCycle` writes `work[a].total + 1` from memory.  The
  strengthening `CycleInv` adds `MemoryInv`: totals in memory may be old before a
  cycle but are never ahead, and inside a cycle they are exact and the cycle's
  row is the last.  `BeginCycle` re-establishes it because an old total names a
  row that `CyclesDense` says exists, so the unique constraint refuses it.
* `HaltInFlight`: `Spec => []HaltAdmitsOnlyInFlight`, from `LateInv`: an actor
  is ready to begin only by a check made while there was no halt, and then its
  count is 0.
* `LoopKeepsLimits`: `Spec => []LoopLimits`, from `LimitsInv`: a thread inside a
  cycle holds totals that were below the limits at the test it passed, and it is these that
  the cycle adds to when it saves the row.  Two hypotheses: `Callers = {}`, as
  run-cycle requests test no limit (the `loop` run, which checks `LoopLimits`, has none
  either); and `MaxAutoTotal + n > 0` for a number `n` of trades a cycle may report, as with
  a budget of 0 and cycles that never trade the bound `auto < MaxAutoTotal + n` is false
  at the start.

`SafetyGuard_proofs` proves, for any workers and thresholds:

* `TypeCorrect`, and the action properties `KillSwitchInStep` and `HaltStays`, each
  action by action: a service that saves named fields of a stale object touches
  the halting flags only in the direction it was asked to.
* `StreaksGetAnswered`: `Spec => StreaksAnswered`.  The property speaks of `hist`,
  which counts streaks on its own; it needs `StreaksCounted`: the row's counter is
  at least the streak less what was overwritten (`lost`), and what an evaluation under way will
  save is at least the streak with itself less `lost` and what it has missed.  Counters
  can be more, as the cooldown branch saves none of them, never less.  For one evaluation
  at a time `lost` and `missed` stay 0 and the promise is the plain one.

`PaperTrading_proofs` proves, for any number of workers and positions and any
prices, quantities and scales:

* `TypeCorrect`, from `TypedAndLocked`: `LedgerTyped` with `LocksKept`.  The type of a
  locked position depends on the locks: a sale leaves a natural quantity only if the
  row is still the one that was tested.  Equity and realized profit are sums (`SumType`).
* `QuantitiesHold`: from `LocksKept`, whoever holds a priced trade holds its
  position's lock and has in memory the row's quantity plus its own size.
* `CashIsExact` and `CashNeverNegative`: from `CashInMemory`, an account object that
  no commit has overtaken holds the row's cash plus the trade at hand, and no
  object, overtaken or not, holds a debt.
* `TradesCloseTheBooks`: from `BooksClosable`, a trade that revalues holds the
  account row, so that nobody commits, and the positions it has not locked are as
  it loaded them.  The sums of the rows and of the loaded list are then sums of
  equal functions; this proof computes none.
* `DeadlocksTakeTwoPositions`: from `AccountHeld`, the account row is held by a trade in
  its revaluation only, which waits for a position if it waits.  So a circle of waiters,
  of any length, passes through somebody who waits for a position that another holds,
  and who has one already.
* `OnlyRoundingDrifts`: from `TradesKnown`, what a trade has done to the row it locked is a
  `Deal`: one buy or one sale at one price.  `DealCosts` bounds what a deal does to cost basis,
  profit and cash by what `HalfUp` and `HalfEven` round (`HalfUpIs`, `HalfEvenIs`); `SumChanges`
  carries that from the row to the sums.

`Approvals_proofs` proves, for any number of clients, subjects and items:

* `TypeCorrect` and `ClosedItemsStayClosed` from `Base`, which strengthens the type with
  what a client's point says about its job; the argument for open items is
  `Held`: of the clients deciding on a subject that is not crowded there is one
  (`Alone`), so what it looked at is still so (`StillOpen`, `StillPending`).
* `RequestsLagBehind`: from `SeenTrue`, statuses a sync has seen are not ahead.
* `TradesOnce` and `ImplementsOneDecision`: from `RowsTrue`, what the rows say of a
  subject that is not spoiled, with the decision under way on it.  The refinement
  maps every step to `Execute`, `Reject`, `Spoil` or a stutter of OneDecision.
* `AtMostOneOpenItem`: from `Single`, a client that found no item is the only one
  about to create one, unless the approval is marked `requeued`.
* `QueueIsTrue`: from `Listed` and `Told`, an item of an executed approval that is
  still open has a client under way to close it, or one of the named causes.

`MissionControl_proofs` proves, for any number of sessions and callers:

* `TypeCorrect`, with the shape of what each worker holds (`Base`).
* `CyclesAreSerial`: from `Serial`, which is `Apart` (one worker in the body of a
  session's cycle), `Dense` (rows are the counted ones and at most the next),
  `Behind` (a count in memory is never ahead of the row's) and `Exact` (in the body it
  is equal to it).  `NextInLine`: a number that is not taken is the next one.
* `TornSessionsRest` and `LoopsKeepTheLimit`, action properties that follow from
  `Serial`; `ActiveThread` from `StopPending`: a thread that is not the active
  session's has a stop pending, or the start came early; `FlagIsExplained`.

`Heartbeat_proofs` proves, for any number of sessions and requests:

* `TypeCorrect` and `TicksAreSerial`, from `Inv`: `Shape` (what a worker's point says
  of its job: passes and dispatches are `auto`, the thread makes no requests) and
  `Serial` (`Apart`, `Dense`, `Exact` as in MissionControl, with one difference: a
  request shows its row before the cycle, a dispatch only at its commit).
* `RunnerHasThread`: inductive with `Shape`, by which the thread leaves only with the
  event set and comes back from every tick of its own to its pass.
* `LastUncounted`: a row is appended only where the rows are those counted
  (`NextInLine`, and `Exact` for a dispatch that commits).

`Orders_proofs` proves, for any number of orders and lifecycle runs, any quantities and
policies, from one inductive invariant `Inv`:

* `TypeCorrect`; `FillsAlwaysAddUp` and `ClosedOrdersStayClosed` from `RowsWhole` and
  `Remembers`: what a run has loaded is the row, unless another run has saved it since, and
  then saving it marks the order `crossed`.  An order that is CANCELLED or EXPIRED is so for a
  reason that lasts (`Whole`), so that a run over all orders that looks at it again finds it
  closed once more: the weaker "fills add up" alone does not give this.
* `CashIsExact`: from `Remembers`, a run that is not `behind` holds the account's cash, and
  the sum over a single fill is that fill (`SpentIs`, `CashAfterIs`).
* `ReserveIsKept`: from `Allotted` and `OwnFits`, what the supervisor ordered was, at its
  reference price, within the cash above the reserve when it was allocated (`SizedFits`,
  `Affordable`), and that cash is still the account's if nobody traded since; the fill
  then costs its difference to the reference price more, whatever the prices are.
* `AllocationKeepsLimits`, about Allocation alone: a run over any ranked list, at any scales and
  exposures.  `ValueFits`: rounding the quantity down and the value to even does not pass
  what was allocatable.  `SharesDef` shows that the fold over the list has a fixed point.

`GlobalMode_proofs` proves, for any number of requests, postures and feedback decisions, any
dwells, window and limit:

* `TypeCorrect`, `LastAppliedInForce` and `EnforcementStays` from `Fresh`: a request that
  nobody overtook holds the key of the column it does not write as it still is (`AllCrossed`:
  every save marks the others), and `LastSaved`: what a transition saves last is the copy with
  the mode.
* `RelaxationWaits`, inductive with `updated <= since`: the gate's two clocks, the age of the last
  record and `updated_at`, never say more than the time in the mode, unless it came back.
* `FlappingStaysBounded`: from `Bounded`, the records in the window and the requests past the gate
  that have not left theirs are together below the limit and the number of requests.

Sums over positions and orders, the maximum of a set and the fold of an allocation are
iterations the community modules define with a CHOOSE function.  The proofs show
first that such a function exists, by induction on the cardinality of the set; the induction is
`AllNaturals`, from the well-foundedness of `<` on Nat, stated for a set where the library's
theorem has an operator parameter.

The proofs rest on the named ASSUMEs of the modules only: scales positive,
quantities positive, prices and thresholds natural, the largest quantity of an order
natural, positions and requests finitely many where they are summed or counted, the kinds of
subjects, sessions and workers distinct.

### Only model-checked

`HaltEndsLoops`, `LoopsObey` and `OrdersSettle` are liveness properties under fairness, out of
the prover's reach, and stay with the runs `loop`, `mission` and `orders`.  So do the three
violations, which are counterexamples.

## 6. Not modelled

Settings, serializers, summaries and event logs, which no decision reads; the
monetary limits of the safety guard, which appear as a free choice of meeting
them; portfolio snapshots; seeding and reactivation of the paper account; how market
prices, slippage and liquidity come about, which are free choices; the ranking of proposals; the signal, proposal, risk and policy
computations, which are inputs of a cycle; the conditions under which admission,
health and recovery reviews change a session's status (the change is an action); the
derivation of postures and feedback decisions; the impacts of enforcement on single
modules; runbook checkpoints and go-live requests at the approval center, and how
many approvals wait for how long; the autonomy funnel and the diagnostics of
mission control, which read and report; the review registries (most apps), each a
row moved by hand; the front end and the provider adapters.  `PROJECT.json` gives the
reason for every part; most of the repository's lines are such registries, reports,
views and serializers, so the share of lines modelled stays small.
