------------------------------- MODULE Heartbeat --------------------------------
(***************************************************************************)
(* The heartbeat runner of the autonomous sessions: one background thread  *)
(* with a stop event in memory and a status row in the database, passes    *)
(* that look for sessions that are due, and ticks, which a pass runs in a  *)
(* transaction of its own and a request runs statement by statement.       *)
(* Nothing but the unique (session, index) of the tick rows keeps two      *)
(* ticks of a session apart.                                               *)
(***************************************************************************)
EXTENDS Naturals, Sequences

CONSTANTS
  Sessions,  \* autonomous sessions, all started
  Callers,   \* heartbeat and tick requests at work at once
  Runner,    \* the background thread
  Nobody,    \* no session
  Window,    \* how many ticks count as recent
  MaxTicks,  \* bound: a session with that many ticks counted is asked for no more
  MayFall    \* bound: can a cycle or a pass raise, the process restart?

Workers == Callers \cup {Runner}

ASSUME HeartbeatAssumption ==
  /\ Runner \notin Callers /\ Nobody \notin Sessions
  /\ Window \in Nat /\ MaxTicks \in Nat /\ MayFall \in BOOLEAN

VARIABLES
  session,  \* AutonomousRuntimeSession rows
  tick,     \* status of each session's AutonomousRuntimeTick rows, by tick_index
  cooling,  \* sessions with an active cooldown
  runner,   \* runner_status of the AutonomousRunnerState row
  stopSet,  \* _runner_stop_event is set
  request,  \* start_runner, stop_runner between their two steps; one each
  pc, job,  \* where each worker is, and what it holds
  fell      \* history: the thread was lost to a restart or an exception

rows == <<session, tick, cooling>>
control == <<runner, stopSet, request>>
vars == <<rows, control, pc, job, fell>>

SessionStatuses == {"RUNNING", "PAUSED", "STOPPED", "BLOCKED"}
TickStatuses == {"PLANNED", "STARTED", "COMPLETED", "PARTIAL", "SKIPPED", "BLOCKED"}
Executed == {"COMPLETED", "PARTIAL"}
Cadence == {"RUN_NOW", "MONITOR_ONLY", "WAIT", "PAUSE_SESSION", "STOP_SESSION"}

AutonomousRuntimeSession == [status : SessionStatuses, tick_count : Nat]
Job == [todo : SUBSET Sessions, of : Sessions \cup {Nobody}, auto : BOOLEAN,
        index : Nat, cadence : Cadence, runnable : BOOLEAN]
NoJob == [todo |-> {}, of |-> Nobody, auto |-> FALSE, index |-> 0,
          cadence |-> "RUN_NOW", runnable |-> FALSE]

(* "idle" is a request not made, or a thread that is not alive.            *)
Points == {"idle", "look", "leaving", "pass", "load", "create", "settle", "cycle", "count"}

Init ==
  /\ session = [s \in Sessions |-> [status |-> "RUNNING", tick_count |-> 0]]
  /\ tick = [s \in Sessions |-> << >>] /\ cooling = {}
  /\ runner = "STOPPED" /\ stopSet = FALSE /\ request = {}
  /\ pc = [w \in Workers |-> "idle"] /\ job = [w \in Workers |-> NoJob]
  /\ fell = FALSE

GoTo(w, point) == pc' = [pc EXCEPT ![w] = point]
Set(w, j) == job' = [job EXCEPT ![w] = j]
Of(w) == job[w].of
ThreadAlive == pc[Runner] # "idle"

-------------------------------------------------------------------------------
(* Requests on the runner.  start_runner, also behind resume_runner, saves *)
(* the row under a lock that no other start passes ...                     *)
StartRunner ==
  /\ "start" \notin request
  /\ runner' = "RUNNING" /\ request' = request \cup {"start"}
  /\ UNCHANGED <<rows, stopSet, pc, job, fell>>

(* Mutant: the event is cleared whether or not a thread is alive.          *)
ClearsAlways == TRUE

Clears == ~ThreadAlive

(* ... and starts a thread, with the event cleared, unless one is alive.   *)
StartThread ==
  /\ "start" \in request /\ request' = request \ {"start"}
  /\ stopSet' = (stopSet /\ ~Clears)
  /\ IF ThreadAlive THEN UNCHANGED <<pc, fell>>
     ELSE GoTo(Runner, "look") /\ fell' = FALSE
  /\ UNCHANGED <<rows, runner, job>>

PauseRunner ==
  /\ runner' = "PAUSED"
  /\ UNCHANGED <<rows, stopSet, request, pc, job, fell>>

(* stop_runner saves the row and then sets the event, without the lock.    *)
StopRunner ==
  /\ "stop" \notin request
  /\ runner' = "STOPPED" /\ request' = request \cup {"stop"}
  /\ UNCHANGED <<rows, stopSet, pc, job, fell>>

SetStopEvent ==
  /\ "stop" \in request /\ request' = request \ {"stop"}
  /\ stopSet' = TRUE
  /\ UNCHANGED <<rows, runner, pc, job, fell>>

(* Requests on a session, and what its health, admission and recovery      *)
(* reviews apply: a status saved over whatever it was.  STOPPED stands for  *)
(* COMPLETED, which no step tells from it.                                 *)
SetStatus(s) ==
  /\ \E status \in {"RUNNING", "PAUSED", "STOPPED"} :
       session' = [session EXCEPT ![s].status = status]
  /\ UNCHANGED <<tick, cooling, control, pc, job, fell>>

CooldownExpires(s) ==
  /\ cooling' = cooling \ {s}
  /\ UNCHANGED <<session, tick, control, pc, job, fell>>

-------------------------------------------------------------------------------
(* The thread, at the top of its loop: it sees the event and ends, ...     *)
RunnerLeaves ==
  /\ pc[Runner] = "look" /\ stopSet /\ GoTo(Runner, "leaving")
  /\ UNCHANGED <<rows, control, job, fell>>

RunnerEnds ==
  /\ pc[Runner] = "leaving" /\ GoTo(Runner, "idle")
  /\ UNCHANGED <<rows, control, job, fell>>

(* ... or begins a pass if the row says RUNNING, and sleeps otherwise.  A  *)
(* request begins one whatever the row says.                               *)
MayPass(w) ==
  IF w = Runner THEN pc[w] = "look" /\ ~stopSet /\ runner = "RUNNING" ELSE pc[w] = "idle"

(* run_heartbeat_pass loads all sessions; only those that are RUNNING in   *)
(* its list can turn out to be due.                                        *)
BeginPass(w) ==
  /\ MayPass(w)
  /\ Set(w, [NoJob EXCEPT !.todo = {s \in Sessions : session[s].status = "RUNNING"},
                          !.auto = TRUE])
  /\ GoTo(w, "pass")
  /\ UNCHANGED <<rows, control, fell>>

MayAsk(s) == session[s].tick_count < MaxTicks
Recent(s) == {i \in 1..Len(tick[s]) : i + Window > Len(tick[s])}
LastIn(s, statuses) == Len(tick[s]) > 0 /\ tick[s][Len(tick[s])] \in statuses

(* evaluate_due_tick, with the timing review it rests on: the timing says  *)
(* RUN_NOW only if no recent tick was completed and the last one neither   *)
(* skipped nor blocked.  Kill switch, hard stop and capabilities may stand  *)
(* against it at any look: PassOver.                                       *)
Due(s) ==
  /\ s \notin cooling
  /\ \A i \in 1..Len(tick[s]) : tick[s][i] # "STARTED"
  /\ ~LastIn(s, {"SKIPPED", "BLOCKED"})
  /\ \A i \in Recent(s) : tick[s][i] # "COMPLETED"

(* The next session of the list is due and its tick dispatched ...         *)
DispatchDueTick(w, s) ==
  /\ pc[w] = "pass" /\ s \in job[w].todo /\ Due(s) /\ MayAsk(s)
  /\ Set(w, [job[w] EXCEPT !.todo = @ \ {s}, !.of = s])
  /\ GoTo(w, "load")
  /\ UNCHANGED <<rows, control, fell>>

(* ... or it is not due, or its last admission decision stands against it. *)
PassOver(w, s) ==
  /\ pc[w] = "pass" /\ s \in job[w].todo
  /\ Set(w, [job[w] EXCEPT !.todo = @ \ {s}])
  /\ UNCHANGED <<rows, control, pc, fell>>

EndPass(w) ==
  /\ pc[w] = "pass" /\ job[w].todo = {}
  /\ Set(w, NoJob) /\ GoTo(w, IF w = Runner THEN "look" ELSE "idle")
  /\ UNCHANGED <<rows, control, fell>>

-------------------------------------------------------------------------------
(* decide_next_cadence.  At any moment there may be a halt (STOP_SESSION), *)
(* a mode without signals and proposals (PAUSE_SESSION) or portfolio        *)
(* pressure (MONITOR_ONLY); an executed tick may have dispatched nothing   *)
(* (WAIT).                                                                 *)
Cadences(s) ==
  {"STOP_SESSION", "PAUSE_SESSION", "MONITOR_ONLY"}
  \cup (IF LastIn(s, {"SKIPPED", "BLOCKED"}) THEN {} ELSE {"RUN_NOW"})
  \cup (IF LastIn(s, Executed \cup {"SKIPPED", "BLOCKED"}) THEN {"WAIT"} ELSE {})

(* Mutant: the cadence itself is saved as the status.                      *)
OrderedRaw(cadence, status) == IF cadence = "RUN_NOW" THEN status ELSE cadence

(* What the cadence does to the session's status, and to its cooldowns.    *)
Ordered(cadence, status) ==
  CASE cadence = "STOP_SESSION" -> "BLOCKED"
    [] cadence = "PAUSE_SESSION" -> "PAUSED"
    [] OTHER -> status
Cooled(cadence, s) == IF cadence \in {"WAIT", "MONITOR_ONLY"} THEN {s} ELSE {}

(* run_tick loads the session and decides; in a request it saves the       *)
(* status at once, in a dispatch nothing shows before the commit.          *)
LoadTick(w, s, loaded) ==
  /\ \E cadence \in Cadences(s) :
       LET status == Ordered(cadence, session[s].status) IN
       /\ Set(w, [loaded EXCEPT !.of = s, !.index = session[s].tick_count + 1,
                                !.cadence = cadence,
                                !.runnable = status \notin {"STOPPED", "BLOCKED"}])
       /\ IF loaded.auto THEN UNCHANGED <<session, cooling>>
          ELSE /\ session' = [session EXCEPT ![s].status = status]
               /\ cooling' = cooling \cup Cooled(cadence, s)
  /\ GoTo(w, "create")
  /\ UNCHANGED <<tick, control, fell>>

LoadDispatch(w) == pc[w] = "load" /\ LoadTick(w, Of(w), job[w])
RunTickRequest(c, s) == pc[c] = "idle" /\ MayAsk(s) /\ LoadTick(c, s, NoJob)

(* Mutant: a row that is there already is no obstacle.                     *)
TakenNever(w) == FALSE

(* The unique (session, index): refused if the row is there, and waiting   *)
(* as long as a dispatch has one that it has not committed.                *)
Taken(w) == job[w].index <= Len(tick[Of(w)])
MayCreate(w) ==
  /\ pc[w] = "create" /\ ~Taken(w)
  /\ \A v \in Workers : pc[v] = "cycle" /\ job[v].auto /\ Of(v) = Of(w) => Taken(w)

RunsCycle(w) == job[w].runnable /\ job[w].cadence \in {"RUN_NOW", "MONITOR_ONLY"}

(* A tick is over: a dispatch goes on with its pass, a request returns.    *)
Return(w) ==
  IF job[w].auto
  THEN GoTo(w, "pass") /\ Set(w, [NoJob EXCEPT !.todo = job[w].todo, !.auto = TRUE])
  ELSE GoTo(w, "idle") /\ Set(w, NoJob)

(* IntegrityError: a dispatch is rolled back and marked FAILED, a request  *)
(* answers with an error.                                                  *)
DuplicateTick(w) ==
  /\ pc[w] = "create" /\ Taken(w) /\ Return(w)
  /\ UNCHANGED <<rows, control, fell>>

CreateTick(w) ==
  /\ MayCreate(w) /\ ~job[w].auto
  /\ tick' = [tick EXCEPT ![Of(w)] = Append(@, "PLANNED")]
  /\ GoTo(w, "settle")
  /\ UNCHANGED <<session, cooling, control, job, fell>>

(* The status of a tick that runs no cycle.                                *)
Unrun(w) == IF job[w].runnable THEN "SKIPPED" ELSE "BLOCKED"

(* Mutant: every tick is counted.                                          *)
CountedAlways(status) == TRUE

Counted(status) == status # "BLOCKED"

(* run_autonomous_tick of a request, statement by statement.               *)
SettleTick(w) ==
  /\ pc[w] = "settle"
  /\ tick' = [tick EXCEPT ![Of(w)][job[w].index] = IF RunsCycle(w) THEN "STARTED" ELSE Unrun(w)]
  /\ CASE RunsCycle(w) -> GoTo(w, "cycle") /\ UNCHANGED job
       [] ~RunsCycle(w) /\ Counted(Unrun(w)) -> GoTo(w, "count") /\ UNCHANGED job
       [] OTHER -> Return(w)
  /\ UNCHANGED <<session, cooling, control, fell>>

FinishTick(w) ==
  /\ pc[w] = "cycle" /\ ~job[w].auto
  /\ \E status \in Executed : tick' = [tick EXCEPT ![Of(w)][job[w].index] = status]
  /\ GoTo(w, "count")
  /\ UNCHANGED <<session, cooling, control, job, fell>>

CountTick(w) ==
  /\ pc[w] = "count"
  /\ session' = [session EXCEPT ![Of(w)].tick_count = job[w].index]
  /\ Return(w)
  /\ UNCHANGED <<tick, cooling, control, fell>>

(* A dispatch shows its tick, its count, the status and the cooldown of    *)
(* its cadence all at once.                                                *)
Commit(w, status) ==
  LET s == Of(w) IN
  /\ tick' = [tick EXCEPT ![s] = Append(@, status)]
  /\ session' = [session EXCEPT
       ![s] = [status |-> Ordered(job[w].cadence, @.status),
               tick_count |-> IF Counted(status) THEN job[w].index ELSE @.tick_count]]
  /\ cooling' = cooling \cup Cooled(job[w].cadence, s)
  /\ Return(w)
  /\ UNCHANGED <<control, fell>>

DispatchUnrun(w) == MayCreate(w) /\ job[w].auto /\ ~RunsCycle(w) /\ Commit(w, Unrun(w))

DispatchCycle(w) ==
  /\ MayCreate(w) /\ job[w].auto /\ RunsCycle(w) /\ GoTo(w, "cycle")
  /\ UNCHANGED <<rows, control, job, fell>>

FinishDispatch(w) ==
  /\ pc[w] = "cycle" /\ job[w].auto
  /\ \E status \in Executed : Commit(w, status)

(* The cycle raises: a dispatch is rolled back, a request leaves its tick  *)
(* STARTED.                                                                *)
RaiseInCycle(w) ==
  /\ MayFall /\ pc[w] = "cycle" /\ Return(w)
  /\ UNCHANGED <<rows, control, fell>>

(* A pass raises outside its dispatches, and ends the thread if it is its. *)
RaiseInPass(w) ==
  /\ MayFall /\ pc[w] = "pass"
  /\ GoTo(w, "idle") /\ Set(w, NoJob)
  /\ fell' = (fell \/ w = Runner)
  /\ UNCHANGED <<rows, control>>

(* The process dies and comes back: what is committed stays, no thread     *)
(* does, and the event is new.                                             *)
Restart ==
  /\ MayFall
  /\ pc' = [w \in Workers |-> "idle"] /\ job' = [w \in Workers |-> NoJob]
  /\ stopSet' = FALSE /\ request' = {} /\ fell' = TRUE
  /\ UNCHANGED <<rows, runner>>

Tick(w) ==
  \/ LoadDispatch(w) \/ DuplicateTick(w) \/ CreateTick(w) \/ SettleTick(w) \/ FinishTick(w)
  \/ CountTick(w) \/ DispatchUnrun(w) \/ DispatchCycle(w) \/ FinishDispatch(w)
  \/ RaiseInCycle(w)
Pass(w) ==
  \/ EndPass(w) \/ RaiseInPass(w)
  \/ \E s \in Sessions : DispatchDueTick(w, s) \/ PassOver(w, s)

Next ==
  \/ StartRunner \/ StartThread \/ PauseRunner \/ StopRunner \/ SetStopEvent
  \/ RunnerLeaves \/ RunnerEnds \/ Restart
  \/ \E s \in Sessions : SetStatus(s) \/ CooldownExpires(s)
  \/ \E w \in Workers : BeginPass(w) \/ Pass(w) \/ Tick(w)
  \/ \E c \in Callers, s \in Sessions : RunTickRequest(c, s)

Spec == Init /\ [][Next]_vars

-------------------------------------------------------------------------------
(* Type invariant.                                                         *)
TypeOK ==
  /\ session \in [Sessions -> AutonomousRuntimeSession]
  /\ tick \in [Sessions -> Seq(TickStatuses)]
  /\ cooling \subseteq Sessions
  /\ runner \in {"RUNNING", "PAUSED", "STOPPED"} /\ stopSet \in BOOLEAN
  /\ request \subseteq {"start", "stop"}
  /\ pc \in [Workers -> Points] /\ job \in [Workers -> Job] /\ fell \in BOOLEAN

(* A runner whose row says RUNNING has a thread, unless the thread was     *)
(* told to stop or fell: start_runner decides by is_alive, which still     *)
(* holds of a thread that has seen the event and is about to end.          *)
RunningHasThread ==
  runner = "RUNNING" => ThreadAlive \/ stopSet \/ "start" \in request \/ fell

(* Passes of the thread, passes on request and tick requests overlap, and  *)
(* still one tick of a session is at work at most, no tick is missing, and *)
(* what tick_count counts was executed or skipped.                         *)
AtWork(w) == pc[w] \in {"settle", "cycle", "count"}
TicksSerial ==
  /\ \A v, w \in Workers : AtWork(v) /\ AtWork(w) /\ Of(v) = Of(w) => v = w
  /\ \A s \in Sessions :
       /\ Len(tick[s]) \in {session[s].tick_count, session[s].tick_count + 1}
       /\ \A i \in 1..session[s].tick_count : tick[s][i] \in Executed \cup {"SKIPPED"}

(* A tick that is not counted is the session's last: its index is the next *)
(* one for everybody, so after a tick of a session that was not runnable,  *)
(* or one that fell, resuming the session brings no further tick.          *)
UncountedIsLast ==
  [][ \A s \in Sessions :
        Len(tick[s]) > session[s].tick_count => Len(tick'[s]) = Len(tick[s]) ]_vars
===============================================================================
