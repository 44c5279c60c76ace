----------------------------- MODULE MissionControl -----------------------------
(***************************************************************************)
(* The mission control loop: one thread for each session started, requests *)
(* that pause, resume and stop, and run-cycle requests that run a cycle of *)
(* the active session beside its loop.  Every read-modify-write of the     *)
(* state row is one transaction under its row lock; the cycle in between   *)
(* works on the session object loaded before it, and nothing but the       *)
(* unique (session, number) of the cycle rows keeps two cycles apart.      *)
(***************************************************************************)
EXTENDS Naturals

CONSTANTS
  NumSessions, \* bound: sessions ever created
  Callers,     \* run-cycle requests at work at once
  MaxCycles,   \* max_cycles_per_session, 0 for none
  MaxRows,     \* bound: cycle rows of a session
  MayFall,     \* bound: can a cycle raise, the process restart?
  None         \* no active session

Sessions == 1..NumSessions
Workers == Sessions \cup Callers  \* a loop's thread goes by its session

ASSUME MissionAssumption ==
  /\ NumSessions \in Nat /\ MaxCycles \in Nat /\ MaxRows \in Nat
  /\ Callers \cap Nat = {} /\ None \notin Nat /\ MayFall \in BOOLEAN

VARIABLES
  state,   \* the MissionControlState row
  session, \* MissionControlSession rows
  rows,    \* numbers of each session's MissionControlCycle rows
  pc, mem, \* where each worker is, and the session object it holds
  halted,  \* kill switch or hard stop, as get_safety_status reports it
  early,   \* history: a start found a thread that had not obeyed its stop
  torn,    \* history: sessions a cycle of which ended without its record
  fell     \* history: a worker fell in a cycle, which is flagged ever since

rowVars == <<state, session, rows>>
history == <<early, torn, fell>>
vars == <<rowVars, pc, mem, halted, history>>

StateStatuses == {"IDLE", "RUNNING", "PAUSED", "STOPPED"}
SessionStatuses == {"none", "RUNNING", "PAUSED", "STOPPED", "DEGRADED"}

MissionControlState ==
  [status : StateStatuses, active_session : Sessions \cup {None},
   stop_requested : BOOLEAN, pause_requested : BOOLEAN, cycle_in_progress : BOOLEAN]
MissionControlSession == [status : SessionStatuses, cycle_count : 0..MaxRows]
Memory == [of : Sessions \cup {None}, cycle_count : 0..MaxRows, skip : BOOLEAN]

Points == {"idle", "spawn", "top", "create", "body", "after"}
InCycle(w) == pc[w] \in {"create", "body", "after"}
Alive(s) == pc[s] # "idle"
NoMemory == [of |-> None, cycle_count |-> 0, skip |-> FALSE]

Init ==
  /\ state = [status |-> "IDLE", active_session |-> None, stop_requested |-> FALSE,
              pause_requested |-> FALSE, cycle_in_progress |-> FALSE]
  /\ session = [s \in Sessions |-> [status |-> "none", cycle_count |-> 0]]
  /\ rows = [s \in Sessions |-> {}]
  /\ pc = [w \in Workers |-> "idle"] /\ mem = [w \in Workers |-> NoMemory]
  /\ halted = FALSE /\ early = FALSE /\ torn = {} /\ fell = FALSE

Active == state.active_session
NewSession(s) ==
  session[s].status = "none" /\ \A r \in Sessions : r < s => session[r].status # "none"
GoTo(w, point) == pc' = [pc EXCEPT ![w] = point]
Leave(w) == GoTo(w, "idle") /\ mem' = [mem EXCEPT ![w] = NoMemory]

(* Mutant: a session that is still active is no reason to refuse.          *)
MayStartAlways == TRUE

(* start_session refuses while a session is active and not told to stop.   *)
MayStart == Active = None \/ state.status \notin {"RUNNING", "PAUSED"}

(* start_session, and the thread it starts afterwards.                     *)
StartSession(s) ==
  /\ NewSession(s) /\ MayStart
  /\ session' = [session EXCEPT ![s].status = "RUNNING"]
  /\ state' = [state EXCEPT !.status = "RUNNING", !.active_session = s,
                            !.pause_requested = FALSE, !.stop_requested = FALSE]
  /\ GoTo(s, "spawn")
  /\ early' = ((early \/ state.stop_requested) /\ \E t \in Sessions : Alive(t))
  /\ UNCHANGED <<rows, mem, halted, torn, fell>>

Spawn(s) ==
  /\ pc[s] = "spawn" /\ GoTo(s, "top")
  /\ UNCHANGED <<rowVars, mem, halted, history>>

PauseSession ==
  /\ Active # None
  /\ state' = [state EXCEPT !.pause_requested = TRUE, !.status = "PAUSED"]
  /\ session' = [session EXCEPT ![Active].status = "PAUSED"]
  /\ UNCHANGED <<rows, pc, mem, halted, history>>

ResumeSession ==
  /\ Active # None
  /\ state' = [state EXCEPT !.pause_requested = FALSE, !.status = "RUNNING"]
  /\ session' = [session EXCEPT ![Active].status = "RUNNING"]
  /\ UNCHANGED <<rows, pc, mem, halted, history>>

(* stop_session; without an active session it only clears the request.     *)
StopSession ==
  /\ IF Active = None
     THEN /\ state' = [state EXCEPT !.status = "STOPPED", !.stop_requested = FALSE]
          /\ UNCHANGED session
     ELSE /\ state' = [state EXCEPT !.status = "STOPPED", !.stop_requested = TRUE,
                                    !.pause_requested = FALSE]
          /\ session' = [session EXCEPT ![Active].status = "STOPPED"]
  /\ UNCHANGED <<rows, pc, mem, halted, history>>

(* The kill switch or a hard stop, raised and lifted by the safety guard.  *)
Halt ==
  /\ halted' = ~halted
  /\ UNCHANGED <<rowVars, pc, mem, history>>

(* Mutant: the loop looks at its stop flag only.                           *)
StopAskedOnly == state.stop_requested

StopAsked == state.stop_requested \/ halted

(* The loop's top: stop requested, or a halt.                              *)
LoopStop(s) ==
  /\ pc[s] = "top" /\ StopAsked
  /\ state' = [status |-> "STOPPED", active_session |-> None, stop_requested |-> FALSE,
               pause_requested |-> FALSE, cycle_in_progress |-> FALSE]
  /\ session' = [session EXCEPT ![s].status = "STOPPED"]
  /\ Leave(s)
  /\ fell' = FALSE
  /\ UNCHANGED <<rows, halted, early, torn>>

(* Paused: it says so and comes back a second later.                       *)
LoopPause(s) ==
  /\ pc[s] = "top" /\ ~StopAsked /\ state.pause_requested
  /\ state' = [state EXCEPT !.status = "PAUSED"]
  /\ session' = [session EXCEPT ![s].status = "PAUSED"]
  /\ UNCHANGED <<rows, pc, mem, halted, history>>

CyclesSpent(s) == MaxCycles > 0 /\ session[s].cycle_count >= MaxCycles

(* The session's cycles are spent: it ends, and the requests stay.         *)
LoopFull(s) ==
  /\ pc[s] = "top" /\ ~StopAsked /\ ~state.pause_requested /\ CyclesSpent(s)
  /\ state' = [state EXCEPT !.status = "STOPPED", !.active_session = None]
  /\ session' = [session EXCEPT ![s].status = "STOPPED"]
  /\ Leave(s)
  /\ UNCHANGED <<rows, halted, history>>

Holding(r) == [of |-> r, cycle_count |-> session[r].cycle_count, skip |-> FALSE]

(* A cycle is announced; the session object loaded here serves it.         *)
LoopGo(s) ==
  /\ pc[s] = "top" /\ ~StopAsked /\ ~state.pause_requested /\ ~CyclesSpent(s)
  /\ state' = [state EXCEPT !.status = "RUNNING", !.cycle_in_progress = TRUE]
  /\ session' = [session EXCEPT ![s].status = "RUNNING"]
  /\ mem' = [mem EXCEPT ![s] = Holding(s)]
  /\ GoTo(s, "create")
  /\ UNCHANGED <<rows, halted, history>>

(* run_cycle_now takes the active session, or one it creates, and sets the *)
(* flag without looking at it.                                             *)
RunCycleNow(c) ==
  /\ pc[c] = "idle"
  /\ \E r \in Sessions :
       /\ IF Active # None THEN r = Active /\ UNCHANGED session
          ELSE /\ NewSession(r)
               /\ session' = [session EXCEPT ![r].status = "RUNNING"]
       /\ mem' = [mem EXCEPT ![c] = Holding(r)]
  /\ state' = [state EXCEPT !.cycle_in_progress = TRUE]
  /\ GoTo(c, "create")
  /\ UNCHANGED <<rows, halted, history>>

Number(w) == mem[w].cycle_count + 1

Taken(w) == Number(w) \in rows[mem[w].of]

(* Mutant: cycles are numbered from zero.                                  *)
NewRowZero(w) == {mem[w].cycle_count}

NewRow(w) == {Number(w)}

(* run_mission_control_cycle: evaluate_cycle_allowed skips the cycle under *)
(* a halt, or in a mode that does not allow it; then the row is created.   *)
CreateCycle(w) ==
  /\ pc[w] = "create" /\ ~Taken(w) /\ Number(w) <= MaxRows
  /\ rows' = [rows EXCEPT ![mem[w].of] = @ \cup NewRow(w)]
  /\ \E skip \in BOOLEAN : (halted => skip) /\ mem' = [mem EXCEPT ![w].skip = skip]
  /\ GoTo(w, "body")
  /\ UNCHANGED <<state, session, halted, history>>

(* Its number is taken: IntegrityError, which no one catches.              *)
DuplicateCycle(w) ==
  /\ pc[w] = "create" /\ Taken(w)
  /\ Leave(w)
  /\ fell' = state.cycle_in_progress
  /\ UNCHANGED <<rowVars, halted, early, torn>>

(* Mutant: a skipped cycle is not counted.                                 *)
CountedUnlessSkipped(w) == IF mem[w].skip THEN mem[w].cycle_count ELSE Number(w)

Counted(w) == Number(w)

(* The cycle is done: count and status are saved from the object in        *)
(* memory, over what requests and the loop have saved meanwhile.           *)
EndCycle(w) ==
  /\ pc[w] = "body"
  /\ \E status \in IF mem[w].skip THEN {"DEGRADED"} ELSE {"RUNNING", "DEGRADED"} :
       session' = [session EXCEPT ![mem[w].of] =
                     [status |-> status, cycle_count |-> Counted(w)]]
  /\ GoTo(w, "after")
  /\ UNCHANGED <<state, rows, mem, halted, history>>

(* Steps are caught, but not what lies between them.                       *)
RaiseInCycle(w) ==
  /\ MayFall /\ pc[w] = "body"
  /\ Leave(w)
  /\ torn' = torn \cup {mem[w].of}
  /\ fell' = state.cycle_in_progress
  /\ UNCHANGED <<rowVars, halted, early>>

FlagCleared == [state EXCEPT !.cycle_in_progress = FALSE]

(* The loop clears the flag and waits for its next turn ...                *)
LoopAfterCycle(s) ==
  /\ pc[s] = "after"
  /\ state' = FlagCleared
  /\ GoTo(s, "top") /\ mem' = [mem EXCEPT ![s] = NoMemory]
  /\ fell' = FALSE
  /\ UNCHANGED <<session, rows, halted, early, torn>>

(* ... and run_cycle_now ends its session if none is active.               *)
CallerAfterCycle(c) ==
  /\ pc[c] = "after"
  /\ session' = IF Active = None THEN [session EXCEPT ![mem[c].of].status = "STOPPED"]
                ELSE session
  /\ state' = FlagCleared
  /\ Leave(c)
  /\ fell' = FALSE
  /\ UNCHANGED <<rows, halted, early, torn>>

(* The process dies and comes back: the rows stay, no thread does.         *)
Restart ==
  /\ MayFall
  /\ pc' = [w \in Workers |-> "idle"] /\ mem' = [w \in Workers |-> NoMemory]
  /\ torn' = torn \cup {mem[w].of : w \in {v \in Workers : pc[v] = "body"}}
  /\ fell' = state.cycle_in_progress
  /\ UNCHANGED <<rowVars, halted, early>>

Loop(s) ==
  \/ Spawn(s) \/ LoopStop(s) \/ LoopPause(s) \/ LoopFull(s) \/ LoopGo(s)
  \/ LoopAfterCycle(s)

Cycle(w) == CreateCycle(w) \/ DuplicateCycle(w) \/ EndCycle(w) \/ RaiseInCycle(w)

Next ==
  \/ \E s \in Sessions : StartSession(s) \/ Loop(s)
  \/ PauseSession \/ ResumeSession \/ StopSession \/ Halt \/ Restart
  \/ \E c \in Callers : RunCycleNow(c) \/ CallerAfterCycle(c)
  \/ \E w \in Workers : Cycle(w)

Spec == Init /\ [][Next]_vars

(* Threads are scheduled; no step of a loop or a cycle waits for good.     *)
FairSpec ==
  /\ Spec
  /\ \A s \in Sessions : WF_vars(Loop(s) \/ Cycle(s))

-------------------------------------------------------------------------------
(* Type invariant.                                                         *)
TypeOK ==
  /\ state \in MissionControlState
  /\ session \in [Sessions -> MissionControlSession]
  /\ rows \in [Sessions -> SUBSET (1..MaxRows)]
  /\ pc \in [Workers -> Points] /\ mem \in [Workers -> Memory]
  /\ halted \in BOOLEAN /\ early \in BOOLEAN /\ fell \in BOOLEAN
  /\ torn \subseteq Sessions

(* The thread at work is the active session's, the one that pause, resume  *)
(* and stop speak to, unless a session was started before the thread of    *)
(* the one just stopped had come round to its flag.                        *)
ThreadIsActive == ~early => \A s \in Sessions : Alive(s) => Active = s

(* However loops and run-cycle requests overlap, a session has one cycle   *)
(* at work at most, its cycles are numbered without a gap, and they are    *)
(* all counted but the one at work or one that never ended.                *)
CyclesSerial ==
  /\ \A v, w \in Workers : pc[v] = "body" /\ pc[w] = "body" /\ mem[v].of = mem[w].of => v = w
  /\ \A s \in Sessions :
       LET counted == 1..session[s].cycle_count
           open == s \in torn \/ \E w \in Workers : pc[w] = "body" /\ mem[w].of = s
       IN rows[s] = IF open THEN counted \cup {session[s].cycle_count + 1} ELSE counted

(* The flag that a cycle is in progress outlives every cycle only after a  *)
(* worker fell in one.                                                     *)
FlagHasReason ==
  state.cycle_in_progress => fell \/ \E w \in Workers : InCycle(w)

(* A cycle that ends without its record ends its session's work for good:  *)
(* every worker that tries falls over the number of the row left behind.   *)
TornSessionRests ==
  [][ \A s \in torn : rows'[s] = rows[s] ]_vars

(* Only a run-cycle request takes a session beyond its limit: a loop that  *)
(* found it within the limit never adds the row beyond, whoever else ran a *)
(* cycle meanwhile.                                                        *)
LoopKeepsLimit ==
  [][ \A s \in Sessions :
        MaxCycles > 0 /\ pc[s] = "create" /\ pc'[s] = "body" =>
          rows'[s] \subseteq 1..MaxCycles ]_vars

(* A halt that lasts ends every loop, paused, between cycles or within;    *)
(* and a stop request is taken up, or taken back by a start, unless no     *)
(* loop is left to take it up: a pause asked for later does not hold it up.*)
LoopsObey ==
  /\ <>[]halted => <>[](\A s \in Sessions : ~Alive(s))
  /\ state.stop_requested ~> (~state.stop_requested \/ \A s \in Sessions : ~Alive(s))
===============================================================================
