-------------------------- MODULE MissionControl_proofs --------------------------
(***************************************************************************)
(* Proofs about MissionControl, for any number of sessions and run-cycle   *)
(* requests and any limits: every safety property its run checks.          *)
(***************************************************************************)
EXTENDS MissionControl, TLAPS

(* A worker inside a cycle holds a session; a loop holds its own, within   *)
(* its limit; one that is past the creation of its row finds it there; and *)
(* only a session that was started has a thread.                           *)
Shape ==
  /\ \A w \in Workers : InCycle(w) => mem[w].of \in Sessions
  /\ \A w \in Workers : pc[w] = "body" => Number(w) \in rows[mem[w].of]
  /\ \A s \in Sessions : pc[s] = "create" =>
       /\ mem[s].of = s
       /\ MaxCycles > 0 => mem[s].cycle_count < MaxCycles
  /\ \A s \in Sessions : Alive(s) => session[s].status # "none"

Base == TypeOK /\ Shape

LEMMA SessionsAreNat ==
  /\ Sessions \subseteq Nat
  /\ Sessions \cap Callers = {}
  /\ None \notin Sessions
BY MissionAssumption DEF Sessions

LEMMA BaseInit == Init => Base
<1> SUFFICES ASSUME Init PROVE Base
  OBVIOUS
<1> USE MissionAssumption DEF Init
<1>1. state \in MissionControlState
  BY DEF MissionControlState, StateStatuses
<1>2. session \in [Sessions -> MissionControlSession]
  BY DEF MissionControlSession, SessionStatuses
<1>3. pc \in [Workers -> Points] /\ mem \in [Workers -> Memory]
  BY DEF Points, NoMemory, Memory
<1>4. Shape
  BY DEF Shape, Alive, InCycle, Workers
<1> QED BY <1>1, <1>2, <1>3, <1>4 DEF Base, TypeOK

(* The requests of operators touch the state row and a session's status.   *)
LEMMA RequestsBase ==
  ASSUME Base,
         \/ PauseSession
         \/ ResumeSession
         \/ StopSession
         \/ Halt
  PROVE  Base'
<1> USE SessionsAreNat, MissionAssumption DEF Base, TypeOK, MissionControlState,
        MissionControlSession, StateStatuses, SessionStatuses
<1>1. CASE PauseSession
  <2>1. TypeOK'
    <3>1. state' \in MissionControlState
      BY <1>1 DEF PauseSession, Active
    <3>2. session' \in [Sessions -> MissionControlSession]
      BY <1>1 DEF PauseSession, Active
    <3> QED BY <1>1, <3>1, <3>2 DEF PauseSession, history
  <2>2. Shape'
    BY <1>1 DEF PauseSession, history, Shape, Alive, InCycle, Number
  <2> QED BY <2>1, <2>2
<1>2. CASE ResumeSession
  <2>1. TypeOK'
    <3>1. state' \in MissionControlState
      BY <1>2 DEF ResumeSession, Active
    <3>2. session' \in [Sessions -> MissionControlSession]
      BY <1>2 DEF ResumeSession, Active
    <3> QED BY <1>2, <3>1, <3>2 DEF ResumeSession, history
  <2>2. Shape'
    BY <1>2 DEF ResumeSession, history, Shape, Alive, InCycle, Number
  <2> QED BY <2>1, <2>2
<1>3. CASE StopSession
  <2>1. TypeOK'
    <3>1. state' \in MissionControlState
      BY <1>3 DEF StopSession, Active
    <3>2. session' \in [Sessions -> MissionControlSession]
      BY <1>3 DEF StopSession, Active
    <3> QED BY <1>3, <3>1, <3>2 DEF StopSession, history
  <2>2. Shape'
    BY <1>3 DEF StopSession, history, Shape, Alive, InCycle, Number
  <2> QED BY <2>1, <2>2
<1>4. CASE Halt
  BY <1>4 DEF Halt, rowVars, history, Shape, Alive, InCycle, Number
<1> QED BY <1>1, <1>2, <1>3, <1>4

(* A start: the state row, the session's status and a thread.              *)
LEMMA StartBase ==
  ASSUME Base, NEW s \in Sessions, StartSession(s)
  PROVE  Base'
<1> USE SessionsAreNat, MissionAssumption DEF Base, TypeOK, MissionControlState,
        MissionControlSession, StateStatuses, SessionStatuses
<1>1. TypeOK'
  <2>1. state' \in MissionControlState
    <3>1. state' = [state EXCEPT !.status = "RUNNING", !.active_session = s,
                                 !.pause_requested = FALSE, !.stop_requested = FALSE]
      BY DEF StartSession
    <3> QED BY <3>1
  <2>2. session' \in [Sessions -> MissionControlSession]
    BY DEF StartSession
  <2>3. pc' \in [Workers -> Points]
    BY DEF StartSession, GoTo, Points
  <2>4. early' \in BOOLEAN
    <3>1. early' = ((early \/ state.stop_requested) /\ \E r \in Sessions : Alive(r))
      BY DEF StartSession
    <3> QED BY <3>1
  <2> QED BY <2>1, <2>2, <2>3, <2>4 DEF StartSession
<1>2. Shape'
  BY DEF StartSession, GoTo, Workers, Shape, Alive, InCycle, Number
<1> QED BY <1>1, <1>2

(* The loop around its cycles.                                             *)
LEMMA LoopBase ==
  ASSUME Base, NEW s \in Sessions, Loop(s)
  PROVE  Base'
<1> USE SessionsAreNat, MissionAssumption DEF Base, TypeOK, MissionControlState,
        MissionControlSession, StateStatuses, SessionStatuses
<1>0. s \in Workers
  BY DEF Workers
<1>1. CASE Spawn(s)
  BY <1>0, <1>1 DEF Spawn, GoTo, rowVars, history, Shape, Alive, InCycle, Number, Points
<1>2. CASE LoopStop(s)
  <2>1. TypeOK'
    <3>1. state' \in MissionControlState
      BY <1>0, <1>2 DEF LoopStop, Active
    <3>2. session' \in [Sessions -> MissionControlSession]
      BY <1>0, <1>2 DEF LoopStop, Active
    <3>3. pc' \in [Workers -> Points]
      BY <1>0, <1>2 DEF LoopStop, Leave, GoTo, Points
    <3>4. mem' \in [Workers -> Memory]
      BY <1>0, <1>2 DEF LoopStop, Leave, NoMemory, Memory
    <3> QED BY <1>0, <1>2, <3>1, <3>2, <3>3, <3>4 DEF LoopStop
  <2>2. Shape'
    BY <1>0, <1>2 DEF LoopStop, Leave, GoTo, Shape, Alive, InCycle, Number
  <2> QED BY <2>1, <2>2
<1>3. CASE LoopPause(s)
  <2>1. TypeOK'
    BY <1>3 DEF LoopPause, history
  <2>2. Shape'
    BY <1>3 DEF LoopPause, history, Shape, Alive, InCycle, Number
  <2> QED BY <2>1, <2>2
<1>4. CASE LoopFull(s)
  <2>1. TypeOK'
    <3>1. state' \in MissionControlState
      BY <1>0, <1>4 DEF LoopFull, Active
    <3>2. session' \in [Sessions -> MissionControlSession]
      BY <1>0, <1>4 DEF LoopFull, Active
    <3>3. pc' \in [Workers -> Points]
      BY <1>0, <1>4 DEF LoopFull, Leave, GoTo, Points
    <3>4. mem' \in [Workers -> Memory]
      BY <1>0, <1>4 DEF LoopFull, Leave, NoMemory, Memory
    <3> QED BY <1>0, <1>4, <3>1, <3>2, <3>3, <3>4 DEF LoopFull, history
  <2>2. Shape'
    BY <1>0, <1>4 DEF LoopFull, Leave, GoTo, Shape, Alive, InCycle, Number, history
  <2> QED BY <2>1, <2>2
<1>5. CASE LoopGo(s)
  <2>1. TypeOK'
    <3>1. state' \in MissionControlState
      BY <1>0, <1>5 DEF LoopGo, Active
    <3>2. session' \in [Sessions -> MissionControlSession]
      BY <1>0, <1>5 DEF LoopGo, Active
    <3>3. pc' \in [Workers -> Points]
      BY <1>0, <1>5 DEF LoopGo, GoTo, Points
    <3>4. mem' \in [Workers -> Memory]
      BY <1>0, <1>5 DEF LoopGo, Holding, Memory
    <3> QED BY <1>0, <1>5, <3>1, <3>2, <3>3, <3>4 DEF LoopGo, history
  <2>2. Shape'
    BY <1>0, <1>5 DEF LoopGo, GoTo, Holding, CyclesSpent, Shape, Alive, InCycle, Number, history
  <2> QED BY <2>1, <2>2
<1>6. CASE LoopAfterCycle(s)
  <2>1. TypeOK'
    <3>1. state' \in MissionControlState
      BY <1>0, <1>6 DEF LoopAfterCycle, FlagCleared
    <3>2. pc' \in [Workers -> Points]
      BY <1>0, <1>6 DEF LoopAfterCycle, GoTo, Points
    <3>3. mem' \in [Workers -> Memory]
      BY <1>0, <1>6 DEF LoopAfterCycle, NoMemory, Memory
    <3> QED BY <1>0, <1>6, <3>1, <3>2, <3>3 DEF LoopAfterCycle
  <2>2. Shape'
    BY <1>0, <1>6 DEF LoopAfterCycle, GoTo, Shape, Alive, InCycle, Number
  <2> QED BY <2>1, <2>2
<1> QED BY <1>1, <1>2, <1>3, <1>4, <1>5, <1>6 DEF Loop

(* A run-cycle request around its cycle.                                   *)
LEMMA CallerBase ==
  ASSUME Base, NEW c \in Callers, RunCycleNow(c) \/ CallerAfterCycle(c)
  PROVE  Base'
<1> USE SessionsAreNat, MissionAssumption DEF Base, TypeOK, MissionControlState,
        MissionControlSession, StateStatuses, SessionStatuses
<1>0. c \in Workers /\ c \notin Sessions
  BY DEF Workers
<1>1. CASE RunCycleNow(c)
  <2>1. PICK r \in Sessions :
          /\ session' \in {session, [session EXCEPT ![r].status = "RUNNING"]}
          /\ mem' = [mem EXCEPT ![c] = Holding(r)]
    BY <1>1 DEF RunCycleNow, Active
  <2>2. TypeOK'
    <3>1. session' \in [Sessions -> MissionControlSession]
      BY <2>1
    <3>2. mem' \in [Workers -> Memory]
      BY <1>0, <2>1 DEF Holding, Memory
    <3>3. state' \in MissionControlState /\ pc' \in [Workers -> Points]
      BY <1>0, <1>1 DEF RunCycleNow, GoTo, Points
    <3> QED BY <1>1, <3>1, <3>2, <3>3 DEF RunCycleNow, history
  <2>3. Shape'
    BY <1>0, <1>1, <2>1 DEF RunCycleNow, GoTo, Holding, Shape, Alive, InCycle, Number, Workers
  <2> QED BY <2>2, <2>3
<1>2. CASE CallerAfterCycle(c)
  <2>1. TypeOK'
    <3>1. state' \in MissionControlState
      BY <1>0, <1>2 DEF CallerAfterCycle, FlagCleared
    <3>2. session' \in [Sessions -> MissionControlSession]
      BY <1>0, <1>2 DEF CallerAfterCycle, Active, Shape, Alive, InCycle
    <3>3. pc' \in [Workers -> Points]
      BY <1>0, <1>2 DEF CallerAfterCycle, Leave, GoTo, Points
    <3>4. mem' \in [Workers -> Memory]
      BY <1>0, <1>2 DEF CallerAfterCycle, Leave, NoMemory, Memory
    <3> QED BY <1>0, <1>2, <3>1, <3>2, <3>3, <3>4 DEF CallerAfterCycle
  <2>2. Shape'
    BY <1>0, <1>2 DEF CallerAfterCycle, Leave, GoTo, Shape, Alive, InCycle, Number
  <2> QED BY <2>1, <2>2
<1> QED BY <1>1, <1>2

(* The cycle, whoever runs it.                                             *)
LEMMA CycleBase ==
  ASSUME Base, NEW w \in Workers, Cycle(w)
  PROVE  Base'
<1> USE SessionsAreNat, MissionAssumption DEF Base, TypeOK, MissionControlSession,
        SessionStatuses
<1>1. CASE CreateCycle(w)
  <2>1. PICK skip \in BOOLEAN : mem' = [mem EXCEPT ![w].skip = skip]
    BY <1>1 DEF CreateCycle
  <2>2. mem[w].of \in Sessions
    BY <1>1 DEF CreateCycle, Shape, Alive, InCycle
  <2>3. mem' \in [Workers -> Memory]
    BY <2>1 DEF Memory
  <2>4. rows' \in [Sessions -> SUBSET (1..MaxRows)]
    <3>1. NewRow(w) \subseteq 1..MaxRows
      BY <1>1 DEF CreateCycle, NewRow, Number, Memory
    <3> QED BY <1>1, <2>2, <3>1 DEF CreateCycle
  <2>5. TypeOK'
    BY <1>1, <2>3, <2>4 DEF CreateCycle, GoTo, Points, history
  <2>6. \A v \in Workers : mem'[v].of = mem[v].of /\ mem'[v].cycle_count = mem[v].cycle_count
    BY <2>1 DEF Memory
  <2>7. Number(w) \in rows'[mem[w].of]
    BY <1>1, <2>2 DEF CreateCycle, NewRow
  <2>8. \A r \in Sessions : rows[r] \subseteq rows'[r]
    BY <1>1, <2>2 DEF CreateCycle
  <2>9. \A v \in Workers : pc'[v] = IF v = w THEN "body" ELSE pc[v]
    BY <1>1 DEF CreateCycle, GoTo
  <2>10. \A v \in Workers : InCycle(v)' => mem'[v].of \in Sessions
    BY <2>2, <2>6, <2>9 DEF Shape, Alive, InCycle
  <2>11. ASSUME NEW v \in Workers, pc'[v] = "body" PROVE Number(v)' \in rows'[mem'[v].of]
    <3>1. Number(v)' = Number(v) /\ mem'[v].of = mem[v].of
      BY <2>6 DEF Number
    <3>2. v # w => mem[v].of \in Sessions /\ Number(v) \in rows[mem[v].of]
      BY <2>9, <2>11 DEF Shape, InCycle
    <3> QED BY <2>7, <2>8, <3>1, <3>2
  <2>12. \A s \in Sessions : s \in Workers
    BY DEF Workers
  <2>13. \A s \in Sessions : Alive(s)' => session'[s].status # "none"
    BY <1>1, <2>9, <2>12 DEF CreateCycle, Shape, Alive
  <2>14. \A s \in Sessions : pc'[s] = "create" =>
           mem'[s].of = s /\ (MaxCycles > 0 => mem'[s].cycle_count < MaxCycles)
    BY <2>6, <2>9, <2>12 DEF Shape
  <2>15. Shape'
    BY <2>10, <2>11, <2>13, <2>14, Zenon DEF Shape
  <2> QED BY <2>5, <2>15
<1>2. CASE DuplicateCycle(w)
  <2>1. TypeOK'
    <3>1. pc' \in [Workers -> Points]
      BY <1>2 DEF DuplicateCycle, Leave, GoTo, Points
    <3>2. mem' \in [Workers -> Memory]
      BY <1>2 DEF DuplicateCycle, Leave, NoMemory, Memory
    <3>3. fell' \in BOOLEAN
      BY <1>2 DEF DuplicateCycle, MissionControlState
    <3> QED BY <1>2, <3>1, <3>2, <3>3 DEF DuplicateCycle, rowVars
  <2>2. Shape'
    BY <1>2 DEF DuplicateCycle, Leave, GoTo, rowVars, Shape, Alive, InCycle, Number
  <2> QED BY <2>1, <2>2
<1>3. CASE EndCycle(w)
  <2>1. mem[w].of \in Sessions /\ Number(w) \in 0..MaxRows
    <3>1. pc[w] = "body"
      BY <1>3 DEF EndCycle
    <3>2. mem[w].of \in Sessions /\ Number(w) \in rows[mem[w].of]
      BY <3>1 DEF Shape, Alive, InCycle
    <3>3. rows[mem[w].of] \subseteq 1..MaxRows
      BY <3>2
    <3> QED BY <3>2, <3>3
  <2>2. TypeOK'
    <3>1. session' \in [Sessions -> MissionControlSession]
      BY <1>3, <2>1 DEF EndCycle, Counted
    <3>2. pc' \in [Workers -> Points]
      BY <1>3, <2>1 DEF EndCycle, GoTo, Points
    <3> QED BY <1>3, <2>1, <3>1, <3>2 DEF EndCycle, history
  <2>3. Shape'
    BY <1>3 DEF EndCycle, GoTo, Shape, Alive, InCycle, Number
  <2> QED BY <2>2, <2>3
<1>4. CASE RaiseInCycle(w)
  <2>1. TypeOK'
    <3>1. pc' \in [Workers -> Points]
      BY <1>4 DEF RaiseInCycle, Leave, GoTo, Points
    <3>2. mem' \in [Workers -> Memory]
      BY <1>4 DEF RaiseInCycle, Leave, NoMemory, Memory
    <3>3. fell' \in BOOLEAN
      BY <1>4 DEF RaiseInCycle, MissionControlState
    <3>4. torn' \subseteq Sessions
      BY <1>4 DEF RaiseInCycle, Shape, Alive, InCycle
    <3> QED BY <1>4, <3>1, <3>2, <3>3, <3>4 DEF RaiseInCycle, rowVars
  <2>2. Shape'
    BY <1>4 DEF RaiseInCycle, Leave, GoTo, rowVars, Shape, Alive, InCycle, Number
  <2> QED BY <2>1, <2>2
<1> QED BY <1>1, <1>2, <1>3, <1>4 DEF Cycle

LEMMA RestartBase == Base /\ Restart => Base'
<1> SUFFICES ASSUME Base, Restart PROVE Base'
  OBVIOUS
<1> USE SessionsAreNat, MissionAssumption DEF Base, TypeOK, Restart
<1>1. pc' \in [Workers -> Points] /\ mem' \in [Workers -> Memory]
  BY DEF Points, NoMemory, Memory
<1>2. fell' \in BOOLEAN
  BY DEF MissionControlState
<1>3. torn' \subseteq Sessions
  <2>1. \A w \in Workers : pc[w] = "body" => mem[w].of \in Sessions
    BY DEF Shape, Alive, InCycle
  <2>2. torn' = torn \cup {mem[w].of : w \in {v \in Workers : pc[v] = "body"}}
    OBVIOUS
  <2> QED BY <2>1, <2>2
<1>4. Shape'
  BY DEF Shape, Alive, InCycle, Workers
<1> QED BY <1>1, <1>2, <1>3, <1>4 DEF rowVars

LEMMA BaseNext == Base /\ [Next]_vars => Base'
<1> SUFFICES ASSUME Base, [Next]_vars PROVE Base'
  OBVIOUS
<1>1. CASE UNCHANGED vars
  BY <1>1 DEF vars, rowVars, history, Base, TypeOK, Shape, Alive, InCycle, Number
<1>2. CASE Next
  BY <1>2, RequestsBase, StartBase, LoopBase, CallerBase, CycleBase, RestartBase DEF Next
<1> QED BY <1>1, <1>2

(* Every reachable state is well typed; in particular no count runs past   *)
(* the rows there are.                                                     *)
THEOREM TypeCorrect == Spec => []TypeOK
<1>1. Base => TypeOK
  BY DEF Base
<1> QED BY <1>1, BaseInit, BaseNext, PTL DEF Spec

LEMMA BaseAlways == Spec => []Base
BY BaseInit, BaseNext, PTL DEF Spec

-----------------------------------------------------------------------------
(* A session is open while a cycle of it is at work or was left behind;    *)
(* its rows are the counted ones, and the one of the open cycle.           *)
Opened(s) == s \in torn \/ \E w \in Workers : pc[w] = "body" /\ mem[w].of = s
Dense(s) ==
  rows[s] = IF Opened(s) THEN (1..session[s].cycle_count) \cup {session[s].cycle_count + 1}
            ELSE 1..session[s].cycle_count
Apart == \A v, w \in Workers : pc[v] = "body" /\ pc[w] = "body" /\ mem[v].of = mem[w].of => v = w

(* The number a worker will use was read before the row is created, so it  *)
(* may lag behind the session's count but is never ahead; the unique       *)
(* number lets only those in that are exact.                               *)
Behind ==
  \A w \in Workers : pc[w] = "create" => mem[w].cycle_count <= session[mem[w].of].cycle_count
Exact ==
  \A w \in Workers : pc[w] = "body" =>
    mem[w].cycle_count = session[mem[w].of].cycle_count /\ mem[w].of \notin torn

Serial == Apart /\ (\A s \in Sessions : Dense(s)) /\ Behind /\ Exact

LEMMA SerialIsSerial == Serial <=> CyclesSerial /\ Behind /\ Exact
BY DEF Serial, Apart, Dense, Opened, CyclesSerial

LEMMA SerialInit == Init => Serial
<1> SUFFICES ASSUME Init PROVE Serial
  OBVIOUS
<1>1. \A w \in Workers : pc[w] = "idle"
  BY DEF Init
<1>2. ASSUME NEW s \in Sessions PROVE Dense(s)
  <2>1. ~Opened(s)
    BY <1>1 DEF Init, Opened
  <2>2. rows[s] = {} /\ session[s].cycle_count = 0
    BY DEF Init
  <2> QED BY <2>1, <2>2 DEF Dense
<1> QED BY <1>1, <1>2 DEF Serial, Apart, Behind, Exact

(* What leaves the rows, the counts and the cycles at work alone, and lets *)
(* workers come to a cycle with a session as it is.                        *)
LEMMA SerialFrame ==
  ASSUME Base, Serial, rows' = rows, torn' = torn,
         \A r \in Sessions : session'[r].cycle_count = session[r].cycle_count,
         \A w \in Workers :
           /\ pc'[w] = "body" <=> pc[w] = "body"
           /\ pc[w] = "body" => mem'[w] = mem[w]
           /\ pc'[w] = "create" => \/ pc[w] = "create" /\ mem'[w] = mem[w]
                                   \/ \E r \in Sessions : mem'[w] = Holding(r)
  PROVE  Serial'
<1>1. Apart'
  BY DEF Serial, Apart
<1>2. ASSUME NEW s \in Sessions PROVE Dense(s)'
  <2>1. Opened(s)' <=> Opened(s)
    BY DEF Opened
  <2> QED BY <2>1 DEF Serial, Dense
<1>3. Behind'
  <2> SUFFICES ASSUME NEW w \in Workers, pc'[w] = "create"
               PROVE  mem'[w].cycle_count <= session'[mem'[w].of].cycle_count
    BY DEF Behind
  <2>1. CASE pc[w] = "create" /\ mem'[w] = mem[w]
    <3>1. mem[w].of \in Sessions
      BY <2>1 DEF Base, Shape, Alive, InCycle
    <3> QED BY <2>1, <3>1 DEF Serial, Behind
  <2>2. ASSUME NEW r \in Sessions, mem'[w] = Holding(r)
        PROVE  mem'[w].cycle_count <= session'[mem'[w].of].cycle_count
    <3>1. session[r].cycle_count \in Nat
      BY MissionAssumption DEF Base, TypeOK, MissionControlSession
    <3> QED BY <2>2, <3>1 DEF Holding
  <2> QED BY <2>1, <2>2
<1>4. Exact'
  <2> SUFFICES ASSUME NEW w \in Workers, pc'[w] = "body"
               PROVE  mem'[w].cycle_count = session'[mem'[w].of].cycle_count /\ mem'[w].of \notin torn'
    BY DEF Exact
  <2>1. pc[w] = "body" /\ mem'[w] = mem[w] /\ mem[w].of \in Sessions
    BY DEF Base, Shape, Alive, InCycle
  <2> QED BY <2>1 DEF Serial, Exact
<1> QED BY <1>1, <1>2, <1>3, <1>4 DEF Serial

(* The creation of a row: only a worker whose number is next gets through, *)
(* and only where no other cycle is open.                                  *)
LEMMA NextInLine ==
  ASSUME Base, Serial, NEW w \in Workers, CreateCycle(w)
  PROVE  /\ mem[w].of \in Sessions
         /\ ~Opened(mem[w].of)
         /\ mem[w].cycle_count = session[mem[w].of].cycle_count
         /\ mem[w].cycle_count \in Nat
         /\ rows[mem[w].of] = 1..mem[w].cycle_count
         /\ rows'[mem[w].of] = 1..Number(w)
<1> DEFINE s == mem[w].of
           n == mem[w].cycle_count
           k == session[s].cycle_count
<1>1. pc[w] = "create" /\ n + 1 \notin rows[s] /\ rows' = [rows EXCEPT ![s] = @ \cup {n + 1}]
  BY DEF CreateCycle, Taken, Number, NewRow
<1>2. s \in Sessions
  BY <1>1 DEF Base, Shape, Alive, InCycle
<1>3. n \in Nat /\ k \in Nat
  BY <1>2, MissionAssumption DEF Base, TypeOK, Memory, MissionControlSession
<1>4. n <= k
  BY <1>1 DEF Serial, Behind
<1>5. rows[s] = IF Opened(s) THEN (1..k) \cup {k + 1} ELSE 1..k
  BY <1>2 DEF Serial, Dense
<1> HIDE DEF s, n, k
<1>6. ~Opened(s) /\ n = k
  BY <1>1, <1>3, <1>4, <1>5
<1>7. rows[s] = 1..n
  BY <1>5, <1>6
<1>8. s \in DOMAIN rows
  BY <1>2 DEF Base, TypeOK
<1>9. rows'[s] = 1..(n + 1)
  BY <1>1, <1>3, <1>7, <1>8
<1> QED BY <1>2, <1>3, <1>6, <1>7, <1>9 DEF s, n, k, Number

LEMMA CreateSerial ==
  ASSUME Base, Serial, NEW w \in Workers, CreateCycle(w)
  PROVE  Serial'
<1> DEFINE s == mem[w].of
<1>1. PICK skip \in BOOLEAN : mem' = [mem EXCEPT ![w].skip = skip]
  BY DEF CreateCycle
<1>2. \A v \in Workers : mem'[v].of = mem[v].of /\ mem'[v].cycle_count = mem[v].cycle_count
  BY <1>1 DEF Base, TypeOK, Memory
<1>3. \A v \in Workers : pc'[v] = IF v = w THEN "body" ELSE pc[v]
  BY DEF CreateCycle, GoTo, Base, TypeOK
<1>4. session' = session /\ torn' = torn
  BY DEF CreateCycle, history
<1>5. s \in Sessions /\ ~Opened(s)
  BY NextInLine
<1>6. \A v \in Workers : pc[v] = "body" => mem[v].of # s
  BY <1>5 DEF Opened
<1>7. Apart'
  BY <1>2, <1>3, <1>6 DEF Apart, Serial
<1>8. Behind'
  BY <1>2, <1>3, <1>4 DEF Behind, Serial
<1>9. Exact'
  BY <1>2, <1>3, <1>4, <1>5, NextInLine DEF Exact, Serial, Opened
<1>10. ASSUME NEW r \in Sessions PROVE Dense(r)'
  <2>1. CASE r = s
    <3>1. Opened(r)'
      BY <2>1, <1>2, <1>3 DEF Opened
    <3>2. rows'[r] = 1..(session[r].cycle_count + 1) /\ session[r].cycle_count \in Nat
      BY <2>1, NextInLine DEF Number
    <3>3. rows'[r] = (1..session[r].cycle_count) \cup {session[r].cycle_count + 1}
      BY <3>2
    <3> QED BY <1>4, <3>1, <3>3 DEF Dense
  <2>2. CASE r # s
    <3>1. rows'[r] = rows[r]
      BY <2>2 DEF CreateCycle, Base, TypeOK
    <3>2. Opened(r)' <=> Opened(r)
      BY <2>2, <1>2, <1>3, <1>4 DEF Opened, CreateCycle
    <3> QED BY <1>4, <3>1, <3>2 DEF Dense, Serial
  <2> QED BY <2>1, <2>2
<1> QED BY <1>7, <1>8, <1>9, <1>10 DEF Serial

(* The end of a cycle counts its row.                                      *)
LEMMA EndSerial ==
  ASSUME Base, Serial, NEW w \in Workers, EndCycle(w)
  PROVE  Serial'
<1> DEFINE s == mem[w].of
           k == session[s].cycle_count
<1>1. pc[w] = "body" /\ mem' = mem /\ rows' = rows /\ torn' = torn
  BY DEF EndCycle, history
<1>2. s \in Sessions /\ k \in Nat
  BY <1>1, MissionAssumption DEF Base, Shape, Alive, InCycle, TypeOK, MissionControlSession
<1>3. mem[w].cycle_count = k /\ s \notin torn
  BY <1>1 DEF Serial, Exact
<1>4. \A v \in Workers : pc'[v] = IF v = w THEN "after" ELSE pc[v]
  BY DEF EndCycle, GoTo, Base, TypeOK
<1>5. \A r \in Sessions : session'[r].cycle_count = IF r = s THEN k + 1 ELSE session[r].cycle_count
  <2>1. PICK st \in SessionStatuses :
          session' = [session EXCEPT ![s] = [status |-> st, cycle_count |-> Number(w)]]
    BY DEF EndCycle, Counted, SessionStatuses
  <2>2. Number(w) = k + 1
    BY <1>3 DEF Number
  <2> QED BY <2>1, <2>2, <1>2 DEF Base, TypeOK
<1>6. \A v \in Workers : pc[v] = "body" /\ v # w => mem[v].of # s
  BY <1>1 DEF Serial, Apart
<1>7. Apart'
  BY <1>1, <1>4 DEF Apart, Serial
<1>8. Behind'
  <2> SUFFICES ASSUME NEW v \in Workers, pc'[v] = "create"
               PROVE  mem'[v].cycle_count <= session'[mem'[v].of].cycle_count
    BY DEF Behind
  <2>1. pc[v] = "create" /\ mem'[v] = mem[v] /\ mem[v].of \in Sessions
    BY <1>1, <1>4 DEF Base, Shape, Alive, InCycle
  <2>2. mem[v].cycle_count <= session[mem[v].of].cycle_count
    BY <2>1 DEF Serial, Behind
  <2>3. mem[v].cycle_count \in Nat /\ session[mem[v].of].cycle_count \in Nat
    BY <2>1, MissionAssumption DEF Base, TypeOK, Memory, MissionControlSession
  <2> QED BY <1>2, <1>5, <2>1, <2>2, <2>3
<1>9. Exact'
  <2> SUFFICES ASSUME NEW v \in Workers, pc'[v] = "body"
               PROVE  mem'[v].cycle_count = session'[mem'[v].of].cycle_count /\ mem'[v].of \notin torn'
    BY DEF Exact
  <2>1. pc[v] = "body" /\ v # w /\ mem'[v] = mem[v] /\ mem[v].of \in Sessions
    BY <1>1, <1>4 DEF Base, Shape, Alive, InCycle
  <2> QED BY <1>1, <1>5, <1>6, <2>1 DEF Serial, Exact
<1>10. ASSUME NEW r \in Sessions PROVE Dense(r)'
  <2>1. CASE r = s
    <3>1. ~Opened(r)'
      BY <2>1, <1>1, <1>3, <1>4, <1>6 DEF Opened
    <3>2. rows[r] = (1..k) \cup {k + 1}
      BY <2>1, <1>1 DEF Serial, Dense, Opened
    <3>3. rows[r] = 1..(k + 1)
      BY <3>2, <1>2
    <3> QED BY <2>1, <1>1, <1>5, <3>1, <3>3 DEF Dense
  <2>2. CASE r # s
    <3>1. Opened(r)' <=> Opened(r)
      BY <2>2, <1>1, <1>4 DEF Opened
    <3> QED BY <2>2, <1>1, <1>5, <3>1 DEF Dense, Serial
  <2> QED BY <2>1, <2>2
<1> QED BY <1>7, <1>8, <1>9, <1>10 DEF Serial

(* Cycles that end without their record leave their sessions open.         *)
LEMMA FallSerial ==
  ASSUME Base, Serial, NEW F \in SUBSET Workers,
         session' = session, rows' = rows,
         torn' = torn \cup {mem[w].of : w \in {v \in F : pc[v] = "body"}},
         \A w \in Workers : /\ pc'[w] = IF w \in F THEN "idle" ELSE pc[w]
                            /\ w \notin F => mem'[w] = mem[w]
  PROVE  Serial'
<1>1. Apart'
  BY DEF Apart, Serial
<1>2. Behind'
  BY DEF Behind, Serial
<1>3. Exact'
  <2> SUFFICES ASSUME NEW v \in Workers, pc'[v] = "body"
               PROVE  mem'[v].cycle_count = session'[mem'[v].of].cycle_count /\ mem'[v].of \notin torn'
    BY DEF Exact
  <2>1. pc[v] = "body" /\ v \notin F /\ mem'[v] = mem[v]
    OBVIOUS
  <2>2. \A w \in F : pc[w] = "body" => mem[w].of # mem[v].of
    BY <2>1 DEF Serial, Apart
  <2> QED BY <2>1, <2>2 DEF Serial, Exact
<1>4. ASSUME NEW r \in Sessions PROVE Dense(r)'
  <2>1. Opened(r)' <=> Opened(r)
    <3>1. Opened(r)' <=>
            r \in torn' \/ \E w \in Workers : pc'[w] = "body" /\ mem'[w].of = r
      BY DEF Opened
    <3>2. r \in torn' <=> r \in torn \/ \E w \in F : pc[w] = "body" /\ mem[w].of = r
      OBVIOUS
    <3>3. (\E w \in Workers : pc'[w] = "body" /\ mem'[w].of = r) <=>
          (\E w \in Workers \ F : pc[w] = "body" /\ mem[w].of = r)
      OBVIOUS
    <3> QED BY <3>1, <3>2, <3>3 DEF Opened
  <2> QED BY <2>1 DEF Dense, Serial
<1> QED BY <1>1, <1>2, <1>3, <1>4 DEF Serial

(* Everything else leaves the cycles at work alone.                        *)
LEMMA RequestsSerial ==
  ASSUME Base, Serial,
         \/ PauseSession \/ ResumeSession \/ StopSession \/ Halt
         \/ \E s \in Sessions : StartSession(s)
  PROVE  Serial'
<1>1. rows' = rows /\ torn' = torn /\ mem' = mem
  BY DEF PauseSession, ResumeSession, StopSession, Halt, StartSession, rowVars, history
<1>2. \A r \in Sessions : session'[r].cycle_count = session[r].cycle_count
  <2>1. session' = session \/ \E a, st : session' = [session EXCEPT ![a].status = st]
    BY DEF PauseSession, ResumeSession, StopSession, Halt, StartSession, rowVars
  <2> QED BY <2>1 DEF Base, TypeOK, MissionControlSession
<1>3. \A w \in Workers : pc'[w] = pc[w] \/ (pc'[w] = "spawn" /\ pc[w] = "idle")
  <2>1. CASE pc' = pc
    BY <2>1
  <2>2. ASSUME NEW s \in Sessions, StartSession(s)
        PROVE  \A w \in Workers : pc'[w] = pc[w] \/ (pc'[w] = "spawn" /\ pc[w] = "idle")
    <3>1. pc' = [pc EXCEPT ![s] = "spawn"]
      BY <2>2 DEF StartSession, GoTo
    <3>2. pc[s] = "idle"
      BY <2>2 DEF StartSession, NewSession, Base, Shape, Alive
    <3> QED BY <3>1, <3>2 DEF Base, TypeOK
  <2> QED BY <2>1, <2>2 DEF PauseSession, ResumeSession, StopSession, Halt
<1> QED BY <1>1, <1>2, <1>3, SerialFrame

LEMMA LoopSerial ==
  ASSUME Base, Serial, NEW s \in Sessions, Loop(s)
  PROVE  Serial'
<1>1. rows' = rows /\ torn' = torn
  BY DEF Loop, Spawn, LoopStop, LoopPause, LoopFull, LoopGo, LoopAfterCycle, rowVars, history
<1>2. \A r \in Sessions : session'[r].cycle_count = session[r].cycle_count
  <2>1. session' = session \/ \E st : session' = [session EXCEPT ![s].status = st]
    BY DEF Loop, Spawn, LoopStop, LoopPause, LoopFull, LoopGo, LoopAfterCycle, rowVars
  <2> QED BY <2>1 DEF Base, TypeOK, MissionControlSession
<1>3. pc[s] # "body"
  BY DEF Loop, Spawn, LoopStop, LoopPause, LoopFull, LoopGo, LoopAfterCycle
<1>4. \A w \in Workers \ {s} : pc'[w] = pc[w] /\ mem'[w] = mem[w]
  BY DEF Loop, Spawn, LoopStop, LoopPause, LoopFull, LoopGo, LoopAfterCycle, Leave, GoTo,
         Base, TypeOK
<1>5. pc'[s] # "body" /\ (pc'[s] = "create" => mem'[s] = Holding(s))
  BY DEF Loop, Spawn, LoopStop, LoopPause, LoopFull, LoopGo, LoopAfterCycle, Leave, GoTo,
         Base, TypeOK, Workers
<1> QED BY <1>1, <1>2, <1>3, <1>4, <1>5, SerialFrame

LEMMA CallerSerial ==
  ASSUME Base, Serial, NEW c \in Callers, RunCycleNow(c) \/ CallerAfterCycle(c)
  PROVE  Serial'
<1>1. rows' = rows /\ torn' = torn
  BY DEF RunCycleNow, CallerAfterCycle, history
<1>2. \A r \in Sessions : session'[r].cycle_count = session[r].cycle_count
  <2>1. session' = session \/ \E a, st : session' = [session EXCEPT ![a].status = st]
    BY DEF RunCycleNow, CallerAfterCycle
  <2> QED BY <2>1 DEF Base, TypeOK, MissionControlSession
<1>3. pc[c] # "body"
  BY DEF RunCycleNow, CallerAfterCycle
<1>4. \A w \in Workers \ {c} : pc'[w] = pc[w] /\ mem'[w] = mem[w]
  BY DEF RunCycleNow, CallerAfterCycle, Leave, GoTo, Base, TypeOK
<1>5. pc'[c] # "body" /\ (pc'[c] = "create" => \E r \in Sessions : mem'[c] = Holding(r))
  BY DEF RunCycleNow, CallerAfterCycle, Leave, GoTo, Base, TypeOK, Workers
<1> QED BY <1>1, <1>2, <1>3, <1>4, <1>5, SerialFrame

(* A worker that finds its number taken leaves; one that falls inside its  *)
(* cycle leaves the cycle open; a restart is the fall of all of them.      *)
LEMMA FallsSerial ==
  ASSUME Base, Serial,
         \/ \E w \in Workers : DuplicateCycle(w) \/ RaiseInCycle(w)
         \/ Restart
  PROVE  Serial'
<1>1. ASSUME NEW w \in Workers, DuplicateCycle(w) \/ RaiseInCycle(w) PROVE Serial'
  <2>1. session' = session /\ rows' = rows
    BY <1>1 DEF DuplicateCycle, RaiseInCycle, rowVars
  <2>2. torn' = torn \cup {mem[v].of : v \in {u \in {w} : pc[u] = "body"}}
    <3>1. CASE DuplicateCycle(w)
      <4>1. torn' = torn /\ {u \in {w} : pc[u] = "body"} = {}
        BY <3>1 DEF DuplicateCycle
      <4> QED BY <4>1
    <3>2. CASE RaiseInCycle(w)
      <4>1. torn' = torn \cup {mem[w].of} /\ {u \in {w} : pc[u] = "body"} = {w}
        BY <3>2 DEF RaiseInCycle
      <4> QED BY <4>1
    <3> QED BY <1>1, <3>1, <3>2
  <2>3. \A v \in Workers : /\ pc'[v] = IF v \in {w} THEN "idle" ELSE pc[v]
                           /\ v \notin {w} => mem'[v] = mem[v]
    BY <1>1 DEF DuplicateCycle, RaiseInCycle, Leave, GoTo, Base, TypeOK
  <2> QED BY <2>1, <2>2, <2>3, FallSerial
<1>2. CASE Restart
  <2>1. /\ session' = session /\ rows' = rows
        /\ torn' = torn \cup {mem[w].of : w \in {v \in Workers : pc[v] = "body"}}
        /\ \A w \in Workers : pc'[w] = "idle"
    BY <1>2 DEF Restart, rowVars
  <2> QED BY <2>1, FallSerial
<1> QED BY <1>1, <1>2

LEMMA SerialNext == Base /\ Serial /\ [Next]_vars => Serial'
<1> SUFFICES ASSUME Base, Serial, [Next]_vars PROVE Serial'
  OBVIOUS
<1>1. CASE UNCHANGED vars
  <2>1. /\ rows' = rows /\ torn' = torn /\ session' = session
        /\ pc' = pc /\ mem' = mem
    BY <1>1 DEF vars, rowVars, history
  <2> QED BY <2>1, SerialFrame
<1>2. CASE Next
  BY <1>2, RequestsSerial, LoopSerial, CallerSerial, FallsSerial, CreateSerial, EndSerial
     DEF Next, Cycle
<1> QED BY <1>1, <1>2

LEMMA SerialAlways == Spec => []Serial
BY BaseInit, BaseNext, SerialInit, SerialNext, PTL DEF Spec

(* A session has one cycle at work at most and its rows are numbered       *)
(* without a gap, although nothing but the unique number keeps the loop    *)
(* and the run-cycle requests apart.                                       *)
THEOREM CyclesAreSerial == Spec => []CyclesSerial
<1>1. Serial => CyclesSerial
  BY SerialIsSerial
<1> QED BY <1>1, SerialAlways, PTL

(* Rows are added by the creation of a cycle only.                         *)
LEMMA RowsGrowByCreation ==
  ASSUME [Next]_vars, rows' # rows
  PROVE  \E w \in Workers : CreateCycle(w)
BY DEF Next, vars, rowVars, history, PauseSession, ResumeSession, StopSession, Halt, StartSession,
       Loop, Spawn, LoopStop, LoopPause, LoopFull, LoopGo, LoopAfterCycle, RunCycleNow,
       CallerAfterCycle, Restart, Cycle, DuplicateCycle, EndCycle, RaiseInCycle

(* A session with a cycle left behind gets no further row: its number is   *)
(* the next one for everybody.                                             *)
THEOREM TornSessionsRest == Spec => TornSessionRests
<1>1. Base /\ Serial /\ [Next]_vars => [\A s \in torn : rows'[s] = rows[s]]_vars
  <2> SUFFICES ASSUME Base, Serial, [Next]_vars, NEW s \in torn PROVE rows'[s] = rows[s]
    OBVIOUS
  <2>1. ASSUME NEW w \in Workers, CreateCycle(w) PROVE rows'[s] = rows[s]
    <3>1. mem[w].of # s
      BY <2>1, NextInLine DEF Opened
    <3>2. rows' = [rows EXCEPT ![mem[w].of] = @ \cup NewRow(w)] /\ s \in Sessions
      BY <2>1 DEF CreateCycle, Base, TypeOK
    <3> QED BY <3>1, <3>2 DEF Base, TypeOK
  <2> QED BY <2>1, RowsGrowByCreation
<1> QED BY <1>1, BaseAlways, SerialAlways, PTL DEF Spec, TornSessionRests

(* Only the creation of its cycle takes a worker into one.                 *)
LEMMA IntoTheBody ==
  ASSUME Base, [Next]_vars, NEW s \in Sessions, pc[s] = "create", pc'[s] = "body"
  PROVE  CreateCycle(s)
<1>0. s \in Workers /\ s \notin Callers
  BY SessionsAreNat DEF Workers
<1>1. \E w \in Workers : CreateCycle(w)
  <2> SUFFICES ASSUME \A w \in Workers : ~CreateCycle(w) PROVE FALSE
    OBVIOUS
  <2>1. CASE UNCHANGED vars
    BY <2>1 DEF vars
  <2>2. CASE PauseSession \/ ResumeSession \/ StopSession \/ Halt
    BY <2>2 DEF PauseSession, ResumeSession, StopSession, Halt
  <2>3. ASSUME NEW r \in Sessions, StartSession(r) PROVE FALSE
    BY <1>0, <2>3 DEF StartSession, GoTo, Base, TypeOK
  <2>4. ASSUME NEW r \in Sessions, Loop(r) PROVE FALSE
    BY <1>0, <2>4 DEF Loop, Spawn, LoopStop, LoopPause, LoopFull, LoopGo, LoopAfterCycle, Leave,
       GoTo, Base, TypeOK
  <2>5. ASSUME NEW c \in Callers, RunCycleNow(c) \/ CallerAfterCycle(c) PROVE FALSE
    BY <1>0, <2>5 DEF RunCycleNow, CallerAfterCycle, Leave, GoTo, Base, TypeOK
  <2>6. ASSUME NEW w \in Workers, DuplicateCycle(w) \/ EndCycle(w) \/ RaiseInCycle(w) PROVE FALSE
    BY <1>0, <2>6 DEF DuplicateCycle, EndCycle, RaiseInCycle, Leave, GoTo, Base, TypeOK
  <2>7. CASE Restart
    BY <1>0, <2>7 DEF Restart
  <2> QED BY <2>1, <2>2, <2>3, <2>4, <2>5, <2>6, <2>7 DEF Next, Cycle
<1>2. PICK w \in Workers : CreateCycle(w)
  BY <1>1
<1>3. w = s
  BY <1>0, <1>2 DEF CreateCycle, GoTo, Base, TypeOK
<1> QED BY <1>2, <1>3

(* A loop adds no row beyond the limit it found unspent, whoever else ran  *)
(* a cycle of its session meanwhile.                                       *)
THEOREM LoopsKeepTheLimit == Spec => LoopKeepsLimit
<1>1. Base /\ Serial /\ [Next]_vars =>
        [\A s \in Sessions :
           MaxCycles > 0 /\ pc[s] = "create" /\ pc'[s] = "body" =>
             rows'[s] \subseteq 1..MaxCycles]_vars
  <2> SUFFICES ASSUME Base, Serial, [Next]_vars, NEW s \in Sessions, MaxCycles > 0,
                      pc[s] = "create", pc'[s] = "body"
               PROVE  rows'[s] \subseteq 1..MaxCycles
    OBVIOUS
  <2>1. s \in Workers /\ CreateCycle(s)
    BY IntoTheBody DEF Workers
  <2>2. mem[s].of = s /\ mem[s].cycle_count < MaxCycles
    BY DEF Base, Shape
  <2>3. mem[s].cycle_count \in Nat /\ rows'[s] = 1..(mem[s].cycle_count + 1)
    BY <2>1, <2>2, NextInLine DEF Number
  <2> QED BY <2>2, <2>3, MissionAssumption
<1> QED BY <1>1, BaseAlways, SerialAlways, PTL DEF Spec, LoopKeepsLimit

-----------------------------------------------------------------------------
(* The flag is kept by every worker in its cycle, and noted when one falls *)
(* or is thrown out of it.                                                 *)
LEMMA FlagNext == Base /\ FlagHasReason /\ [Next]_vars => FlagHasReason'
<1> SUFFICES ASSUME Base, FlagHasReason, [Next]_vars, state'.cycle_in_progress
             PROVE  fell' \/ \E w \in Workers : InCycle(w)'
  BY DEF FlagHasReason
<1> USE DEF FlagHasReason, InCycle
<1>0. pc \in [Workers -> Points] /\ state \in MissionControlState
  BY DEF Base, TypeOK
<1>1. CASE UNCHANGED vars
  BY <1>1 DEF vars, rowVars, history
<1>2. CASE PauseSession \/ ResumeSession \/ StopSession \/ Halt
  <2>1. state'.cycle_in_progress = state.cycle_in_progress /\ pc' = pc /\ fell' = fell
    BY <1>0, <1>2 DEF PauseSession, ResumeSession, StopSession, Halt, rowVars, history,
       MissionControlState
  <2> QED BY <2>1
<1>3. ASSUME NEW s \in Sessions, StartSession(s) PROVE fell' \/ \E w \in Workers : InCycle(w)'
  <2>1. state'.cycle_in_progress = state.cycle_in_progress /\ fell' = fell
    BY <1>0, <1>3 DEF StartSession, MissionControlState
  <2>2. pc[s] = "idle"
    BY <1>3 DEF StartSession, NewSession, Base, Shape, Alive
  <2>3. pc' = [pc EXCEPT ![s] = "spawn"]
    BY <1>3 DEF StartSession, GoTo
  <2> QED BY <1>0, <2>1, <2>2, <2>3
<1>4. ASSUME NEW s \in Sessions, Loop(s) PROVE fell' \/ \E w \in Workers : InCycle(w)'
  <2>0. s \in Workers
    BY DEF Workers
  <2>1. CASE Spawn(s) \/ LoopPause(s) \/ LoopFull(s)
    <3>1. state'.cycle_in_progress = state.cycle_in_progress /\ fell' = fell
      BY <1>0, <2>1 DEF Spawn, LoopPause, LoopFull, rowVars, history, MissionControlState
    <3>2. /\ pc[s] \in {"spawn", "top"}
          /\ \A w \in Workers \ {s} : pc'[w] = pc[w]
      BY <1>0, <2>1 DEF Spawn, LoopPause, LoopFull, Leave, GoTo
    <3> QED BY <3>1, <3>2
  <2>2. CASE LoopGo(s)
    <3>1. pc'[s] = "create"
      BY <1>0, <2>0, <2>2 DEF LoopGo, GoTo
    <3> QED BY <2>0, <3>1
  <2>3. CASE LoopStop(s) \/ LoopAfterCycle(s)
    <3>1. ~state'.cycle_in_progress
      BY <1>0, <2>3 DEF LoopStop, LoopAfterCycle, FlagCleared, MissionControlState
    <3> QED BY <3>1
  <2> QED BY <1>4, <2>1, <2>2, <2>3 DEF Loop
<1>5. ASSUME NEW c \in Callers, RunCycleNow(c) \/ CallerAfterCycle(c)
      PROVE  fell' \/ \E w \in Workers : InCycle(w)'
  <2>0. c \in Workers
    BY DEF Workers
  <2>1. CASE RunCycleNow(c)
    <3>1. pc'[c] = "create"
      BY <1>0, <2>0, <2>1 DEF RunCycleNow, GoTo
    <3> QED BY <2>0, <3>1
  <2>2. CASE CallerAfterCycle(c)
    <3>1. ~state'.cycle_in_progress
      BY <1>0, <2>2 DEF CallerAfterCycle, FlagCleared, MissionControlState
    <3> QED BY <3>1
  <2> QED BY <1>5, <2>1, <2>2
<1>6. ASSUME NEW w \in Workers, CreateCycle(w) \/ EndCycle(w)
      PROVE  fell' \/ \E v \in Workers : InCycle(v)'
  <2>1. pc'[w] \in {"body", "after"}
    BY <1>0, <1>6 DEF CreateCycle, EndCycle, GoTo
  <2> QED BY <2>1
<1>7. CASE Restart \/ \E w \in Workers : DuplicateCycle(w) \/ RaiseInCycle(w)
  <2>1. state' = state /\ fell' = state.cycle_in_progress
    BY <1>7 DEF Restart, DuplicateCycle, RaiseInCycle, rowVars
  <2> QED BY <2>1
<1> QED BY <1>1, <1>2, <1>3, <1>4, <1>5, <1>6, <1>7 DEF Next, Cycle

(* The flag that a cycle is in progress outlives every cycle only after a  *)
(* worker fell in one or lost its number to another.                       *)
THEOREM FlagIsExplained == Spec => []FlagHasReason
<1>1. Init => FlagHasReason
  BY DEF Init, FlagHasReason
<1> QED BY <1>1, FlagNext, BaseAlways, PTL DEF Spec

-----------------------------------------------------------------------------
(* A session that was stopped while its thread is alive has its stop       *)
(* request pending: that is what a start looks at when it comes too early. *)
StopPending ==
  ~early /\ state.status \notin {"RUNNING", "PAUSED"} /\ (\E s \in Sessions : Alive(s)) =>
    state.stop_requested

OneThread == ThreadIsActive /\ StopPending

LEMMA OneThreadNext == Base /\ OneThread /\ [Next]_vars => OneThread'
<1> SUFFICES ASSUME Base, OneThread, [Next]_vars PROVE OneThread'
  OBVIOUS
<1> USE DEF OneThread, ThreadIsActive, StopPending, Alive, Active
<1>0. /\ pc \in [Workers -> Points] /\ state \in MissionControlState
      /\ Sessions \subseteq Workers
  BY DEF Base, TypeOK, Workers
<1>1. CASE UNCHANGED vars
  BY <1>1 DEF vars, rowVars, history
<1>2. CASE PauseSession \/ ResumeSession
  <2>1. /\ state'.status \in {"RUNNING", "PAUSED"}
        /\ state'.active_session = state.active_session
        /\ pc' = pc /\ early' = early
    BY <1>0, <1>2 DEF PauseSession, ResumeSession, history, MissionControlState
  <2> QED BY <2>1
<1>3. CASE StopSession
  <2>1. /\ state'.active_session = state.active_session
        /\ pc' = pc /\ early' = early
        /\ state.active_session = None \/ state'.stop_requested
    BY <1>0, <1>3 DEF StopSession, history, MissionControlState
  <2>2. ~early /\ state.active_session = None => \A s \in Sessions : pc[s] = "idle"
    BY SessionsAreNat
  <2> QED BY <2>1, <2>2
<1>4. CASE Halt
  BY <1>4 DEF Halt, rowVars, history
<1>5. ASSUME NEW s \in Sessions, StartSession(s) PROVE OneThread'
  <2>1. /\ state'.status = "RUNNING" /\ state'.active_session = s
        /\ \A r \in Sessions \ {s} : pc'[r] = pc[r]
    BY <1>0, <1>5 DEF StartSession, GoTo, MissionControlState
  <2>2. ~early' => \A r \in Sessions : pc[r] = "idle"
    <3> SUFFICES ASSUME NEW r \in Sessions, pc[r] # "idle" PROVE early'
      OBVIOUS
    <3>1. early' = (early \/ state.stop_requested)
      BY <1>5 DEF StartSession
    <3>2. CASE early
      BY <3>1, <3>2
    <3>3. CASE ~early
      <4>1. state.active_session = r /\ r # None
        BY <3>3, SessionsAreNat
      <4>2. state.status \notin {"RUNNING", "PAUSED"}
        BY <1>5, <4>1 DEF StartSession, MayStart
      <4> QED BY <3>1, <3>3, <4>2
    <3> QED BY <3>2, <3>3
  <2> QED BY <2>1, <2>2
<1>6. ASSUME NEW s \in Sessions, Loop(s) PROVE OneThread'
  <2>1. CASE Spawn(s)
    <3>1. state' = state /\ early' = early /\ \A r \in Sessions : Alive(r)' <=> Alive(r)
      BY <1>0, <2>1 DEF Spawn, GoTo, rowVars, history
    <3> QED BY <3>1
  <2>2. CASE LoopStop(s) \/ LoopFull(s)
    <3>1. /\ early' = early /\ pc[s] # "idle" /\ pc'[s] = "idle"
          /\ \A r \in Sessions \ {s} : pc'[r] = pc[r]
      BY <1>0, <2>2 DEF LoopStop, LoopFull, Leave, GoTo, history
    <3>2. ~early => \A r \in Sessions : pc'[r] = "idle"
      BY <3>1
    <3> QED BY <3>1, <3>2
  <2>3. CASE LoopPause(s) \/ LoopGo(s)
    <3>1. /\ state'.status \in {"RUNNING", "PAUSED"}
          /\ state'.active_session = state.active_session
          /\ early' = early /\ \A r \in Sessions : Alive(r)' <=> Alive(r)
      BY <1>0, <2>3 DEF LoopPause, LoopGo, GoTo, history, MissionControlState
    <3> QED BY <3>1
  <2>4. CASE LoopAfterCycle(s)
    <3>1. /\ state'.status = state.status /\ state'.stop_requested = state.stop_requested
          /\ state'.active_session = state.active_session
          /\ early' = early /\ \A r \in Sessions : Alive(r)' <=> Alive(r)
      BY <1>0, <2>4 DEF LoopAfterCycle, FlagCleared, GoTo, MissionControlState
    <3> QED BY <3>1
  <2> QED BY <1>6, <2>1, <2>2, <2>3, <2>4 DEF Loop
<1>7. ASSUME NEW c \in Callers, RunCycleNow(c) \/ CallerAfterCycle(c) PROVE OneThread'
  <2>1. /\ state'.status = state.status /\ state'.stop_requested = state.stop_requested
        /\ state'.active_session = state.active_session /\ early' = early
    BY <1>0, <1>7 DEF RunCycleNow, CallerAfterCycle, FlagCleared, history, MissionControlState
  <2>2. \A r \in Sessions : pc'[r] = pc[r]
    BY <1>0, <1>7, SessionsAreNat DEF RunCycleNow, CallerAfterCycle, Leave, GoTo
  <2> QED BY <2>1, <2>2
<1>8. ASSUME NEW w \in Workers, Cycle(w) PROVE OneThread'
  <2>1. state' = state /\ early' = early
    BY <1>8 DEF Cycle, CreateCycle, DuplicateCycle, EndCycle, RaiseInCycle, rowVars, history
  <2>2. \A r \in Sessions : Alive(r)' => Alive(r)
    BY <1>0, <1>8 DEF Cycle, CreateCycle, DuplicateCycle, EndCycle, RaiseInCycle, Leave, GoTo
  <2> QED BY <2>1, <2>2
<1>9. CASE Restart
  <2>1. early' = early /\ \A r \in Sessions : ~Alive(r)'
    BY <1>0, <1>9 DEF Restart
  <2> QED BY <2>1
<1> QED BY <1>1, <1>2, <1>3, <1>4, <1>5, <1>6, <1>7, <1>8, <1>9 DEF Next

(* The thread at work is the active session's, unless a session was        *)
(* started before the thread of the one just stopped had come round.       *)
THEOREM ActiveThread == Spec => []ThreadIsActive
<1>1. Init => OneThread
  <2>1. Init => \A s \in Sessions : ~Alive(s)
    BY DEF Init, Alive, Workers
  <2> QED BY <2>1 DEF OneThread, ThreadIsActive, StopPending
<1>2. OneThread => ThreadIsActive
  BY DEF OneThread
<1> QED BY <1>1, <1>2, OneThreadNext, BaseAlways, PTL DEF Spec
=============================================================================
