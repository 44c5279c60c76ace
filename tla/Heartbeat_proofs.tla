---------------------------- MODULE Heartbeat_proofs ----------------------------
(***************************************************************************)
(* Proofs about Heartbeat, for any number of sessions and requests: every  *)
(* property its run checks.                                                *)
(***************************************************************************)
EXTENDS Heartbeat, SequenceTheorems, TLAPS

Busy(w) == pc[w] \in {"create", "settle", "cycle", "count"}

(* A thread leaves only on its event; a worker at a tick holds a session;  *)
(* passes and dispatches are told from requests, and the thread makes no   *)
(* requests.                                                               *)
Shape ==
  /\ pc[Runner] = "leaving" => stopSet
  /\ Busy(Runner) => job[Runner].auto
  /\ \A w \in Workers :
       /\ pc[w] \in {"pass", "load"} => job[w].auto
       /\ pc[w] \in {"settle", "count"} => ~job[w].auto
       /\ pc[w] = "load" \/ Busy(w) => Of(w) \in Sessions

(* The ticks of a session are those counted, and one more at most.         *)
Dense(s) ==
  /\ Len(tick[s]) \in {session[s].tick_count, session[s].tick_count + 1}
  /\ \A i \in 1..session[s].tick_count : tick[s][i] \in Executed \cup {"SKIPPED"}

Apart == \A v, w \in Workers : AtWork(v) /\ AtWork(w) /\ Of(v) = Of(w) => v = w

(* Before it has its tick a worker may hold an index long taken, never one *)
(* beyond the next; at work it holds the next one, and a request's tick is *)
(* the last row.                                                           *)
Exact(w) ==
  /\ pc[w] = "create" => job[w].index \in 1..(session[Of(w)].tick_count + 1)
  /\ AtWork(w) =>
       /\ job[w].index = session[Of(w)].tick_count + 1
       /\ Len(tick[Of(w)]) = IF job[w].auto THEN session[Of(w)].tick_count ELSE job[w].index
  /\ pc[w] = "count" => tick[Of(w)][job[w].index] \in Executed \cup {"SKIPPED"}

Serial ==
  /\ Apart
  /\ \A s \in Sessions : Dense(s)
  /\ \A w \in Workers : Exact(w)

Inv == TypeOK /\ Shape /\ Serial

LEMMA InvInit == Init => Inv
<1> SUFFICES ASSUME Init PROVE Inv
  OBVIOUS
<1> USE HeartbeatAssumption DEF Init
<1>1. session \in [Sessions -> AutonomousRuntimeSession]
  BY DEF AutonomousRuntimeSession, SessionStatuses
<1>2. tick \in [Sessions -> Seq(TickStatuses)]
  OBVIOUS
<1>3. pc \in [Workers -> Points]
  BY DEF Points
<1>4. job \in [Workers -> Job]
  BY DEF NoJob, Job, Cadence
<1>5. TypeOK
  BY <1>1, <1>2, <1>3, <1>4 DEF TypeOK
<1>6. Shape
  BY DEF Shape, Busy, Workers
<1>7. Serial
  BY DEF Serial, Apart, Dense, Exact, AtWork
<1> QED BY <1>5, <1>6, <1>7 DEF Inv

-------------------------------------------------------------------------------
(* Steps that leave ticks and counts alone.  Worker w goes on, and does    *)
(* not come to work by it.                                                 *)
LEMMA SerialStays ==
  ASSUME Inv, NEW w \in Workers,
         tick' = tick,
         \A s \in Sessions : session'[s].tick_count = session[s].tick_count,
         \A v \in Workers \ {w} : pc'[v] = pc[v] /\ job'[v] = job[v],
         pc'[w] \notin {"settle", "cycle", "count"},
         pc'[w] = "create" =>
           /\ job'[w].of \in Sessions
           /\ job'[w].index \in 1..(session[job'[w].of].tick_count + 1)
  PROVE  Serial'
<1> USE DEF Inv
<1>1. \A s \in Sessions : Dense(s)'
  BY DEF Serial, Dense
<1>2. Apart'
  BY DEF Serial, Apart, AtWork, Of
<1>3. ASSUME NEW v \in Workers PROVE Exact(v)'
  <2>1. CASE v = w
    BY <2>1 DEF Exact, AtWork, Of
  <2>2. CASE v # w
    <3>1. pc'[v] = pc[v] /\ job'[v] = job[v] /\ Exact(v)
      BY <2>2 DEF Serial
    <3>2. Busy(v) => Of(v) \in Sessions
      BY DEF Shape
    <3> QED BY <3>1, <3>2 DEF Exact, AtWork, Of, Busy
  <2> QED BY <2>1, <2>2
<1> QED BY <1>1, <1>2, <1>3 DEF Serial

(* Steps at session s, by worker w, while nobody else is at work on s.     *)
LEMMA SerialAt ==
  ASSUME Inv, NEW w \in Workers, NEW s \in Sessions,
         \A t \in Sessions \ {s} :
           tick'[t] = tick[t] /\ session'[t].tick_count = session[t].tick_count,
         session'[s].tick_count \in Nat,
         session'[s].tick_count >= session[s].tick_count,
         \A v \in Workers \ {w} : pc'[v] = pc[v] /\ job'[v] = job[v],
         \A v \in Workers \ {w} : AtWork(v) => Of(v) # s,
         AtWork(w)' => job'[w].of = s,
         Dense(s)', Exact(w)'
  PROVE  Serial'
<1> USE DEF Inv
<1>1. \A t \in Sessions : Dense(t)'
  <2>1. ASSUME NEW t \in Sessions, t # s PROVE Dense(t)'
    BY <2>1 DEF Serial, Dense
  <2> QED BY <2>1
<1>2. Apart'
  BY DEF Serial, Apart, AtWork, Of
<1>3. ASSUME NEW v \in Workers, v # w PROVE Exact(v)'
  <2>1. pc'[v] = pc[v] /\ job'[v] = job[v] /\ Exact(v)
    BY <1>3 DEF Serial
  <2>2. Busy(v) => Of(v) \in Sessions
    BY DEF Shape
  <2>3. CASE Busy(v) /\ Of(v) # s
    BY <2>1, <2>2, <2>3 DEF Exact, AtWork, Of, Busy
  <2>4. CASE Busy(v) /\ Of(v) = s
    <3>1. ~AtWork(v) /\ pc[v] = "create"
      BY <1>3, <2>4 DEF AtWork, Busy
    <3>2. session[s].tick_count \in Nat /\ job[v].index \in Nat
      BY DEF TypeOK, AutonomousRuntimeSession, Job
    <3> QED BY <2>1, <2>4, <3>1, <3>2 DEF Exact, AtWork, Of
  <2>5. CASE ~Busy(v)
    BY <2>1, <2>5 DEF Exact, AtWork, Busy
  <2> QED BY <2>3, <2>4, <2>5
<1> QED BY <1>1, <1>2, <1>3 DEF Serial

(* An index that is not taken is the next one, and nobody is at work.      *)
LEMMA NextInLine ==
  ASSUME Inv, NEW w \in Workers, MayCreate(w)
  PROVE  /\ Of(w) \in Sessions
         /\ job[w].index = session[Of(w)].tick_count + 1
         /\ Len(tick[Of(w)]) = session[Of(w)].tick_count
         /\ \A v \in Workers : AtWork(v) => Of(v) # Of(w)
<1> USE DEF Inv
<1>1. pc[w] = "create" /\ ~Taken(w)
  BY DEF MayCreate
<1>2. Of(w) \in Sessions
  BY <1>1 DEF Shape, Busy
<1>3. session[Of(w)].tick_count \in Nat /\ Len(tick[Of(w)]) \in Nat /\ job[w].index \in Nat
  BY <1>2, LenProperties DEF TypeOK, AutonomousRuntimeSession, Job
<1>4. job[w].index \in 1..(session[Of(w)].tick_count + 1)
  BY <1>1 DEF Serial, Exact
<1>5. Len(tick[Of(w)]) \in {session[Of(w)].tick_count, session[Of(w)].tick_count + 1}
  BY <1>2 DEF Serial, Dense
<1>6. job[w].index > Len(tick[Of(w)])
  BY <1>1, <1>3 DEF Taken
<1>7. job[w].index = session[Of(w)].tick_count + 1 /\ Len(tick[Of(w)]) = session[Of(w)].tick_count
  BY <1>3, <1>4, <1>5, <1>6
<1>8. ASSUME NEW v \in Workers, AtWork(v), Of(v) = Of(w) PROVE FALSE
  <2>1. CASE job[v].auto
    <3>1. pc[v] = "cycle"
      BY <1>8, <2>1 DEF AtWork, Shape
    <3> QED BY <1>1, <1>8, <2>1, <3>1 DEF MayCreate
  <2>2. CASE ~job[v].auto
    <3>1. Len(tick[Of(w)]) = session[Of(w)].tick_count + 1
      BY <1>8, <2>2 DEF Serial, Exact
    <3> QED BY <1>3, <1>7, <3>1
  <2> QED BY <2>1, <2>2
<1> QED BY <1>2, <1>7, <1>8

-------------------------------------------------------------------------------
(* Requests on the runner and on sessions, and the thread between passes.  *)
LEMMA RequestsInv ==
  ASSUME Inv,
         \/ StartRunner \/ PauseRunner \/ StopRunner \/ SetStopEvent
         \/ \E s \in Sessions : SetStatus(s) \/ CooldownExpires(s)
  PROVE  Inv'
<1> USE HeartbeatAssumption DEF Inv
<1>1. CASE StartRunner \/ PauseRunner \/ StopRunner \/ SetStopEvent
  <2>1. TypeOK'
    BY <1>1 DEF StartRunner, PauseRunner, StopRunner, SetStopEvent, TypeOK, rows
  <2>2. Shape'
    BY <1>1 DEF StartRunner, PauseRunner, StopRunner, SetStopEvent, Shape, Busy, Of
  <2>3. Serial'
    BY <1>1 DEF StartRunner, PauseRunner, StopRunner, SetStopEvent, rows,
                Serial, Apart, Dense, Exact, AtWork, Of
  <2> QED BY <2>1, <2>2, <2>3
<1>2. ASSUME NEW s \in Sessions, SetStatus(s) PROVE Inv'
  <2>1. PICK status \in {"RUNNING", "PAUSED", "STOPPED"} :
          session' = [session EXCEPT ![s].status = status]
    BY <1>2 DEF SetStatus
  <2>2. session' \in [Sessions -> AutonomousRuntimeSession]
    BY <2>1 DEF TypeOK, AutonomousRuntimeSession, SessionStatuses
  <2>3. \A t \in Sessions : session'[t].tick_count = session[t].tick_count
    BY <2>1 DEF TypeOK, AutonomousRuntimeSession
  <2>4. TypeOK'
    BY <1>2, <2>2 DEF SetStatus, TypeOK, control
  <2>5. Shape'
    BY <1>2 DEF SetStatus, control, Shape, Busy, Of
  <2>6. \A w \in Workers : Exact(w)'
    <3>1. ASSUME NEW w \in Workers PROVE Exact(w)'
      <4>1. Exact(w) /\ (Busy(w) => Of(w) \in Sessions)
        BY DEF Serial, Shape
      <4>2. job' = job /\ pc' = pc /\ tick' = tick
        BY <1>2 DEF SetStatus
      <4> QED BY <2>3, <4>1, <4>2 DEF Exact, AtWork, Of, Busy
    <3> QED BY <3>1
  <2>7. Serial'
    BY <1>2, <2>3, <2>6 DEF SetStatus, Serial, Apart, Dense, AtWork, Of
  <2> QED BY <2>4, <2>5, <2>7
<1>3. ASSUME NEW s \in Sessions, CooldownExpires(s) PROVE Inv'
  BY <1>3 DEF CooldownExpires, control, TypeOK, Shape, Busy, Of, Serial, Apart, Dense, Exact, AtWork
<1> QED BY <1>1, <1>2, <1>3

LEMMA ThreadInv ==
  ASSUME Inv, StartThread \/ RunnerLeaves \/ RunnerEnds
  PROVE  Inv'
<1> USE HeartbeatAssumption DEF Inv
<1>0. Runner \in Workers
  BY DEF Workers
<1>1. tick' = tick /\ session' = session /\ cooling' = cooling /\ job' = job
  BY DEF StartThread, RunnerLeaves, RunnerEnds, rows
<1>2. pc' \in [Workers -> Points]
  BY <1>0 DEF StartThread, RunnerLeaves, RunnerEnds, GoTo, TypeOK, Points
<1>3. TypeOK'
  BY <1>1, <1>2 DEF StartThread, RunnerLeaves, RunnerEnds, TypeOK, control, Clears, ThreadAlive
<1>4. pc' = pc \/ pc'[Runner] \in {"look", "leaving", "idle"}
  BY <1>0 DEF StartThread, RunnerLeaves, RunnerEnds, GoTo, TypeOK
<1>5. \A w \in Workers \ {Runner} : pc'[w] = pc[w]
  BY <1>0 DEF StartThread, RunnerLeaves, RunnerEnds, GoTo, TypeOK
<1>6. Shape'
  <2>1. pc'[Runner] = "leaving" => stopSet'
    BY <1>0 DEF StartThread, RunnerLeaves, RunnerEnds, GoTo, TypeOK, control, Shape,
                Clears, ThreadAlive
  <2>2. \A w \in Workers : pc'[w] = pc[w] \/ pc'[w] \in {"look", "leaving", "idle"}
    BY <1>4, <1>5
  <2> QED BY <1>0, <1>1, <2>1, <2>2 DEF Shape, Busy, Of
<1>7. Serial'
  <2>1. CASE pc' = pc
    BY <1>1, <2>1 DEF Serial, Apart, Dense, Exact, AtWork, Of
  <2>2. CASE pc'[Runner] \in {"look", "leaving", "idle"}
    BY <1>0, <1>1, <1>5, <2>2, SerialStays
  <2> QED BY <1>4, <2>1, <2>2
<1> QED BY <1>3, <1>6, <1>7

LEMMA RestartInv ==
  ASSUME Inv, Restart
  PROVE  Inv'
<1> USE HeartbeatAssumption DEF Inv, Restart, rows
<1>1. job' \in [Workers -> Job]
  BY DEF NoJob, Job, Cadence
<1>2. TypeOK'
  BY <1>1 DEF TypeOK, Points
<1>3. Shape'
  BY DEF Shape, Busy, Workers
<1>4. Serial'
  BY DEF Serial, Apart, Dense, Exact, AtWork, TypeOK
<1> QED BY <1>2, <1>3, <1>4

-------------------------------------------------------------------------------
(* Steps of worker w that neither show nor count a tick.  It does not come *)
(* to work by them, and it does not become a thread told to leave.         *)
Quiet(w) ==
  /\ tick' = tick /\ UNCHANGED control /\ fell' \in BOOLEAN
  /\ cooling' \subseteq Sessions
  /\ session' \in [Sessions -> AutonomousRuntimeSession]
  /\ \A s \in Sessions : session'[s].tick_count = session[s].tick_count
  /\ pc' = [pc EXCEPT ![w] = pc'[w]] /\ job' = [job EXCEPT ![w] = job'[w]]
  /\ pc'[w] \in {"idle", "look", "pass", "load", "create"} /\ job'[w] \in Job
  /\ pc'[w] \in {"pass", "load"} => job'[w].auto
  /\ pc'[w] = "load" => job'[w].of \in Sessions
  /\ pc'[w] = "create" =>
       /\ w = Runner => job'[w].auto
       /\ job'[w].of \in Sessions
       /\ job'[w].index \in 1..(session[job'[w].of].tick_count + 1)

LEMMA QuietInv ==
  ASSUME Inv, NEW w \in Workers, Quiet(w)
  PROVE  Inv'
<1> USE HeartbeatAssumption DEF Inv, Quiet
<1>1. \A v \in Workers \ {w} : pc'[v] = pc[v] /\ job'[v] = job[v]
  BY DEF TypeOK
<1>2. pc' \in [Workers -> Points] /\ job' \in [Workers -> Job]
  BY DEF TypeOK, Points
<1>3. TypeOK'
  BY <1>2 DEF TypeOK, control
<1>4. Shape'
  <2>1. Runner \in Workers
    BY DEF Workers
  <2>2. ASSUME NEW v \in Workers
        PROVE  /\ pc'[v] \in {"pass", "load"} => job'[v].auto
               /\ pc'[v] \in {"settle", "count"} => ~job'[v].auto
               /\ pc'[v] \in {"load", "create", "settle", "cycle", "count"} => job'[v].of \in Sessions
    <3>1. CASE v = w
      BY <3>1
    <3>2. CASE v # w
      BY <1>1, <3>2 DEF Shape, Busy, Of
    <3> QED BY <3>1, <3>2
  <2>3. pc'[Runner] = "leaving" => stopSet'
    BY <1>1, <2>1 DEF Shape, control
  <2>4. Busy(Runner)' => job'[Runner].auto
    BY <1>1, <2>1 DEF Shape, Busy
  <2> QED BY <2>2, <2>3, <2>4 DEF Shape, Busy, Of
<1>5. Serial'
  BY <1>1, SerialStays
<1> QED BY <1>3, <1>4, <1>5

LEMMA Returns ==
  ASSUME Inv, NEW w \in Workers, Return(w)
  PROVE  /\ pc' = [pc EXCEPT ![w] = pc'[w]] /\ job' = [job EXCEPT ![w] = job'[w]]
         /\ pc'[w] = IF job[w].auto THEN "pass" ELSE "idle"
         /\ job'[w] \in Job /\ job'[w].auto = job[w].auto
<1> USE DEF Inv, TypeOK
<1>1. NoJob \in Job
  BY DEF NoJob, Job, Cadence
<1>2. CASE job[w].auto
  <2>1. pc' = [pc EXCEPT ![w] = "pass"]
    BY <1>2 DEF Return, GoTo
  <2>2. job' = [job EXCEPT ![w] = [NoJob EXCEPT !.todo = job[w].todo, !.auto = TRUE]]
    BY <1>2 DEF Return, Set
  <2>3. [NoJob EXCEPT !.todo = job[w].todo, !.auto = TRUE] \in Job
    BY <1>1 DEF Job
  <2>4. [NoJob EXCEPT !.todo = job[w].todo, !.auto = TRUE].auto
    BY DEF NoJob
  <2> QED BY <1>2, <2>1, <2>2, <2>3, <2>4
<1>3. CASE ~job[w].auto
  <2>1. pc' = [pc EXCEPT ![w] = "idle"] /\ job' = [job EXCEPT ![w] = NoJob]
    BY <1>3 DEF Return, GoTo, Set
  <2>2. NoJob.auto = FALSE /\ job[w].auto = FALSE
    BY <1>3 DEF NoJob, Job
  <2> QED BY <1>1, <1>3, <2>1, <2>2
<1> QED BY <1>2, <1>3

LEMMA PassInv ==
  ASSUME Inv, NEW w \in Workers,
         \/ BeginPass(w) \/ EndPass(w) \/ RaiseInPass(w)
         \/ \E s \in Sessions : DispatchDueTick(w, s) \/ PassOver(w, s)
  PROVE  Inv'
<1> USE DEF Inv, TypeOK
<1>0. NoJob \in Job /\ ~NoJob.auto
  BY DEF NoJob, Job, Cadence
<1>1. CASE BeginPass(w)
  <2>1. pc' = [pc EXCEPT ![w] = "pass"]
    BY <1>1 DEF BeginPass, GoTo
  <2> DEFINE j == [NoJob EXCEPT !.todo = {s \in Sessions : session[s].status = "RUNNING"},
                               !.auto = TRUE]
  <2>2. job' = [job EXCEPT ![w] = j]
    BY <1>1 DEF BeginPass, Set
  <2>3. j \in Job /\ j.auto
    BY <1>0 DEF Job, NoJob
  <2> HIDE DEF j
  <2>4. Quiet(w)
    BY <1>1, <2>1, <2>2, <2>3 DEF BeginPass, rows, Quiet
  <2> QED BY <2>4, QuietInv
<1>2. CASE EndPass(w)
  <2>1. job' = [job EXCEPT ![w] = NoJob]
    BY <1>2 DEF EndPass, Set
  <2>2. pc' = [pc EXCEPT ![w] = IF w = Runner THEN "look" ELSE "idle"]
    BY <1>2 DEF EndPass, GoTo
  <2>3. Quiet(w)
    BY <1>0, <1>2, <2>1, <2>2 DEF EndPass, rows, Quiet
  <2> QED BY <2>3, QuietInv
<1>3. CASE RaiseInPass(w)
  <2>1. job' = [job EXCEPT ![w] = NoJob] /\ pc' = [pc EXCEPT ![w] = "idle"]
    BY <1>3 DEF RaiseInPass, Set, GoTo
  <2>2. fell' \in BOOLEAN
    <3>1. fell' = (fell \/ w = Runner)
      BY <1>3 DEF RaiseInPass
    <3> QED BY <3>1
  <2>3. Quiet(w)
    BY <1>0, <1>3, <2>1, <2>2 DEF RaiseInPass, rows, Quiet
  <2> QED BY <2>3, QuietInv
<1>4. ASSUME NEW s \in Sessions, DispatchDueTick(w, s) PROVE Inv'
  <2>1. pc' = [pc EXCEPT ![w] = "load"] /\ pc[w] = "pass"
    BY <1>4 DEF DispatchDueTick, GoTo
  <2>2. job' = [job EXCEPT ![w] = [job[w] EXCEPT !.todo = @ \ {s}, !.of = s]]
    BY <1>4 DEF DispatchDueTick, Set
  <2>3. job[w] \in Job /\ job[w].auto
    BY <2>1 DEF Shape
  <2>4. [job[w] EXCEPT !.todo = @ \ {s}, !.of = s] \in Job
    BY <2>3 DEF Job
  <2>5. job'[w] \in Job /\ job'[w].auto /\ job'[w].of = s
    BY <2>2, <2>3, <2>4 DEF Job
  <2>6. Quiet(w)
    BY <1>4, <2>1, <2>2, <2>5 DEF DispatchDueTick, rows, Quiet
  <2> QED BY <2>6, QuietInv
<1>5. ASSUME NEW s \in Sessions, PassOver(w, s) PROVE Inv'
  <2>1. pc' = pc /\ pc[w] = "pass"
    BY <1>5 DEF PassOver
  <2>2. job' = [job EXCEPT ![w] = [job[w] EXCEPT !.todo = @ \ {s}]]
    BY <1>5 DEF PassOver, Set
  <2>3. job[w] \in Job /\ job[w].auto
    BY <2>1 DEF Shape
  <2>4. [job[w] EXCEPT !.todo = @ \ {s}] \in Job
    BY <2>3 DEF Job
  <2>5. job'[w] \in Job /\ job'[w].auto
    BY <2>2, <2>3, <2>4 DEF Job
  <2>6. Quiet(w)
    BY <1>5, <2>1, <2>2, <2>5 DEF PassOver, rows, Quiet
  <2> QED BY <2>6, QuietInv
<1> QED BY <1>1, <1>2, <1>3, <1>4, <1>5

(* A tick is decided on: whatever the cadence, the index is the next one.  *)
LEMMA LoadInv ==
  ASSUME Inv, NEW w \in Workers, NEW s \in Sessions, NEW j \in Job,
         LoadTick(w, s, j), w = Runner => j.auto
  PROVE  Inv'
<1> USE DEF Inv, TypeOK
<1>1. PICK cadence \in Cadences(s) :
        LET status == Ordered(cadence, session[s].status) IN
        /\ Set(w, [j EXCEPT !.of = s, !.index = session[s].tick_count + 1,
                            !.cadence = cadence, !.runnable = status \notin {"STOPPED", "BLOCKED"}])
        /\ IF j.auto THEN UNCHANGED <<session, cooling>>
           ELSE /\ session' = [session EXCEPT ![s].status = status]
                /\ cooling' = cooling \cup Cooled(cadence, s)
  BY DEF LoadTick
<1> DEFINE status == Ordered(cadence, session[s].status)
           k == [j EXCEPT !.of = s, !.index = session[s].tick_count + 1,
                          !.cadence = cadence, !.runnable = status \notin {"STOPPED", "BLOCKED"}]
<1>2. cadence \in Cadence
  BY DEF Cadences, Cadence
<1>3. session[s].tick_count \in Nat /\ session[s].status \in SessionStatuses
  BY DEF AutonomousRuntimeSession
<1>4. status \in SessionStatuses
  BY <1>2, <1>3 DEF Ordered, SessionStatuses, Cadence
<1>5. job' = [job EXCEPT ![w] = k]
  BY <1>1 DEF Set
<1>6. k \in Job /\ k.auto = j.auto /\ k.of = s /\ k.index = session[s].tick_count + 1
  <2> DEFINE b == status \notin {"STOPPED", "BLOCKED"}
             n == session[s].tick_count + 1
  <2>1. b \in BOOLEAN /\ n \in Nat
    BY <1>3
  <2>2. k = [j EXCEPT !.of = s, !.index = n, !.cadence = cadence, !.runnable = b]
    OBVIOUS
  <2> HIDE DEF b, n, k, status
  <2>3. k \in Job /\ k.auto = j.auto /\ k.of = s /\ k.index = n
    BY <1>2, <2>1, <2>2 DEF Job
  <2> USE DEF n
  <2> QED BY <2>3
<1>7. session' \in [Sessions -> AutonomousRuntimeSession]
  BY <1>1, <1>4 DEF AutonomousRuntimeSession
<1>8. \A t \in Sessions : session'[t].tick_count = session[t].tick_count
  BY <1>1 DEF AutonomousRuntimeSession
<1>9. cooling' \subseteq Sessions
  BY <1>1 DEF Cooled
<1>10. pc' = [pc EXCEPT ![w] = "create"]
  BY DEF LoadTick, GoTo
<1> HIDE DEF status, k
<1>11. job'[w] = k
  BY <1>5
<1>12. Quiet(w)
  BY <1>3, <1>5, <1>6, <1>7, <1>8, <1>9, <1>10, <1>11 DEF LoadTick, Quiet
<1> QED BY <1>12, QuietInv

(* Nothing comes of a tick: its index was taken, or its cycle raised.      *)
LEMMA NoTickInv ==
  ASSUME Inv, NEW w \in Workers, DuplicateTick(w) \/ RaiseInCycle(w)
  PROVE  Inv'
<1>1. Return(w) /\ UNCHANGED <<rows, control, fell>>
  BY DEF DuplicateTick, RaiseInCycle
<1>2. Quiet(w)
  BY <1>1, Returns DEF Quiet, rows, Inv, TypeOK
<1> QED BY <1>2, QuietInv

-------------------------------------------------------------------------------
(* Steps of worker w at work on session s, or coming to it or from it.     *)
Works(w, s) ==
  /\ UNCHANGED control /\ UNCHANGED fell /\ cooling' \subseteq Sessions
  /\ session' = [session EXCEPT ![s] = session'[s]]
  /\ session'[s] \in AutonomousRuntimeSession
  /\ session'[s].tick_count >= session[s].tick_count
  /\ tick' = [tick EXCEPT ![s] = tick'[s]] /\ tick'[s] \in Seq(TickStatuses)
  /\ pc' = [pc EXCEPT ![w] = pc'[w]] /\ job' = [job EXCEPT ![w] = job'[w]]
  /\ job'[w] \in Job /\ job'[w].auto = job[w].auto
  /\ \/ pc'[w] = IF job[w].auto THEN "pass" ELSE "idle"
     \/ pc'[w] \in {"settle", "cycle", "count"} /\ job'[w].of = s
  /\ pc'[w] \in {"settle", "count"} => ~job[w].auto

LEMMA OneChanges ==
  ASSUME NEW S, NEW T, NEW f \in [S -> T], NEW s \in S, NEW e \in T
  PROVE  [f EXCEPT ![s] = e] \in [S -> T]
OBVIOUS

LEMMA WorksInv ==
  ASSUME Inv, NEW w \in Workers, NEW s \in Sessions, Busy(w), Works(w, s),
         \A v \in Workers \ {w} : AtWork(v) => Of(v) # s,
         Dense(s)', Exact(w)'
  PROVE  Inv'
<1> USE HeartbeatAssumption DEF Inv, Works
<1>1. \A v \in Workers \ {w} : pc'[v] = pc[v] /\ job'[v] = job[v]
  BY DEF TypeOK
<1>2. TypeOK'
  <2>1. session' \in [Sessions -> AutonomousRuntimeSession]
    BY OneChanges DEF TypeOK
  <2>2. tick' \in [Sessions -> Seq(TickStatuses)]
    <3> HIDE DEF Inv, Works
    <3>1. tick \in [Sessions -> Seq(TickStatuses)]
      BY DEF Inv, TypeOK
    <3>2. tick' = [tick EXCEPT ![s] = tick'[s]] /\ tick'[s] \in Seq(TickStatuses)
      BY DEF Works
    <3>3. [tick EXCEPT ![s] = tick'[s]] \in [Sessions -> Seq(TickStatuses)]
      BY <3>1, <3>2, OneChanges
    <3> QED BY <3>2, <3>3
  <2>3. pc' \in [Workers -> Points]
    <3>1. pc'[w] \in Points
      BY DEF Points
    <3> QED BY <3>1, OneChanges DEF TypeOK
  <2>4. job' \in [Workers -> Job]
    BY OneChanges DEF TypeOK
  <2>5. cooling' \subseteq Sessions /\ UNCHANGED <<control, fell>>
    OBVIOUS
  <2> HIDE DEF Works
  <2> QED BY <2>1, <2>2, <2>3, <2>4, <2>5 DEF TypeOK, control
<1>3. Shape'
  <2>1. Runner \in Workers
    BY DEF Workers
  <2>2. ASSUME NEW v \in Workers
        PROVE  /\ pc'[v] \in {"pass", "load"} => job'[v].auto
               /\ pc'[v] \in {"settle", "count"} => ~job'[v].auto
               /\ pc'[v] \in {"load", "create", "settle", "cycle", "count"} => job'[v].of \in Sessions
    <3>1. CASE v = w
      BY <3>1
    <3>2. CASE v # w
      BY <1>1, <3>2 DEF Shape, Busy, Of
    <3> QED BY <3>1, <3>2
  <2>3. pc'[Runner] = "leaving" => stopSet'
    BY <1>1, <2>1 DEF Shape, control
  <2>4. Busy(Runner)' => job'[Runner].auto
    BY <1>1, <2>1 DEF Shape, Busy
  <2> QED BY <2>2, <2>3, <2>4 DEF Shape, Busy, Of
<1>4. Serial'
  <2>1. \A t \in Sessions \ {s} :
          tick'[t] = tick[t] /\ session'[t].tick_count = session[t].tick_count
    BY DEF TypeOK
  <2>2. session'[s].tick_count \in Nat
    BY DEF AutonomousRuntimeSession
  <2>3. AtWork(w)' => job'[w].of = s
    BY DEF AtWork
  <2> QED BY <1>1, <2>1, <2>2, <2>3, SerialAt
<1> QED BY <1>2, <1>3, <1>4

LEMMA OneMore ==
  ASSUME NEW q \in Seq(TickStatuses), NEW e \in TickStatuses
  PROVE  /\ Append(q, e) \in Seq(TickStatuses)
         /\ Len(Append(q, e)) = Len(q) + 1
         /\ Append(q, e)[Len(q) + 1] = e
         /\ \A i \in 1..Len(q) : Append(q, e)[i] = q[i]
BY AppendProperties

LEMMA LastReplaced ==
  ASSUME NEW q \in Seq(TickStatuses), NEW e \in TickStatuses, NEW n \in Nat, Len(q) = n + 1
  PROVE  /\ [q EXCEPT ![n + 1] = e] \in Seq(TickStatuses)
         /\ Len([q EXCEPT ![n + 1] = e]) = n + 1
         /\ [q EXCEPT ![n + 1] = e][n + 1] = e
         /\ \A i \in 1..n : [q EXCEPT ![n + 1] = e][i] = q[i]
<1>1. n + 1 \in 1..Len(q)
  OBVIOUS
<1>2. [q EXCEPT ![n + 1] = e] \in Seq(TickStatuses) /\ Len([q EXCEPT ![n + 1] = e]) = Len(q)
  BY <1>1, ExceptSeq
<1>3. DOMAIN q = 1..Len(q)
  BY LenProperties
<1> QED BY <1>1, <1>2, <1>3

(* What is known of a request at work: its tick is the last row, and not   *)
(* counted yet.                                                            *)
LEMMA AtLast ==
  ASSUME Inv, NEW w \in Workers, AtWork(w), ~job[w].auto
  PROVE  /\ Of(w) \in Sessions /\ session[Of(w)].tick_count \in Nat
         /\ job[w].index = session[Of(w)].tick_count + 1
         /\ Len(tick[Of(w)]) = session[Of(w)].tick_count + 1
         /\ \A v \in Workers \ {w} : AtWork(v) => Of(v) # Of(w)
<1> USE DEF Inv
<1>1. Of(w) \in Sessions
  BY DEF Shape, Busy, AtWork
<1>2. session[Of(w)].tick_count \in Nat
  BY <1>1 DEF TypeOK, AutonomousRuntimeSession
<1>3. job[w].index = session[Of(w)].tick_count + 1 /\ Len(tick[Of(w)]) = job[w].index
  BY DEF Serial, Exact
<1>4. \A v \in Workers \ {w} : AtWork(v) => Of(v) # Of(w)
  BY DEF Serial, Apart
<1> QED BY <1>1, <1>2, <1>3, <1>4

-------------------------------------------------------------------------------
LEMMA CreateInv ==
  ASSUME Inv, NEW w \in Workers, CreateTick(w)
  PROVE  Inv'
<1>1. MayCreate(w) /\ pc[w] = "create" /\ ~job[w].auto /\ Busy(w)
  BY DEF CreateTick, MayCreate, Busy
<1>0. PICK s \in Sessions : s = Of(w)
  BY <1>1, NextInLine
<1>2. /\ s \in Sessions /\ job[w].index = session[s].tick_count + 1
      /\ Len(tick[s]) = session[s].tick_count /\ \A v \in Workers : AtWork(v) => Of(v) # s
  BY <1>0, <1>1, NextInLine
<1>3. /\ tick \in [Sessions -> Seq(TickStatuses)] /\ session \in [Sessions -> AutonomousRuntimeSession]
      /\ pc \in [Workers -> Points] /\ job \in [Workers -> Job] /\ cooling \subseteq Sessions
  BY DEF Inv, TypeOK
<1>4. Dense(s)
  BY <1>2 DEF Inv, Serial
<1>5. tick' = [tick EXCEPT ![s] = Append(tick[s], "PLANNED")]
  BY <1>0 DEF CreateTick
<1>6. tick'[s] = Append(tick[s], "PLANNED") /\ tick[s] \in Seq(TickStatuses)
  BY <1>2, <1>3, <1>5
<1>7. "PLANNED" \in TickStatuses
  BY DEF TickStatuses
<1>8. /\ tick'[s] \in Seq(TickStatuses) /\ Len(tick'[s]) = session[s].tick_count + 1
      /\ \A i \in 1..session[s].tick_count : tick'[s][i] = tick[s][i]
  BY <1>2, <1>6, <1>7, OneMore
<1>9. /\ session' = session /\ job' = job /\ cooling' = cooling /\ UNCHANGED <<control, fell>>
      /\ pc' = [pc EXCEPT ![w] = "settle"] /\ session[s].tick_count \in Nat
  BY <1>2, <1>3 DEF CreateTick, GoTo, AutonomousRuntimeSession
<1>10. pc'[w] = "settle" /\ job'[w] = job[w] /\ job[w].of = s /\ job[w] \in Job
  BY <1>0, <1>3, <1>9 DEF Of
<1>11. Works(w, s)
  BY <1>1, <1>2, <1>3, <1>5, <1>6, <1>8, <1>9, <1>10 DEF Works
<1>12. Dense(s)'
  BY <1>4, <1>8, <1>9 DEF Dense
<1>13. Exact(w)'
  BY <1>1, <1>2, <1>8, <1>9, <1>10 DEF Exact, AtWork, Of
<1> QED BY <1>1, <1>2, <1>11, <1>12, <1>13, WorksInv

(* A request saves its tick over the last row, and goes on or returns.     *)
LEMMA SaveInv ==
  ASSUME Inv, NEW w \in Workers, AtWork(w), ~job[w].auto, NEW status \in TickStatuses,
         tick' = [tick EXCEPT ![Of(w)][job[w].index] = status],
         UNCHANGED <<session, cooling, control, fell>>,
         \/ pc' = [pc EXCEPT ![w] = "cycle"] /\ job' = job
         \/ pc' = [pc EXCEPT ![w] = "count"] /\ job' = job /\ status \in Executed \cup {"SKIPPED"}
         \/ Return(w)
  PROVE  Inv'
<1>0. PICK s \in Sessions : s = Of(w)
  BY AtLast
<1> DEFINE n == session[s].tick_count
<1>1. /\ s \in Sessions /\ n \in Nat /\ job[w].index = n + 1 /\ Len(tick[s]) = n + 1
      /\ \A v \in Workers \ {w} : AtWork(v) => Of(v) # s
  BY <1>0, AtLast
<1>2. /\ tick \in [Sessions -> Seq(TickStatuses)] /\ session \in [Sessions -> AutonomousRuntimeSession]
      /\ pc \in [Workers -> Points] /\ job \in [Workers -> Job] /\ cooling \subseteq Sessions
  BY DEF Inv, TypeOK
<1>3. Dense(s) /\ Busy(w)
  BY <1>1 DEF Inv, Serial, Busy, AtWork
<1>4. tick' = [tick EXCEPT ![s] = [tick[s] EXCEPT ![n + 1] = status]]
  BY <1>0, <1>1
<1>5. tick'[s] = [tick[s] EXCEPT ![n + 1] = status] /\ tick[s] \in Seq(TickStatuses)
  BY <1>1, <1>2, <1>4
<1>6. /\ tick'[s] \in Seq(TickStatuses) /\ Len(tick'[s]) = n + 1 /\ tick'[s][n + 1] = status
      /\ \A i \in 1..n : tick'[s][i] = tick[s][i]
  BY <1>1, <1>5, LastReplaced
<1>7. job[w].of = s /\ session' = session
  BY <1>0 DEF Of
<1>8. /\ pc' = [pc EXCEPT ![w] = pc'[w]] /\ job' = [job EXCEPT ![w] = job'[w]]
      /\ job'[w] \in Job /\ job'[w].auto = job[w].auto
      /\ \/ pc'[w] = "idle"
         \/ pc'[w] = "cycle" /\ job'[w] = job[w]
         \/ pc'[w] = "count" /\ job'[w] = job[w] /\ status \in Executed \cup {"SKIPPED"}
  <2>1. CASE pc' = [pc EXCEPT ![w] = "cycle"] /\ job' = job
    BY <1>2, <2>1
  <2>2. CASE pc' = [pc EXCEPT ![w] = "count"] /\ job' = job /\ status \in Executed \cup {"SKIPPED"}
    BY <1>2, <2>2
  <2>3. CASE Return(w)
    BY <2>3, Returns
  <2> QED BY <2>1, <2>2, <2>3
<1>9. Dense(s)'
  BY <1>1, <1>3, <1>6, <1>7 DEF Dense
<1>10. Exact(w)'
  <2>1. CASE pc'[w] = "idle"
    BY <2>1 DEF Exact, AtWork
  <2>2. CASE pc'[w] # "idle"
    <3>1. job'[w].of = s /\ job'[w].index = n + 1 /\ ~job'[w].auto
      BY <1>1, <1>7, <1>8, <2>2
    <3>2. pc'[w] # "create"
      BY <1>8, <2>2
    <3> QED BY <1>6, <1>7, <1>8, <2>2, <3>1, <3>2 DEF Exact, AtWork, Of
  <2> QED BY <2>1, <2>2
<1> HIDE DEF n
<1>11. Works(w, s)
  <2>1. session[s] \in AutonomousRuntimeSession /\ session[s].tick_count \in Nat
    BY <1>1, <1>2 DEF n
  <2>2. session' = [session EXCEPT ![s] = session'[s]]
    BY <1>1, <1>2, <1>7
  <2>3. tick' = [tick EXCEPT ![s] = tick'[s]]
    BY <1>4, <1>5
  <2> QED BY <1>2, <1>6, <1>7, <1>8, <2>1, <2>2, <2>3 DEF Works
<1> QED BY <1>1, <1>3, <1>9, <1>10, <1>11, WorksInv

LEMMA SettleInv ==
  ASSUME Inv, NEW w \in Workers, SettleTick(w)
  PROVE  Inv'
<1>1. pc[w] = "settle" /\ ~job[w].auto /\ AtWork(w)
  BY DEF SettleTick, Inv, Shape, AtWork
<1>2. UNCHANGED <<session, cooling, control, fell>>
  BY DEF SettleTick
<1>3. CASE RunsCycle(w)
  <2>1. tick' = [tick EXCEPT ![Of(w)][job[w].index] = "STARTED"]
    BY <1>3 DEF SettleTick
  <2>2. pc' = [pc EXCEPT ![w] = "cycle"] /\ job' = job
    BY <1>3 DEF SettleTick, GoTo
  <2>3. "STARTED" \in TickStatuses
    BY DEF TickStatuses
  <2> QED BY <1>1, <1>2, <2>1, <2>2, <2>3, SaveInv
<1>4. CASE ~RunsCycle(w)
  <2>1. tick' = [tick EXCEPT ![Of(w)][job[w].index] = Unrun(w)]
    BY <1>4 DEF SettleTick
  <2>2. Unrun(w) \in TickStatuses /\ (Counted(Unrun(w)) => Unrun(w) \in Executed \cup {"SKIPPED"})
    BY DEF Unrun, TickStatuses, Counted
  <2>3. CASE Counted(Unrun(w))
    <3>1. pc' = [pc EXCEPT ![w] = "count"] /\ job' = job
      BY <1>4, <2>3 DEF SettleTick, GoTo
    <3> QED BY <1>1, <1>2, <2>1, <2>2, <2>3, <3>1, SaveInv
  <2>4. CASE ~Counted(Unrun(w))
    <3>1. Return(w)
      BY <1>4, <2>4 DEF SettleTick
    <3> QED BY <1>1, <1>2, <2>1, <2>2, <3>1, SaveInv
  <2> QED BY <2>3, <2>4
<1> QED BY <1>3, <1>4

LEMMA FinishTickInv ==
  ASSUME Inv, NEW w \in Workers, FinishTick(w)
  PROVE  Inv'
<1>1. ~job[w].auto /\ AtWork(w)
  BY DEF FinishTick, AtWork
<1>2. PICK status \in Executed : tick' = [tick EXCEPT ![Of(w)][job[w].index] = status]
  BY DEF FinishTick
<1>3. status \in TickStatuses
  BY DEF Executed, TickStatuses
<1>4. UNCHANGED <<session, cooling, control, fell>> /\ job' = job /\ pc' = [pc EXCEPT ![w] = "count"]
  BY DEF FinishTick, GoTo
<1> QED BY <1>1, <1>2, <1>3, <1>4, SaveInv

LEMMA CountInv ==
  ASSUME Inv, NEW w \in Workers, CountTick(w)
  PROVE  Inv'
<1>1. pc[w] = "count" /\ ~job[w].auto /\ AtWork(w) /\ Busy(w)
  BY DEF CountTick, Inv, Shape, AtWork, Busy
<1>0. PICK s \in Sessions : s = Of(w)
  BY <1>1, AtLast
<1> DEFINE n == session[s].tick_count
<1>2. /\ s \in Sessions /\ n \in Nat /\ job[w].index = n + 1 /\ Len(tick[s]) = n + 1
      /\ \A v \in Workers \ {w} : AtWork(v) => Of(v) # s
  BY <1>0, <1>1, AtLast
<1>3. /\ tick \in [Sessions -> Seq(TickStatuses)] /\ session \in [Sessions -> AutonomousRuntimeSession]
      /\ cooling \subseteq Sessions
  BY DEF Inv, TypeOK
<1>4. Dense(s) /\ tick[s][n + 1] \in Executed \cup {"SKIPPED"}
  BY <1>0, <1>1, <1>2 DEF Inv, Serial, Exact
<1>5. Return(w) /\ tick' = tick /\ cooling' = cooling /\ UNCHANGED <<control, fell>>
  BY DEF CountTick
<1>6. session' = [session EXCEPT ![s].tick_count = n + 1]
  BY <1>0, <1>2 DEF CountTick
<1>7. session'[s] \in AutonomousRuntimeSession /\ session'[s].tick_count = n + 1
      /\ session' = [session EXCEPT ![s] = session'[s]]
  <2> HIDE DEF n
  <2> DEFINE r == [session[s] EXCEPT !.tick_count = n + 1]
  <2>1. session[s] \in AutonomousRuntimeSession /\ n + 1 \in Nat
    BY <1>2, <1>3
  <2>2. r \in AutonomousRuntimeSession /\ r.tick_count = n + 1
    BY <2>1 DEF AutonomousRuntimeSession
  <2>3. session' = [session EXCEPT ![s] = r]
    BY <1>6
  <2> HIDE DEF r
  <2>4. session'[s] = r
    BY <1>3, <2>3
  <2> QED BY <2>2, <2>3, <2>4
<1>8. /\ pc' = [pc EXCEPT ![w] = pc'[w]] /\ job' = [job EXCEPT ![w] = job'[w]]
      /\ pc'[w] = "idle" /\ job'[w] \in Job /\ job'[w].auto = job[w].auto
  BY <1>1, <1>5, Returns
<1>9. Dense(s)'
  <2>1. \A i \in 1..(n + 1) : i \in 1..n \/ i = n + 1
    BY <1>2
  <2> QED BY <1>2, <1>4, <1>5, <1>7, <2>1 DEF Dense
<1>10. Exact(w)'
  BY <1>8 DEF Exact, AtWork
<1>11. Works(w, s)
  <2>1. tick' = [tick EXCEPT ![s] = tick'[s]] /\ tick'[s] \in Seq(TickStatuses)
    BY <1>2, <1>3, <1>5
  <2>2. session'[s].tick_count >= session[s].tick_count
    BY <1>2, <1>7
  <2> HIDE DEF n
  <2> QED BY <1>1, <1>3, <1>5, <1>7, <1>8, <2>1, <2>2 DEF Works
<1> HIDE DEF n
<1> QED BY <1>1, <1>2, <1>9, <1>10, <1>11, WorksInv

-------------------------------------------------------------------------------
(* A dispatch commits its tick, being the only one at work on its session. *)
LEMMA CommitInv ==
  ASSUME Inv, NEW w \in Workers, NEW status \in Executed \cup {"SKIPPED", "BLOCKED"},
         Busy(w), job[w].auto, Of(w) \in Sessions,
         job[w].index = session[Of(w)].tick_count + 1,
         Len(tick[Of(w)]) = session[Of(w)].tick_count,
         \A v \in Workers \ {w} : AtWork(v) => Of(v) # Of(w),
         Commit(w, status)
  PROVE  Inv'
<1>0. PICK s \in Sessions : s = Of(w)
  OBVIOUS
<1> DEFINE n == session[s].tick_count
           m == IF Counted(status) THEN n + 1 ELSE n
           o == Ordered(job[w].cadence, session[s].status)
<1>1. /\ tick \in [Sessions -> Seq(TickStatuses)] /\ session \in [Sessions -> AutonomousRuntimeSession]
      /\ cooling \subseteq Sessions /\ job \in [Workers -> Job]
  BY DEF Inv, TypeOK
<1>2. Dense(s)
  BY DEF Inv, Serial
<1>3. n \in Nat /\ m \in {n, n + 1} /\ m \in Nat /\ session[s].status \in SessionStatuses
  BY <1>1 DEF AutonomousRuntimeSession
<1>4. o \in SessionStatuses
  <2>1. job[w].cadence \in Cadence
    BY <1>1 DEF Job
  <2> QED BY <1>3, <2>1 DEF Ordered, SessionStatuses, Cadence
<1>5. tick' = [tick EXCEPT ![s] = Append(tick[s], status)]
  BY <1>0 DEF Commit
<1>6. session' = [session EXCEPT ![s] = [status |-> o, tick_count |-> m]]
  BY <1>0 DEF Commit
<1>7. cooling' \subseteq Sessions
  BY <1>1 DEF Commit, Cooled
<1>8. Return(w) /\ UNCHANGED <<control, fell>>
  BY DEF Commit
<1>9. /\ pc' = [pc EXCEPT ![w] = pc'[w]] /\ job' = [job EXCEPT ![w] = job'[w]]
      /\ pc'[w] = "pass" /\ job'[w] \in Job /\ job'[w].auto = job[w].auto
  BY <1>8, Returns
<1>10. status \in TickStatuses /\ (Counted(status) => status \in Executed \cup {"SKIPPED"})
  BY DEF Executed, TickStatuses, Counted
<1>11. tick'[s] = Append(tick[s], status) /\ tick[s] \in Seq(TickStatuses)
  BY <1>1, <1>5
<1>12. /\ tick'[s] \in Seq(TickStatuses) /\ Len(tick'[s]) = n + 1 /\ tick'[s][n + 1] = status
       /\ \A i \in 1..n : tick'[s][i] = tick[s][i]
  BY <1>0, <1>10, <1>11, OneMore
<1> HIDE DEF o
<1>13. session'[s].tick_count = m /\ session'[s] \in AutonomousRuntimeSession
  BY <1>1, <1>3, <1>4, <1>6 DEF AutonomousRuntimeSession
<1>14. Dense(s)'
  <2>1. CASE Counted(status)
    <3>1. m = n + 1 /\ \A i \in 1..(n + 1) : i \in 1..n \/ i = n + 1
      BY <1>3, <2>1
    <3> QED BY <1>2, <1>3, <1>10, <1>12, <1>13, <2>1, <3>1 DEF Dense
  <2>2. CASE ~Counted(status)
    BY <1>2, <1>3, <1>12, <1>13, <2>2 DEF Dense
  <2> QED BY <2>1, <2>2
<1>15. Exact(w)'
  BY <1>9 DEF Exact, AtWork
<1>16. Works(w, s)
  <2>1. tick' = [tick EXCEPT ![s] = tick'[s]] /\ session' = [session EXCEPT ![s] = session'[s]]
    BY <1>1, <1>5, <1>6
  <2>2. session'[s].tick_count >= session[s].tick_count
    BY <1>3, <1>13
  <2> HIDE DEF n, m
  <2> QED BY <1>7, <1>8, <1>9, <1>12, <1>13, <2>1, <2>2 DEF Works
<1> HIDE DEF n, m
<1> QED BY <1>0, <1>14, <1>15, <1>16, WorksInv

LEMMA DispatchInv ==
  ASSUME Inv, NEW w \in Workers, DispatchUnrun(w) \/ DispatchCycle(w)
  PROVE  Inv'
<1>1. MayCreate(w) /\ pc[w] = "create" /\ job[w].auto /\ Busy(w)
  BY DEF DispatchUnrun, DispatchCycle, MayCreate, Busy
<1>0. PICK s \in Sessions : s = Of(w)
  BY <1>1, NextInLine
<1>2. /\ s \in Sessions /\ job[w].index = session[s].tick_count + 1
      /\ Len(tick[s]) = session[s].tick_count /\ \A v \in Workers : AtWork(v) => Of(v) # s
  BY <1>0, <1>1, NextInLine
<1>3. CASE DispatchUnrun(w)
  <2>1. Commit(w, Unrun(w)) /\ Unrun(w) \in Executed \cup {"SKIPPED", "BLOCKED"}
    BY <1>3 DEF DispatchUnrun, Unrun
  <2> QED BY <1>0, <1>1, <1>2, <2>1, CommitInv
<1>4. CASE DispatchCycle(w)
  <2>1. /\ tick \in [Sessions -> Seq(TickStatuses)] /\ session \in [Sessions -> AutonomousRuntimeSession]
        /\ pc \in [Workers -> Points] /\ job \in [Workers -> Job] /\ cooling \subseteq Sessions
    BY DEF Inv, TypeOK
  <2>2. Dense(s)
    BY <1>2 DEF Inv, Serial
  <2>3. pc' = [pc EXCEPT ![w] = "cycle"] /\ job' = job /\ UNCHANGED <<rows, control, fell>>
    BY <1>4 DEF DispatchCycle, GoTo
  <2>4. tick' = tick /\ session' = session /\ cooling' = cooling
    BY <2>3 DEF rows
  <2>5. pc'[w] = "cycle" /\ job'[w] = job[w] /\ job[w].of = s
    BY <1>0, <2>1, <2>3 DEF Of
  <2>6. session[s] \in AutonomousRuntimeSession /\ session[s].tick_count \in Nat
    BY <1>2, <2>1 DEF AutonomousRuntimeSession
  <2>7. Works(w, s)
    <3>1. session' = [session EXCEPT ![s] = session'[s]] /\ tick' = [tick EXCEPT ![s] = tick'[s]]
      BY <1>2, <2>1, <2>4
    <3>2. tick'[s] \in Seq(TickStatuses)
      BY <1>2, <2>1, <2>4
    <3>3. job' = [job EXCEPT ![w] = job'[w]] /\ job'[w] \in Job
      BY <2>1, <2>3
    <3>4. session'[s].tick_count >= session[s].tick_count
      BY <2>4, <2>6
    <3> QED BY <1>1, <2>1, <2>3, <2>4, <2>5, <2>6, <3>1, <3>2, <3>3, <3>4 DEF Works
  <2>8. Dense(s)'
    BY <2>2, <2>4 DEF Dense
  <2>9. Exact(w)'
    BY <1>1, <1>2, <2>4, <2>5 DEF Exact, AtWork, Of
  <2> QED BY <1>1, <1>2, <2>7, <2>8, <2>9, WorksInv
<1> QED BY <1>3, <1>4

LEMMA FinishDispatchInv ==
  ASSUME Inv, NEW w \in Workers, FinishDispatch(w)
  PROVE  Inv' /\ Len(tick[Of(w)]) = session[Of(w)].tick_count
<1>1. pc[w] = "cycle" /\ job[w].auto /\ Busy(w) /\ AtWork(w)
  BY DEF FinishDispatch, Busy, AtWork
<1>2. PICK status \in Executed : Commit(w, status)
  BY DEF FinishDispatch
<1>3. /\ Of(w) \in Sessions /\ job[w].index = session[Of(w)].tick_count + 1
      /\ Len(tick[Of(w)]) = session[Of(w)].tick_count
      /\ \A v \in Workers \ {w} : AtWork(v) => Of(v) # Of(w)
  BY <1>1 DEF Inv, Shape, Serial, Exact, Apart
<1> QED BY <1>1, <1>2, <1>3, CommitInv

-------------------------------------------------------------------------------
LEMMA TickInv ==
  ASSUME Inv, NEW w \in Workers, Tick(w)
  PROVE  Inv'
<1>1. CASE LoadDispatch(w)
  <2>1. pc[w] = "load" /\ LoadTick(w, Of(w), job[w])
    BY <1>1 DEF LoadDispatch
  <2>2. Of(w) \in Sessions /\ job[w] \in Job /\ job[w].auto
    BY <2>1 DEF Inv, TypeOK, Shape
  <2>3. PICK s \in Sessions, j \in Job : s = Of(w) /\ j = job[w]
    BY <2>2
  <2> QED BY <2>1, <2>2, <2>3, LoadInv
<1>2. CASE DuplicateTick(w) \/ RaiseInCycle(w)
  BY <1>2, NoTickInv
<1>3. CASE DispatchUnrun(w) \/ DispatchCycle(w)
  BY <1>3, DispatchInv
<1> QED
  BY <1>1, <1>2, <1>3, CreateInv, SettleInv, FinishTickInv, CountInv, FinishDispatchInv DEF Tick

LEMMA AskInv ==
  ASSUME Inv, NEW c \in Callers, NEW s \in Sessions, RunTickRequest(c, s)
  PROVE  Inv'
<1>1. c \in Workers /\ c # Runner /\ LoadTick(c, s, NoJob)
  BY HeartbeatAssumption DEF RunTickRequest, Workers
<1>2. PICK j \in Job : j = NoJob
  BY DEF NoJob, Job, Cadence
<1> QED BY <1>1, <1>2, LoadInv

LEMMA InvStep == Inv /\ [Next]_vars => Inv'
<1> SUFFICES ASSUME Inv, [Next]_vars PROVE Inv'
  OBVIOUS
<1>1. ASSUME NEW w \in Workers, BeginPass(w) \/ Pass(w) \/ Tick(w) PROVE Inv'
  <2>1. CASE BeginPass(w) \/ Pass(w)
    BY <2>1, PassInv DEF Pass
  <2>2. CASE Tick(w)
    BY <2>2, TickInv
  <2> QED BY <1>1, <2>1, <2>2
<1>2. CASE UNCHANGED vars
  BY <1>2 DEF vars, rows, control, Inv, TypeOK, Shape, Busy, Of,
              Serial, Apart, Dense, Exact, AtWork
<1> QED BY <1>1, <1>2, RequestsInv, ThreadInv, RestartInv, AskInv DEF Next

(* The inductive invariant, of which the rest are consequences.            *)
LEMMA SpecInv == Spec => []Inv
BY InvInit, InvStep, PTL DEF Spec

(* Every variable keeps its type, for any number of sessions and requests: *)
(* no tick row has a status, and no session a count, that the code cannot  *)
(* save.                                                                   *)
THEOREM TypeCorrect == Spec => []TypeOK
<1>1. Inv => TypeOK
  BY DEF Inv
<1> QED BY <1>1, SpecInv, PTL

(* However passes, dispatches and tick requests of a session overlap, no   *)
(* two of its ticks are at work at once, its indices have no gap and its   *)
(* counted ticks were executed or skipped: the unique (session, index) of  *)
(* AutonomousRuntimeTick is all that sees to it.                           *)
THEOREM TicksAreSerial == Spec => []TicksSerial
<1>1. Inv => TicksSerial
  BY DEF Inv, Serial, Apart, Dense, TicksSerial
<1> QED BY <1>1, SpecInv, PTL

-------------------------------------------------------------------------------
(* A thread that ends of itself was told to; any other loss is recorded.   *)
LEMMA ThreadStep ==
  ASSUME Inv, RunningHasThread, [Next]_vars
  PROVE  RunningHasThread'
<1> USE HeartbeatAssumption DEF RunningHasThread, ThreadAlive
<1>0. Runner \in Workers /\ pc \in [Workers -> Points] /\ job \in [Workers -> Job]
      /\ (pc[Runner] = "leaving" => stopSet) /\ (Busy(Runner) => job[Runner].auto)
  BY DEF Workers, Inv, TypeOK, Shape
<1>1. CASE StartRunner \/ PauseRunner \/ StopRunner \/ SetStopEvent
  BY <1>1 DEF StartRunner, PauseRunner, StopRunner, SetStopEvent
<1>2. CASE StartThread
  <2>1. CASE pc[Runner] # "idle"
    BY <1>2, <2>1 DEF StartThread
  <2>2. CASE pc[Runner] = "idle"
    <3>1. pc' = [pc EXCEPT ![Runner] = "look"]
      BY <1>2, <2>2 DEF StartThread, GoTo
    <3> QED BY <1>0, <3>1
  <2> QED BY <2>1, <2>2
<1>3. CASE RunnerLeaves \/ RunnerEnds
  BY <1>0, <1>3 DEF RunnerLeaves, RunnerEnds, GoTo, control
<1>4. CASE Restart
  BY <1>4 DEF Restart
<1>5. CASE \E s \in Sessions : SetStatus(s) \/ CooldownExpires(s)
  BY <1>5 DEF SetStatus, CooldownExpires, control
(* A worker other than the thread leaves it alone, and the thread, at      *)
(* work, goes on.                                                          *)
<1>6. ASSUME NEW w \in Workers, UNCHANGED control, fell => fell',
             \E p \in Points : pc' = [pc EXCEPT ![w] = p] /\ (w = Runner => p # "idle" \/ fell')
      PROVE  RunningHasThread'
  <2>1. PICK p \in Points : pc' = [pc EXCEPT ![w] = p] /\ (w = Runner => p # "idle" \/ fell')
    BY <1>6
  <2>2. pc'[Runner] = IF w = Runner THEN p ELSE pc[Runner]
    BY <1>0, <2>1
  <2> QED BY <1>6, <2>1, <2>2 DEF control
<1>7. ASSUME NEW w \in Workers, Return(w), Busy(w), UNCHANGED control, UNCHANGED fell
      PROVE  RunningHasThread'
  <2>1. PICK p \in {"pass", "idle"} : pc' = [pc EXCEPT ![w] = p] /\ (job[w].auto => p = "pass")
    BY <1>7 DEF Return, GoTo
  <2>2. p \in Points
    BY DEF Points
  <2> QED BY <1>0, <1>6, <1>7, <2>1, <2>2
<1>8. ASSUME NEW w \in Workers, BeginPass(w) \/ Pass(w) PROVE RunningHasThread'
  <2>1. CASE BeginPass(w)
    <3>1. pc' = [pc EXCEPT ![w] = "pass"] /\ "pass" \in Points /\ UNCHANGED <<control, fell>>
      BY <2>1 DEF BeginPass, GoTo, Points
    <3> QED BY <1>6, <3>1
  <2>2. CASE EndPass(w)
    <3>1. PICK p \in {"look", "idle"} : pc' = [pc EXCEPT ![w] = p] /\ (w = Runner => p = "look")
      BY <2>2 DEF EndPass, GoTo
    <3>2. p \in Points /\ UNCHANGED <<control, fell>>
      BY <2>2 DEF EndPass, Points
    <3> QED BY <1>6, <3>1, <3>2
  <2>3. CASE RaiseInPass(w)
    <3>1. pc' = [pc EXCEPT ![w] = "idle"] /\ "idle" \in Points /\ UNCHANGED control
      BY <2>3 DEF RaiseInPass, GoTo, Points
    <3>2. (fell => fell') /\ (w = Runner => fell')
      BY <2>3 DEF RaiseInPass
    <3> QED BY <1>6, <3>1, <3>2
  <2>4. ASSUME NEW s \in Sessions, DispatchDueTick(w, s) PROVE RunningHasThread'
    <3>1. pc' = [pc EXCEPT ![w] = "load"] /\ "load" \in Points /\ UNCHANGED <<control, fell>>
      BY <2>4 DEF DispatchDueTick, GoTo, Points
    <3> QED BY <1>6, <3>1
  <2>5. ASSUME NEW s \in Sessions, PassOver(w, s) PROVE RunningHasThread'
    BY <2>5 DEF PassOver, control
  <2> QED BY <1>8, <2>1, <2>2, <2>3, <2>4, <2>5 DEF Pass
<1>9. ASSUME NEW w \in Workers, NEW s, NEW j, LoadTick(w, s, j) PROVE RunningHasThread'
  <2>1. pc' = [pc EXCEPT ![w] = "create"] /\ "create" \in Points /\ UNCHANGED <<control, fell>>
    BY <1>9 DEF LoadTick, GoTo, Points
  <2> QED BY <1>6, <2>1
<1>10. ASSUME NEW w \in Workers, Tick(w) PROVE RunningHasThread'
  <2>1. CASE LoadDispatch(w)
    BY <1>9, <2>1 DEF LoadDispatch
  <2>2. CASE DuplicateTick(w) \/ CountTick(w) \/ RaiseInCycle(w)
    BY <1>7, <2>2 DEF DuplicateTick, CountTick, RaiseInCycle, Busy
  <2>3. CASE CreateTick(w) \/ FinishTick(w) \/ DispatchCycle(w)
    <3>1. PICK p \in {"settle", "count", "cycle"} : pc' = [pc EXCEPT ![w] = p]
      BY <2>3 DEF CreateTick, FinishTick, DispatchCycle, GoTo
    <3>2. p \in Points /\ UNCHANGED <<control, fell>>
      BY <2>3 DEF CreateTick, FinishTick, DispatchCycle, Points
    <3> QED BY <1>6, <3>1, <3>2
  <2>4. CASE SettleTick(w)
    <3>1. Busy(w) /\ UNCHANGED <<control, fell>>
      BY <2>4 DEF SettleTick, Busy
    <3>2. CASE Return(w)
      BY <1>7, <3>1, <3>2
    <3>3. CASE ~Return(w)
      <4>1. PICK p \in {"count", "cycle"} : pc' = [pc EXCEPT ![w] = p]
        BY <2>4, <3>3 DEF SettleTick, GoTo
      <4>2. p \in Points
        BY DEF Points
      <4> QED BY <1>6, <3>1, <4>1, <4>2
    <3> QED BY <3>2, <3>3
  <2>5. CASE DispatchUnrun(w) \/ FinishDispatch(w)
    BY <1>7, <2>5 DEF DispatchUnrun, FinishDispatch, MayCreate, Commit, Busy
  <2> QED BY <1>10, <2>1, <2>2, <2>3, <2>4, <2>5 DEF Tick
<1>11. ASSUME NEW c \in Callers, NEW s \in Sessions, RunTickRequest(c, s) PROVE RunningHasThread'
  BY <1>9, <1>11 DEF RunTickRequest, Workers
<1>12. CASE UNCHANGED vars
  BY <1>12 DEF vars, control
<1> QED BY <1>1, <1>2, <1>3, <1>4, <1>5, <1>8, <1>10, <1>11, <1>12 DEF Next

(* start_runner, stop_runner and the end of the thread may interleave in   *)
(* any way: a runner that says RUNNING and has no thread was told to stop, *)
(* is being started, or lost its thread to an exception or a restart.      *)
THEOREM RunnerHasThread == Spec => []RunningHasThread
<1>1. Init => RunningHasThread
  BY DEF Init, RunningHasThread
<1>2. Inv /\ RunningHasThread /\ [Next]_vars => RunningHasThread'
  BY ThreadStep
<1> QED BY <1>1, <1>2, SpecInv, PTL DEF Spec

-------------------------------------------------------------------------------
(* While a session has a tick that is not counted, no index is free.       *)
LEMMA UncountedStep ==
  ASSUME Inv, [Next]_vars, NEW s \in Sessions, Len(tick[s]) > session[s].tick_count
  PROVE  Len(tick'[s]) = Len(tick[s])
<1>1. tick \in [Sessions -> Seq(TickStatuses)]
  BY DEF Inv, TypeOK
<1>2. CASE tick' = tick
  BY <1>2
<1>3. ASSUME NEW w \in Workers, NEW e,
             Of(w) \in Sessions, Len(tick[Of(w)]) = session[Of(w)].tick_count,
             tick' = [tick EXCEPT ![Of(w)] = Append(@, e)]
      PROVE  Len(tick'[s]) = Len(tick[s])
  <2>1. Of(w) # s
    <3>1. Len(tick[s]) \in Nat /\ session[s].tick_count \in Nat
      BY <1>1, LenProperties DEF Inv, TypeOK, AutonomousRuntimeSession
    <3> QED BY <1>3, <3>1
  <2> QED BY <1>1, <1>3, <2>1
<1>4. ASSUME NEW w \in Workers, NEW e, AtWork(w), ~job[w].auto,
             tick' = [tick EXCEPT ![Of(w)][job[w].index] = e]
      PROVE  Len(tick'[s]) = Len(tick[s])
  <2>1. Of(w) \in Sessions
    BY <1>4, AtLast
  <2>2. CASE Of(w) # s
    BY <1>1, <1>4, <2>1, <2>2
  <2>3. CASE Of(w) = s
    <3>1. tick'[s] = [tick[s] EXCEPT ![job[w].index] = e] /\ tick[s] \in Seq(TickStatuses)
      BY <1>1, <1>4, <2>3
    <3>2. DOMAIN tick'[s] = DOMAIN tick[s] /\ DOMAIN tick[s] = 1..Len(tick[s]) /\ Len(tick[s]) \in Nat
      BY <3>1, LenProperties
    <3>3. tick'[s] \in Seq({tick'[s][i] : i \in 1..Len(tick[s])})
      <4>1. tick'[s] \in [1..Len(tick[s]) -> {tick'[s][i] : i \in 1..Len(tick[s])}]
        BY <3>1, <3>2
      <4> QED BY <3>2, <4>1, SeqDef
    <3> QED BY <3>2, <3>3, LenProperties
  <2> QED BY <2>2, <2>3
<1>5. ASSUME NEW w \in Workers, Tick(w) PROVE Len(tick'[s]) = Len(tick[s])
  <2>1. CASE LoadDispatch(w) \/ DuplicateTick(w) \/ CountTick(w) \/ DispatchCycle(w) \/ RaiseInCycle(w)
    BY <1>2, <2>1 DEF LoadDispatch, LoadTick, DuplicateTick, CountTick, DispatchCycle, RaiseInCycle, rows
  <2>2. CASE CreateTick(w) \/ DispatchUnrun(w)
    <3>1. Of(w) \in Sessions /\ Len(tick[Of(w)]) = session[Of(w)].tick_count
      BY <2>2, NextInLine DEF CreateTick, DispatchUnrun
    <3>2. PICK e : tick' = [tick EXCEPT ![Of(w)] = Append(@, e)]
      BY <2>2 DEF CreateTick, DispatchUnrun, Commit
    <3> QED BY <1>3, <3>1, <3>2
  <2>3. CASE FinishDispatch(w)
    <3>1. pc[w] = "cycle"
      BY <2>3 DEF FinishDispatch
    <3>2. Of(w) \in Sessions /\ Len(tick[Of(w)]) = session[Of(w)].tick_count
      BY <2>3, <3>1, FinishDispatchInv DEF Inv, Shape, Busy
    <3>3. PICK e : tick' = [tick EXCEPT ![Of(w)] = Append(@, e)]
      BY <2>3 DEF FinishDispatch, Commit
    <3> QED BY <1>3, <3>2, <3>3
  <2>4. CASE SettleTick(w) \/ FinishTick(w)
    <3>1. AtWork(w) /\ ~job[w].auto
      BY <2>4 DEF SettleTick, FinishTick, AtWork, Inv, Shape
    <3>2. PICK e : tick' = [tick EXCEPT ![Of(w)][job[w].index] = e]
      BY <2>4 DEF SettleTick, FinishTick
    <3> QED BY <1>4, <3>1, <3>2
  <2> QED BY <1>5, <2>1, <2>2, <2>3, <2>4 DEF Tick
<1>6. CASE \/ StartRunner \/ StartThread \/ PauseRunner \/ StopRunner \/ SetStopEvent
           \/ RunnerLeaves \/ RunnerEnds \/ Restart
           \/ \E t \in Sessions : SetStatus(t) \/ CooldownExpires(t)
           \/ \E w \in Workers : BeginPass(w) \/ Pass(w)
           \/ \E c \in Callers, t \in Sessions : RunTickRequest(c, t)
           \/ UNCHANGED vars
  <2>1. tick' = tick
    BY <1>6 DEF StartRunner, StartThread, PauseRunner, StopRunner, SetStopEvent, RunnerLeaves,
                RunnerEnds, Restart, SetStatus, CooldownExpires, BeginPass, Pass, EndPass,
                RaiseInPass, DispatchDueTick, PassOver, RunTickRequest, LoadTick, rows, vars
  <2> QED BY <1>2, <2>1
<1> QED BY <1>5, <1>6 DEF Next

(* A tick that is not counted, because its session was not runnable or its *)
(* cycle fell, is the session's last, whatever the order of the steps:     *)
(* run_tick numbers the next one from tick_count, which it never advances. *)
THEOREM LastUncounted == Spec => UncountedIsLast
<1>1. Inv /\ [Next]_vars =>
        [ \A s \in Sessions :
            Len(tick[s]) > session[s].tick_count => Len(tick'[s]) = Len(tick[s]) ]_vars
  BY UncountedStep
<1> QED BY <1>1, SpecInv, PTL DEF Spec, UncountedIsLast

===============================================================================
