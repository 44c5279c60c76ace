------------------------------- MODULE GlobalMode -------------------------------
(***************************************************************************)
(* The global operating mode of the runtime governor.  It is one key of a  *)
(* JSON column, beside the enforcement computed for it, and whoever writes *)
(* a key writes the column: operating mode reviews, decisions applied by   *)
(* hand, transitions behind the stabilization gate, enforcement reviews.   *)
(* The gate asks how long the mode has been in place and how often it was  *)
(* switched, which it reads off the records of one of these ways only.     *)
(* Time passes in steps; an age is counted up to Old.                      *)
(***************************************************************************)
EXTENDS Naturals, Sequences, FiniteSets, SequencesExt

CONSTANTS
  Workers,     \* requests at work at once
  Nothing,     \* no mode
  Postures,    \* the postures reviews may find
  Feedbacks,   \* the feedback decisions there are
  MinDwell, RelaxDwell,  \* MIN_DWELL_SECONDS, RELAXATION_DWELL_SECONDS
  Window,      \* recent_switch_window_seconds
  FlapLimit    \* so many recent switches are flapping

Modes == {"BALANCED", "CAUTION", "MONITOR_ONLY", "THROTTLED", "RECOVERY_MODE", "BLOCKED"}
Backlogs == {"NORMAL", "CAUTION", "HIGH", "CRITICAL"}

(* What a review finds: a hard block or a stopped runtime, losses, pressure *)
(* of portfolio or exposure, the quality of the signals, how many states   *)
(* call for caution, the governance backlog.                               *)
GlobalRuntimePostureSnapshot ==
  [blocked : BOOLEAN, loss : {"NONE", "RECENT_LOSS", "REPEATED_LOSS"}, pressure : BOOLEAN,
   signal : {"NORMAL", "WEAK", "QUIET"}, flags : 0..7, backlog : Backlogs]

(* What a feedback decision asks for.  To keep the mode asks for nothing;  *)
(* so does a manual review, which is left out.                             *)
Asked ==
  [KEEP_CURRENT_GLOBAL_MODE |-> Nothing, SHIFT_TO_MORE_CONSERVATIVE_MODE |-> "CAUTION",
   SHIFT_TO_MONITOR_ONLY |-> "MONITOR_ONLY", ENTER_RECOVERY_MODE |-> "RECOVERY_MODE",
   RELAX_TO_CAUTION |-> "CAUTION", REDUCE_ADMISSION_AND_CADENCE |-> "CAUTION"]
RuntimeFeedbackDecision ==
  [type : DOMAIN Asked, hard_block : BOOLEAN, critical : BOOLEAN, backlog : Backlogs]

ASSUME GlobalModeAssumption ==
  /\ Nothing \notin Modes
  /\ Postures \subseteq GlobalRuntimePostureSnapshot
  /\ \A p \in Postures : p.backlog = "HIGH" => p.blocked \/ p.flags > 0
  /\ Feedbacks \subseteq RuntimeFeedbackDecision /\ IsFiniteSet(Workers)
  /\ {MinDwell, RelaxDwell, Window, FlapLimit} \subseteq Nat /\ FlapLimit > 0

VARIABLES
  metadata,  \* the mode in the column, and the mode its enforcement is for
  updated,   \* age of updated_at
  switches,  \* ages of the RuntimeFeedbackApplyRecords that switched in the window, the
             \* newest first
  last,      \* the last of them, however old
  pc, job,   \* where each request is, and what it holds
  since,     \* history: how long the mode has been what it is
  applied,   \* history: the mode applied last, since the runtime mode was set
  crossed,   \* history: requests at work that another save has overtaken
  lost       \* history: an overtaken enforcement review has put a mode back

row == <<metadata, updated>>
records == <<switches, last>>
history == <<since, applied, crossed, lost>>
vars == <<row, records, pc, job, history>>

Larger(a, b) == IF a > b THEN a ELSE b
LongDwell == (3 * RelaxDwell) \div 2
Old == Larger(LongDwell, Window + 1)
Ages == 0..Old

Metadata == [mode : Modes, enforced : Modes \cup {Nothing}]
(* What a request will save: the mode or the enforcement it has decided,   *)
(* and the other key as it was loaded.                                     *)
Gated == {"auto_safe", "feedback"}
Transitions == {"transition"} \cup Gated
Kinds == {"none", "review", "apply", "enforcement"} \cup Transitions
Job == [kind : Kinds, target : Modes, keeps : Modes \cup {Nothing}]
Points == {"idle", "seen", "loaded"}

(* A column without either key.                                            *)
Bare == [mode |-> "BALANCED", enforced |-> Nothing]
NoJob == [kind |-> "none", target |-> "BALANCED", keeps |-> Nothing]

Init ==
  /\ metadata = Bare /\ updated = 0
  /\ switches = << >> /\ last = [mode |-> Nothing, age |-> Old]
  /\ pc = [w \in Workers |-> "idle"] /\ job = [w \in Workers |-> NoJob]
  /\ since = 0 /\ applied = Nothing /\ crossed = {} /\ lost = FALSE

Older(age) == IF age < Old THEN age + 1 ELSE Old

(* Mutant: the window is open at its far end.                              *)
InWindowOnEdge(age) == age <= Window + 1

InWindow(age) == age <= Window

(* The newest switch comes first: those still in the window are a prefix.  *)
Tick ==
  /\ updated' = Older(updated) /\ since' = Older(since)
  /\ last' = [last EXCEPT !.age = Older(@)]
  /\ \E n \in 0..Len(switches) :
       /\ \A i \in 1..Len(switches) : i <= n <=> InWindow(Older(switches[i]))
       /\ switches' = [i \in 1..n |-> Older(switches[i])]
  /\ UNCHANGED <<metadata, pc, job, applied, crossed, lost>>

Hold(w, point, j) == pc' = [pc EXCEPT ![w] = point] /\ job' = [job EXCEPT ![w] = j]
Return(w) == Hold(w, "idle", NoJob)

(* A save of the column.                                                   *)
Saves(column) ==
  /\ metadata' = column /\ updated' = 0
  /\ since' = IF column.mode = metadata.mode THEN since ELSE 0
AtWork == {w \in Workers : pc[w] # "idle"}

(* set_runtime_mode, by an operator or by reconciliation, writes a column  *)
(* of its own: the mode is BALANCED again and nothing is enforced.         *)
SetRuntimeMode ==
  /\ Saves(Bare)
  /\ applied' = Nothing /\ crossed' = AtWork /\ lost' = FALSE
  /\ UNCHANGED <<records, pc, job>>

-------------------------------------------------------------------------------
(* Operating mode reviews.  The conditions are asked in this order, and the *)
(* first that holds has its mode; Nothing is a manual review.              *)
Rules(p) ==
  << <<p.blocked, "BLOCKED">>, <<p.loss = "REPEATED_LOSS", "RECOVERY_MODE">>,
     <<p.pressure, "THROTTLED">>, <<p.signal = "QUIET", "MONITOR_ONLY">>,
     <<p.flags >= 2, "CAUTION">>, <<p.flags = 1 /\ p.signal = "WEAK", Nothing>>,
     <<p.backlog = "CAUTION", "CAUTION">>, <<p.backlog = "HIGH", "THROTTLED">>,
     <<p.backlog = "CRITICAL", Nothing>>, <<TRUE, "BALANCED">> >>
TargetMode ==
  [p \in Postures |-> Rules(p)[SelectInSeq(Rules(p), LAMBDA rule : rule[1])][2]]

Heavy == {"HIGH", "CRITICAL"}
Held(current, target, p) ==
  \/ current = "THROTTLED" /\ target = "CAUTION" /\ p.backlog \in Heavy
  \/ current = "RECOVERY_MODE" /\ target = "BALANCED" /\ (p.loss # "NONE" \/ p.backlog \in Heavy)
  \/ /\ current \in {"RECOVERY_MODE", "THROTTLED"}
     /\ target \in {"CAUTION", "BALANCED", "MONITOR_ONLY"} /\ p.backlog = "CRITICAL"
WithHysteresis(current, p) ==
  LET target == TargetMode[p] IN IF Held(current, target, p) THEN current ELSE target

(* A review decides on the mode it has read ...                            *)
DecideMode(w, p) ==
  /\ pc[w] = "idle" /\ TargetMode[p] # Nothing
  /\ Hold(w, "seen", [NoJob EXCEPT !.kind = "review", !.target = WithHysteresis(metadata.mode, p)])
  /\ UNCHANGED <<row, records, history>>

(* Mutant: the enforcement is not carried over.                            *)
WithModeAlone(mode, enforced) == [mode |-> mode, enforced |-> Nothing]

WithMode(mode, enforced) == [mode |-> mode, enforced |-> enforced]

(* ... and applies it to the column as it is then, under a row lock.       *)
ApplyReview(w) ==
  /\ pc[w] = "seen" /\ job[w].kind = "review"
  /\ Saves(WithMode(job[w].target, metadata.enforced))
  /\ applied' = job[w].target /\ crossed' = AtWork \ {w} /\ lost' = FALSE
  /\ Return(w) /\ UNCHANGED records

LoadFor(w, kind, target) ==
  /\ pc[w] = "idle" /\ target # Nothing
  /\ Hold(w, "loaded", [kind |-> kind, target |-> target, keeps |-> metadata.enforced])
  /\ UNCHANGED <<row, records, history>>

(* A decision of some review, of whatever day, applied by hand: nothing    *)
(* asks whether it still fits.                                             *)
Decided ==
  {WithHysteresis(current, p) : current \in Modes, p \in {q \in Postures : TargetMode[q] # Nothing}}
LoadDecision(w) == \E mode \in Decided : LoadFor(w, "apply", mode)

-------------------------------------------------------------------------------
(* The stabilization gate.                                                 *)
Level ==
  [BALANCED |-> 0, CAUTION |-> 1, MONITOR_ONLY |-> 2, THROTTLED |-> 3, RECOVERY_MODE |-> 4,
   BLOCKED |-> 5]
Relaxes(current, target) == Level[target] < Level[current]
Protective == {"RECOVERY_MODE", "BLOCKED"}

(* Mutant: the last record tells, whatever mode it switched to.            *)
TimeOfLastSwitch == IF last.mode # Nothing THEN last.age ELSE updated

TimeInMode == IF last.mode = metadata.mode THEN last.age ELSE updated

(* Mutant: one switch more.                                                *)
FlappingLate == Len(switches) > FlapLimit

Flapping == Len(switches) >= FlapLimit

Allows(f, target) ==
  LET relaxes == Relaxes(metadata.mode, target) IN
  \/ target = "BLOCKED"
  \/ ~Flapping /\ target \in Protective /\ target # metadata.mode
  \/ /\ ~Flapping /\ TimeInMode >= MinDwell
     /\ relaxes => /\ f.backlog # "CRITICAL"
                    /\ TimeInMode >= IF f.backlog = "HIGH" THEN LongDwell ELSE RelaxDwell

(* What a stabilization run makes of a feedback decision.                  *)
Stabilized(f) == IF f.hard_block /\ f.critical THEN "BLOCKED" ELSE Asked[f.type]

(* An apply decision, built in the mode there is or, if it is resolved     *)
(* later, in the mode there was then.                                      *)
BuildsApply(f, current) ==
  /\ Asked[f.type] # Nothing
  /\ f.hard_block => f.type = "ENTER_RECOVERY_MODE"
  /\ ~(current = "RECOVERY_MODE" /\ Asked[f.type] = "CAUTION" /\ f.type # "RELAX_TO_CAUTION")

(* A stored decision that was allowed once, on whatever day, ...           *)
LoadTransition(w, f) ==
  /\ Stabilized(f) # metadata.mode
  /\ LoadFor(w, "transition", Stabilized(f))

(* ... one that a run decides and applies at once ...                      *)
LoadAutoSafe(w, f) ==
  /\ Stabilized(f) \notin {Nothing, metadata.mode} /\ Allows(f, Stabilized(f))
  /\ LoadFor(w, "auto_safe", Stabilized(f))

(* ... and one behind a feedback apply decision.                           *)
LoadFeedback(w, f) ==
  /\ \E current \in Modes : BuildsApply(f, current)
  /\ Asked[f.type] # metadata.mode /\ Allows(f, Asked[f.type])
  /\ LoadFor(w, "feedback", Asked[f.type])

(* A feedback apply that finds the mode it asks for passes by the gate and *)
(* saves that mode all the same.                                           *)
LoadFeedbackKept(w, f) ==
  /\ \E current \in Modes : BuildsApply(f, current)
  /\ Asked[f.type] = metadata.mode
  /\ LoadFor(w, "apply", Asked[f.type])

(* Mutant: the mode that was enforced is saved as well.                    *)
EnforcedWithMode(enforced, mode) == [mode |-> enforced, enforced |-> enforced]

(* What an enforcement review puts into the column.                        *)
Enforced(enforced, mode) == [mode |-> mode, enforced |-> enforced]

(* The saves of one transaction: the column as it was loaded, with the     *)
(* mode; after a transition the enforcement review loads and saves it, and *)
(* then the first copy is saved again, with the id of the apply record.    *)
SavedInTurn(j) ==
  LET copy == WithMode(j.target, j.keeps) IN
  IF j.kind \in Transitions THEN <<copy, Enforced(j.target, copy.mode), copy>> ELSE <<copy>>

(* A feedback apply leaves a record of the switch.                         *)
ApplyMode(w) ==
  /\ pc[w] = "loaded" /\ job[w].kind \in {"apply"} \cup Transitions
  /\ Saves(Last(SavedInTurn(job[w])))
  /\ applied' = job[w].target /\ crossed' = AtWork \ {w} /\ lost' = FALSE
  /\ IF job[w].kind = "feedback"
     THEN switches' = <<0>> \o switches /\ last' = [mode |-> job[w].target, age |-> 0]
     ELSE UNCHANGED records
  /\ Return(w)

-------------------------------------------------------------------------------
(* Enforcement reviews on request: the mode is read first, the column      *)
(* after the impacts and decisions of all modules are written.             *)
BeginEnforcement(w) ==
  /\ pc[w] = "idle"
  /\ Hold(w, "seen", [NoJob EXCEPT !.kind = "enforcement", !.target = metadata.mode])
  /\ UNCHANGED <<row, records, history>>

LoadEnforcement(w) ==
  /\ pc[w] = "seen" /\ job[w].kind = "enforcement"
  /\ Hold(w, "loaded", [job[w] EXCEPT !.keeps = metadata.mode])
  /\ crossed' = crossed \ {w}
  /\ UNCHANGED <<row, records, since, applied, lost>>

SaveEnforcement(w) ==
  /\ pc[w] = "loaded" /\ job[w].kind = "enforcement"
  /\ Saves(Enforced(job[w].target, job[w].keeps))
  /\ crossed' = AtWork \ {w} /\ lost' = (lost \/ w \in crossed)
  /\ Return(w) /\ UNCHANGED <<records, applied>>

Next ==
  \/ Tick \/ SetRuntimeMode
  \/ \E w \in Workers :
       \/ ApplyReview(w) \/ ApplyMode(w)
       \/ BeginEnforcement(w) \/ LoadEnforcement(w) \/ SaveEnforcement(w)
       \/ LoadDecision(w)
       \/ \E p \in Postures : DecideMode(w, p)
       \/ \E f \in Feedbacks : LoadTransition(w, f) \/ LoadAutoSafe(w, f) \/ LoadFeedback(w, f)
                                   \/ LoadFeedbackKept(w, f)

Spec == Init /\ [][Next]_vars

-------------------------------------------------------------------------------
(* Type invariant.                                                         *)
TypeOK ==
  /\ metadata \in Metadata /\ updated \in Ages
  /\ switches \in Seq(0..Window)
  /\ last \in [mode : Modes \cup {Nothing}, age : Ages]
  /\ pc \in [Workers -> Points] /\ job \in [Workers -> Job]
  /\ since \in Ages /\ applied \in Modes \cup {Nothing}
  /\ crossed \subseteq Workers /\ lost \in BOOLEAN

(* The mode in force is the one applied last, or BALANCED after the        *)
(* runtime mode was set, whoever wrote the column since, unless an         *)
(* enforcement review saved a column that had been overtaken.              *)
ModeIsLastApplied ==
  metadata.mode = (IF applied = Nothing THEN "BALANCED" ELSE applied) \/ lost

(* A request that passed the gate and has not been overtaken relaxes only  *)
(* a mode that has been in place for the relaxation dwell, though the gate *)
(* goes by records that leave out most switches.  It is deceived when the  *)
(* mode came back after the last switch on record; and RECOVERY_MODE        *)
(* counts as an entry, also from BLOCKED.                                  *)
CameBack == last.mode = metadata.mode /\ since < last.age
RelaxesAfterDwell ==
  \A w \in Workers \ crossed :
    /\ pc[w] = "loaded" /\ job[w].kind \in Gated
    /\ Relaxes(metadata.mode, job[w].target) /\ job[w].target \notin Protective
    => since >= RelaxDwell \/ CameBack

(* Nothing serializes the requests that pass the gate: each may add one    *)
(* switch to those the limit allows, and no more.                          *)
FlappingIsBounded == Len(switches) < FlapLimit + Cardinality(Workers)

(* Whoever writes another key of the column puts the enforcement back as   *)
(* it is: reviews and decisions applied by hand change the mode without    *)
(* it.  Only an overtaken request brings back an old enforcement.          *)
EnforcementKept ==
  [][ metadata'.enforced # metadata.enforced =>
        \/ applied' = Nothing
        \/ \E w \in Workers : /\ pc[w] = "loaded" /\ pc'[w] = "idle"
                             /\ \/ job[w].kind \in {"enforcement"} \cup Transitions
                                \/ w \in crossed ]_vars

(* An applied transition refreshes the enforcement, as its apply record    *)
(* says of itself: the mode enforced then is the mode it switched to.      *)
TransitionRefreshes ==
  [][ \A w \in Workers \ crossed :
        pc[w] = "loaded" /\ job[w].kind \in Transitions /\ pc'[w] = "idle"
        => metadata'.enforced = job[w].target ]_vars
===============================================================================
