--------------------------- MODULE GlobalMode_proofs ---------------------------
(***************************************************************************)
(* Proofs about GlobalMode, for any number of requests, all postures and   *)
(* feedback decisions, and any dwells, window and limit: every property    *)
(* its run checks.                                                         *)
(***************************************************************************)
EXTENDS GlobalMode, SequenceTheorems, FiniteSetTheorems, TLAPS

(* What a loaded request saves beside its mode has the type of that key.   *)
Shape ==
  \A w \in Workers : pc[w] = "loaded" /\ job[w].kind = "enforcement" => job[w].keeps \in Modes

(* A request that is not overtaken holds the other key as it still is.     *)
Fresh ==
  \A w \in Workers \ crossed :
    pc[w] = "loaded" =>
      job[w].keeps = IF job[w].kind = "enforcement" THEN metadata.mode ELSE metadata.enforced

(* The requests that passed the gate and have not left their record yet.   *)
ToSwitch == {w \in Workers : pc[w] = "loaded" /\ job[w].kind = "feedback"}
Bounded == Len(switches) + Cardinality(ToSwitch) < FlapLimit + Cardinality(Workers)

Inv ==
  /\ TypeOK /\ Shape /\ Fresh
  /\ updated <= since
  /\ ModeIsLastApplied /\ RelaxesAfterDwell /\ Bounded

-------------------------------------------------------------------------------
(* What the operators of the model return.                                 *)

LEMMA OldIsLast ==
  /\ Old \in Nat /\ LongDwell \in Nat
  /\ RelaxDwell <= LongDwell /\ LongDwell <= Old /\ Window < Old
<1> USE GlobalModeAssumption
<1>1. RelaxDwell \in Nat /\ Window \in Nat
  OBVIOUS
<1>2. LongDwell \in Nat /\ RelaxDwell <= LongDwell
  BY <1>1 DEF LongDwell
<1> QED BY <1>1, <1>2 DEF Old, Larger

LEMMA OlderType ==
  ASSUME NEW age \in Ages
  PROVE  Older(age) \in Ages /\ Older(age) >= age
BY OldIsLast DEF Older, Ages

LEMMA OldersOrder ==
  ASSUME NEW a \in Ages, NEW b \in Ages
  PROVE  /\ a <= b => Older(a) <= Older(b)
         /\ a < b => Older(a) < Older(b) \/ Older(a) = Old
BY OldIsLast DEF Older, Ages

LEMMA OneHeld ==
  ASSUME NEW S, NEW T, NEW f \in [S -> T], NEW s \in S, NEW e \in T
  PROVE  /\ [f EXCEPT ![s] = e] \in [S -> T]
         /\ [f EXCEPT ![s] = e][s] = e
         /\ \A r \in S \ {s} : [f EXCEPT ![s] = e][r] = f[r]
OBVIOUS

LEMMA MinIsIn ==
  ASSUME NEW I \in SUBSET Nat, I # {}
  PROVE  Min(I) \in I
<1> DEFINE Less == {ss \in Nat \X Nat : ss[1] < ss[2]}
<1>1. IsWellFoundedOn(Less, Nat)
  BY NatLessThanWellFounded DEF OpToRel
<1> HIDE DEF Less
<1>2. PICK x \in I : \A y \in I : ~(<<y, x>> \in Less)
  BY <1>1, WFMin
<1>3. \A y \in I : x <= y
  <2> TAKE y \in I
  <2>1. y \in Nat /\ x \in Nat /\ <<y, x>> \notin Less
    BY <1>2
  <2>2. ~(y < x)
    BY <2>1 DEF Less
  <2> QED BY <2>1, <2>2
<1> QED BY <1>3 DEF Min

LEMMA FirstRule ==
  ASSUME NEW rules, {i \in 1..Len(rules) : rules[i][1]} # {}
  PROVE  SelectInSeq(rules, LAMBDA rule : rule[1]) = Min({i \in 1..Len(rules) : rules[i][1]})
BY DEF SelectInSeq

LEMMA TargetType ==
  ASSUME NEW p \in Postures
  PROVE  TargetMode[p] \in Modes \cup {Nothing}
<1> DEFINE I == {i \in 1..Len(Rules(p)) : Rules(p)[i][1]}
<1>1. Len(Rules(p)) = 10 /\ Rules(p)[10][1] = TRUE
  BY DEF Rules
<1>2. I # {} /\ I \subseteq 1..10
  BY <1>1
<1>3. SelectInSeq(Rules(p), LAMBDA rule : rule[1]) = Min(I)
  BY <1>2, FirstRule
<1> HIDE DEF I
<1>4. Min(I) \in 1..10
  <2>1. I \in SUBSET Nat
    BY <1>2
  <2> QED BY <1>2, <2>1, MinIsIn
<1>5. \A i \in 1..10 : Rules(p)[i][2] \in Modes \cup {Nothing}
  BY DEF Rules, Modes
<1> QED BY <1>3, <1>4, <1>5 DEF TargetMode

LEMMA HysteresisType ==
  ASSUME NEW current \in Modes, NEW p \in Postures, TargetMode[p] # Nothing
  PROVE  WithHysteresis(current, p) \in Modes
BY TargetType DEF WithHysteresis

LEMMA AskedType ==
  ASSUME NEW f \in Feedbacks
  PROVE  /\ Asked[f.type] \in (Modes \cup {Nothing}) \ {"BLOCKED"}
         /\ Stabilized(f) \in Modes \cup {Nothing}
<1>1. f.type \in DOMAIN Asked
  BY GlobalModeAssumption DEF RuntimeFeedbackDecision
<1>2. Asked[f.type] \in (Modes \cup {Nothing}) \ {"BLOCKED"}
  BY <1>1, GlobalModeAssumption DEF Asked, Modes
<1> QED BY <1>2 DEF Stabilized, Modes

-------------------------------------------------------------------------------
(* How a request's step changes what the requests hold.                    *)

LEMMA HeldType ==
  ASSUME TypeOK, NEW w \in Workers, NEW point \in Points, NEW j \in Job, Hold(w, point, j)
  PROVE  /\ pc' \in [Workers -> Points] /\ job' \in [Workers -> Job]
         /\ pc'[w] = point /\ job'[w] = j
         /\ \A v \in Workers \ {w} : pc'[v] = pc[v] /\ job'[v] = job[v]
<1>1. pc \in [Workers -> Points] /\ job \in [Workers -> Job]
  BY DEF TypeOK
<1>2. pc' = [pc EXCEPT ![w] = point] /\ job' = [job EXCEPT ![w] = j]
  BY DEF Hold
<1>3. /\ pc' \in [Workers -> Points] /\ pc'[w] = point
      /\ \A v \in Workers \ {w} : pc'[v] = pc[v]
  BY <1>1, <1>2, OneHeld
<1>4. /\ job' \in [Workers -> Job] /\ job'[w] = j
      /\ \A v \in Workers \ {w} : job'[v] = job[v]
  BY <1>1, <1>2, OneHeld
<1> QED BY <1>3, <1>4

LEMMA NoJobType == NoJob \in Job
BY DEF NoJob, Job, Kinds, Modes

LEMMA ReturnType ==
  ASSUME TypeOK, NEW w \in Workers, Return(w)
  PROVE  /\ pc' \in [Workers -> Points] /\ job' \in [Workers -> Job]
         /\ pc'[w] = "idle"
         /\ \A v \in Workers \ {w} : pc'[v] = pc[v] /\ job'[v] = job[v]
<1>1. "idle" \in Points
  BY DEF Points
<1> QED BY <1>1, HeldType, NoJobType DEF Return

LEMMA SavesType ==
  ASSUME TypeOK, NEW column \in Metadata, Saves(column)
  PROVE  metadata' \in Metadata /\ updated' \in Ages /\ since' \in Ages /\ updated' <= since'
<1>1. 0 \in Ages /\ since \in Ages /\ \A a \in Ages : 0 <= a
  BY OldIsLast DEF Ages, TypeOK
<1> QED BY <1>1 DEF Saves

(* A save overtakes every request at work: none is left to be fresh.       *)
LEMMA AllCrossed ==
  ASSUME \A v \in Workers : pc'[v] = "idle" \/ v \in crossed'
  PROVE  Fresh' /\ RelaxesAfterDwell'
<1>1. Fresh'
  BY DEF Fresh
<1>2. RelaxesAfterDwell'
  BY DEF RelaxesAfterDwell
<1> QED BY <1>1, <1>2

(* The records and the requests that will add to them: one less of these   *)
(* makes room for one more of those.                                       *)
LEMMA ToSwitchType ==
  /\ IsFiniteSet(ToSwitch) /\ Cardinality(ToSwitch) \in Nat
  /\ Cardinality(ToSwitch) <= Cardinality(Workers) /\ Cardinality(Workers) \in Nat
<1>1. IsFiniteSet(Workers) /\ ToSwitch \subseteq Workers
  BY GlobalModeAssumption DEF ToSwitch
<1> QED BY <1>1, FS_Subset, FS_CardinalityType

LEMMA BoundedStays ==
  ASSUME Inv, NEW w \in Workers, switches' = switches,
         \A v \in Workers \ {w} : pc'[v] = pc[v] /\ job'[v] = job[v],
         pc'[w] # "loaded" \/ job'[w].kind # "feedback"
  PROVE  Bounded'
<1>1. ToSwitch' = ToSwitch \ {w}
  BY DEF ToSwitch
<1>2. Cardinality(ToSwitch') <= Cardinality(ToSwitch) /\ Cardinality(ToSwitch') \in Nat
  BY <1>1, ToSwitchType, FS_Subset, FS_CardinalityType
<1>3. Len(switches) \in Nat
  BY LenProperties DEF Inv, TypeOK
<1>4. FlapLimit \in Nat
  BY GlobalModeAssumption
<1> QED BY <1>2, <1>3, <1>4, ToSwitchType DEF Bounded, Inv

-------------------------------------------------------------------------------
(* The inductive invariant holds at first and every step keeps it.         *)

LEMMA InvInit == Init => Inv
<1> SUFFICES ASSUME Init PROVE Inv
  OBVIOUS
<1>1. TypeOK
  <2>1. 0 \in Ages /\ Old \in Ages
    BY OldIsLast DEF Ages
  <2>2. metadata \in Metadata
    BY DEF Init, Bare, Metadata, Modes
  <2>3. pc \in [Workers -> Points] /\ job \in [Workers -> Job]
    BY NoJobType DEF Init, Points
  <2>4. last \in [mode : Modes \cup {Nothing}, age : Ages]
    BY <2>1 DEF Init
  <2>5. switches \in Seq(0..Window)
    BY EmptySeq DEF Init
  <2>6. lost \in BOOLEAN
    BY DEF Init
  <2> QED BY <2>1, <2>2, <2>3, <2>4, <2>5, <2>6 DEF Init, TypeOK
<1>2. Shape /\ Fresh /\ RelaxesAfterDwell
  BY DEF Init, Shape, Fresh, RelaxesAfterDwell
<1>3. updated <= since
  BY DEF Init
<1>4. ModeIsLastApplied
  BY DEF Init, ModeIsLastApplied, Bare
<1>5. Bounded
  <2>1. ToSwitch = {}
    BY DEF Init, ToSwitch
  <2>2. FlapLimit \in Nat /\ FlapLimit > 0
    BY GlobalModeAssumption
  <2>3. Len(switches) = 0
    BY DEF Init
  <2> QED BY <2>1, <2>2, <2>3, FS_EmptySet, ToSwitchType DEF Bounded
<1> QED BY <1>1, <1>2, <1>3, <1>4, <1>5 DEF Inv

(* Ages grow together, and the records that leave the window were a suffix.*)
LEMMA TickInv ==
  ASSUME Inv, Tick
  PROVE  Inv'
<1> USE DEF Inv
<1>1. updated \in Ages /\ since \in Ages /\ last.age \in Ages
  BY DEF TypeOK
<1>2. updated' \in Ages /\ since' \in Ages /\ updated' <= since'
  BY <1>1, OlderType, OldersOrder DEF Tick
<1>3. last' \in [mode : Modes \cup {Nothing}, age : Ages] /\ last'.mode = last.mode
      /\ last'.age = Older(last.age)
  BY <1>1, OlderType DEF Tick, TypeOK
<1>4. switches' \in Seq(0..Window) /\ Len(switches') <= Len(switches) /\ Len(switches') \in Nat
  <2>1. PICK n \in 0..Len(switches) :
          /\ \A i \in 1..Len(switches) : i <= n <=> InWindow(Older(switches[i]))
          /\ switches' = [i \in 1..n |-> Older(switches[i])]
    BY DEF Tick
  <2>2. Len(switches) \in Nat /\ switches \in [1..Len(switches) -> 0..Window]
    BY LenProperties DEF TypeOK
  <2>3. ASSUME NEW i \in 1..n PROVE Older(switches[i]) \in 0..Window
    <3>1. i \in 1..Len(switches) /\ i <= n
      BY <2>2
    <3>2. switches[i] \in Ages /\ InWindow(Older(switches[i]))
      BY <2>1, <2>2, <3>1, OldIsLast, GlobalModeAssumption DEF Ages
    <3>3. Older(switches[i]) \in Nat /\ Window \in Nat
      <4>1. Older(switches[i]) \in 0..Old /\ Old \in Nat
        BY <3>2, OlderType, OldIsLast DEF Ages
      <4> QED BY <4>1, GlobalModeAssumption
    <3> QED BY <3>2, <3>3 DEF InWindow
  <2>4. n \in Nat /\ n <= Len(switches)
    BY <2>2
  <2>5. [i \in 1..n |-> Older(switches[i])] \in Seq(0..Window)
    BY <2>3, <2>4, IsASeq
  <2>6. Len(switches') = n
    BY <2>1, <2>4
  <2> QED BY <2>1, <2>4, <2>5, <2>6
<1>5. TypeOK'
  BY <1>2, <1>3, <1>4 DEF Tick, TypeOK
<1>6. Shape' /\ Fresh' /\ ModeIsLastApplied'
  BY DEF Tick, Shape, Fresh, ModeIsLastApplied
<1>7. RelaxesAfterDwell'
  <2>1. since >= RelaxDwell => since' >= RelaxDwell
    BY <1>1, <1>2, OlderType, GlobalModeAssumption DEF Tick, Ages
  <2>2. CameBack => CameBack' \/ since' >= RelaxDwell
    BY <1>1, <1>3, OldersOrder, OldIsLast, GlobalModeAssumption DEF Tick, CameBack
  <2> QED BY <2>1, <2>2 DEF Tick, RelaxesAfterDwell
<1>8. Bounded'
  <2>1. ToSwitch' = ToSwitch
    BY DEF ToSwitch, Tick
  <2>2. Len(switches) \in Nat
    BY LenProperties DEF TypeOK
  <2>3. FlapLimit \in Nat
    BY GlobalModeAssumption
  <2> QED BY <1>4, <2>1, <2>2, <2>3, ToSwitchType DEF Bounded
<1> QED BY <1>2, <1>5, <1>6, <1>7, <1>8

LEMMA SetRuntimeModeInv ==
  ASSUME Inv, SetRuntimeMode
  PROVE  Inv'
<1> USE DEF Inv
<1>1. Bare \in Metadata
  BY DEF Bare, Metadata, Modes
<1>2. metadata' \in Metadata /\ updated' \in Ages /\ since' \in Ages /\ updated' <= since'
  BY <1>1, SavesType DEF SetRuntimeMode
<1>3. TypeOK'
  BY <1>2 DEF SetRuntimeMode, TypeOK, records, AtWork
<1>4. Fresh' /\ RelaxesAfterDwell'
  BY AllCrossed DEF SetRuntimeMode, AtWork
<1>5. Shape' /\ ModeIsLastApplied'
  BY DEF SetRuntimeMode, Saves, Bare, Shape, ModeIsLastApplied
<1>6. Bounded'
  BY DEF SetRuntimeMode, records, Bounded, ToSwitch
<1> QED BY <1>2, <1>3, <1>4, <1>5, <1>6

(* A request that goes on and saves nothing.                               *)
LEMMA HoldInv ==
  ASSUME Inv, NEW w \in Workers, NEW point \in Points, NEW j \in Job, Hold(w, point, j),
         UNCHANGED <<row, records, since, applied, lost>>,
         crossed' = crossed \/ crossed' = crossed \ {w},
         point = "loaded" =>
           /\ j.kind = "enforcement" => j.keeps = metadata.mode
           /\ j.kind # "enforcement" => j.keeps = metadata.enforced
           /\ j.kind \in Gated /\ Relaxes(metadata.mode, j.target) /\ j.target \notin Protective
                => TimeInMode >= RelaxDwell
           /\ j.kind = "feedback" => ~Flapping
  PROVE  Inv'
<1> USE DEF Inv, row, records
<1>1. /\ pc' \in [Workers -> Points] /\ job' \in [Workers -> Job]
      /\ pc'[w] = point /\ job'[w] = j
      /\ \A v \in Workers \ {w} : pc'[v] = pc[v] /\ job'[v] = job[v]
  BY HeldType
<1>2. TypeOK'
  BY <1>1 DEF TypeOK
<1>3. metadata.mode \in Modes
  BY DEF TypeOK, Metadata
<1>4. Shape'
  BY <1>1, <1>3 DEF Shape
<1>5. Fresh'
  BY <1>1 DEF Fresh
<1>6. updated' <= since' /\ ModeIsLastApplied'
  BY DEF ModeIsLastApplied
<1>7. RelaxesAfterDwell'
  <2>1. TimeInMode >= RelaxDwell => since >= RelaxDwell \/ CameBack
    <3>1. updated \in Nat /\ since \in Nat /\ last.age \in Nat /\ RelaxDwell \in Nat
      BY GlobalModeAssumption DEF TypeOK, Ages
    <3> QED BY <3>1 DEF TimeInMode, CameBack
  <2>2. CameBack' = CameBack
    BY DEF CameBack
  <2> QED BY <1>1, <2>1, <2>2 DEF RelaxesAfterDwell
<1>8. Bounded'
  <2>1. CASE point = "loaded" /\ j.kind = "feedback"
    <3>1. ToSwitch' = ToSwitch \cup {w}
      BY <1>1, <2>1 DEF ToSwitch
    <3>2. Cardinality(ToSwitch') <= Cardinality(Workers) /\ Cardinality(ToSwitch') \in Nat
      <4>1. ToSwitch' \subseteq Workers /\ IsFiniteSet(Workers)
        BY GlobalModeAssumption DEF ToSwitch
      <4> QED BY <4>1, FS_Subset, FS_CardinalityType
    <3>3. Len(switches) \in Nat /\ FlapLimit \in Nat
      BY LenProperties, GlobalModeAssumption DEF TypeOK
    <3>4. Len(switches) < FlapLimit
      BY <2>1, <3>3 DEF Flapping
    <3> QED BY <3>2, <3>3, <3>4, ToSwitchType DEF Bounded
  <2>2. CASE point # "loaded" \/ j.kind # "feedback"
    BY <1>1, <2>2, BoundedStays
  <2> QED BY <2>1, <2>2
<1> QED BY <1>2, <1>4, <1>5, <1>6, <1>7, <1>8

LEMMA LoadForInv ==
  ASSUME Inv, NEW w \in Workers, NEW kind \in {"apply"} \cup Transitions,
         NEW target \in Modes, LoadFor(w, kind, target),
         kind \in Gated /\ Relaxes(metadata.mode, target) /\ target \notin Protective
           => TimeInMode >= RelaxDwell,
         kind = "feedback" => ~Flapping
  PROVE  Inv'
<1> DEFINE j == [kind |-> kind, target |-> target, keeps |-> metadata.enforced]
<1>1. metadata.enforced \in Modes \cup {Nothing}
  BY DEF Inv, TypeOK, Metadata
<1>2. j \in Job /\ j.kind = kind /\ j.target = target /\ j.keeps = metadata.enforced
  BY <1>1 DEF Job, Kinds, Transitions, Gated
<1>3. Hold(w, "loaded", j) /\ UNCHANGED <<row, records, history>>
  BY DEF LoadFor
<1> HIDE DEF j
<1>4. UNCHANGED <<row, records, since, applied, lost>> /\ crossed' = crossed
  BY <1>3 DEF history
<1>5. "loaded" \in Points /\ kind # "enforcement"
  BY DEF Points, Transitions, Gated
<1> QED BY <1>2, <1>3, <1>4, <1>5, HoldInv

(* What the gate lets pass has waited, or is no relaxation it minds.       *)
LEMMA AllowsRelaxation ==
  ASSUME Inv, NEW f \in Feedbacks, NEW target \in Modes, Allows(f, target),
         Relaxes(metadata.mode, target), target \notin Protective
  PROVE  TimeInMode >= RelaxDwell
<1>1. TimeInMode >= IF f.backlog = "HIGH" THEN LongDwell ELSE RelaxDwell
  BY DEF Allows, Protective
<1>2. updated \in Nat /\ last.age \in Nat /\ RelaxDwell \in Nat
  BY GlobalModeAssumption DEF Inv, TypeOK, Ages
<1> QED BY <1>1, <1>2, OldIsLast DEF TimeInMode

LEMMA LoadsInv ==
  ASSUME Inv, NEW w \in Workers, NEW f \in Feedbacks
  PROVE  /\ LoadTransition(w, f) => Inv'
         /\ LoadAutoSafe(w, f) => Inv'
         /\ LoadFeedback(w, f) => Inv'
         /\ LoadFeedbackKept(w, f) => Inv'
<1> USE AskedType DEF LoadFor
<1>1. ASSUME LoadTransition(w, f) PROVE Inv'
  <2>1. Stabilized(f) \in Modes /\ LoadFor(w, "transition", Stabilized(f))
    BY <1>1 DEF LoadTransition
  <2>2. "transition" \in Transitions /\ "transition" \notin Gated /\ "transition" # "feedback"
    BY DEF Transitions, Gated
  <2> QED BY <2>1, <2>2, LoadForInv
<1>2. ASSUME LoadAutoSafe(w, f) PROVE Inv'
  <2>1. Stabilized(f) \in Modes /\ LoadFor(w, "auto_safe", Stabilized(f)) /\ Allows(f, Stabilized(f))
    BY <1>2 DEF LoadAutoSafe
  <2>2. "auto_safe" \in Transitions /\ "auto_safe" # "feedback"
    BY DEF Transitions, Gated
  <2> QED BY <2>1, <2>2, LoadForInv, AllowsRelaxation
<1>3. ASSUME LoadFeedback(w, f) PROVE Inv'
  <2>1. Asked[f.type] \in Modes /\ LoadFor(w, "feedback", Asked[f.type]) /\ Allows(f, Asked[f.type])
    BY <1>3 DEF LoadFeedback
  <2>2. ~Flapping
    BY <2>1 DEF Allows
  <2>3. "feedback" \in Transitions
    BY DEF Transitions, Gated
  <2> QED BY <2>1, <2>2, <2>3, LoadForInv, AllowsRelaxation
<1>4. ASSUME LoadFeedbackKept(w, f) PROVE Inv'
  <2>1. Asked[f.type] \in Modes /\ LoadFor(w, "apply", Asked[f.type])
    BY <1>4 DEF LoadFeedbackKept
  <2> QED BY <2>1, LoadForInv DEF Gated
<1> QED BY <1>1, <1>2, <1>3, <1>4

LEMMA LoadDecisionInv ==
  ASSUME Inv, NEW w \in Workers, LoadDecision(w)
  PROVE  Inv'
<1>1. PICK mode \in Decided : LoadFor(w, "apply", mode)
  BY DEF LoadDecision
<1>2. mode \in Modes
  BY HysteresisType DEF Decided
<1> QED BY <1>1, <1>2, LoadForInv DEF Gated

LEMMA DecideModeInv ==
  ASSUME Inv, NEW w \in Workers, NEW p \in Postures, DecideMode(w, p)
  PROVE  Inv'
<1> DEFINE j == [NoJob EXCEPT !.kind = "review", !.target = WithHysteresis(metadata.mode, p)]
<1>1. WithHysteresis(metadata.mode, p) \in Modes
  BY HysteresisType DEF DecideMode, Inv, TypeOK, Metadata
<1>2. j \in Job
  BY <1>1 DEF NoJob, Job, Kinds
<1>3. Hold(w, "seen", j) /\ UNCHANGED <<row, records, since, applied, lost>> /\ crossed' = crossed
  BY DEF DecideMode, history
<1> HIDE DEF j
<1> QED BY <1>2, <1>3, HoldInv DEF Points

LEMMA BeginEnforcementInv ==
  ASSUME Inv, NEW w \in Workers, BeginEnforcement(w)
  PROVE  Inv'
<1> DEFINE j == [NoJob EXCEPT !.kind = "enforcement", !.target = metadata.mode]
<1>1. metadata.mode \in Modes
  BY DEF Inv, TypeOK, Metadata
<1>2. j \in Job
  BY <1>1 DEF NoJob, Job, Kinds
<1>3. Hold(w, "seen", j) /\ UNCHANGED <<row, records, since, applied, lost>> /\ crossed' = crossed
  BY DEF BeginEnforcement, history
<1> HIDE DEF j
<1> QED BY <1>2, <1>3, HoldInv DEF Points

LEMMA LoadEnforcementInv ==
  ASSUME Inv, NEW w \in Workers, LoadEnforcement(w)
  PROVE  Inv'
<1> DEFINE j == [job[w] EXCEPT !.keeps = metadata.mode]
<1>1. metadata.mode \in Modes /\ job[w] \in Job
  BY DEF Inv, TypeOK, Metadata
<1>2. j \in Job /\ j.kind = "enforcement" /\ j.keeps = metadata.mode
  BY <1>1 DEF LoadEnforcement, Job
<1>3. /\ Hold(w, "loaded", j) /\ UNCHANGED <<row, records, since, applied, lost>>
      /\ crossed' = crossed \ {w}
  BY DEF LoadEnforcement
<1> HIDE DEF j
<1> QED BY <1>2, <1>3, HoldInv DEF Points, Gated

-------------------------------------------------------------------------------
(* A request that saves the column and is done.                            *)
LEMMA SaveInv ==
  ASSUME Inv, NEW w \in Workers, NEW column \in Metadata,
         Saves(column), Return(w), crossed' = AtWork \ {w}
  PROVE  /\ metadata' \in Metadata /\ updated' \in Ages /\ since' \in Ages /\ updated' <= since'
         /\ pc' \in [Workers -> Points] /\ job' \in [Workers -> Job] /\ crossed' \subseteq Workers
         /\ Shape' /\ Fresh' /\ RelaxesAfterDwell'
         /\ UNCHANGED switches => Bounded'
<1> USE DEF Inv
<1>1. metadata' \in Metadata /\ updated' \in Ages /\ since' \in Ages /\ updated' <= since'
  BY SavesType
<1>2. /\ pc' \in [Workers -> Points] /\ job' \in [Workers -> Job]
      /\ pc'[w] = "idle"
      /\ \A v \in Workers \ {w} : pc'[v] = pc[v] /\ job'[v] = job[v]
  BY ReturnType
<1>3. Fresh' /\ RelaxesAfterDwell'
  BY <1>2, AllCrossed DEF AtWork
<1>4. Shape'
  BY <1>2 DEF Shape
<1>5. UNCHANGED switches => Bounded'
  BY <1>2, BoundedStays
<1>6. crossed' \subseteq Workers
  BY DEF AtWork
<1> QED BY <1>1, <1>2, <1>3, <1>4, <1>5, <1>6

LEMMA JobType ==
  ASSUME Inv, NEW w \in Workers
  PROVE  /\ job[w].target \in Modes /\ job[w].keeps \in Modes \cup {Nothing}
         /\ metadata.mode \in Modes /\ metadata.enforced \in Modes \cup {Nothing}
BY DEF Inv, TypeOK, Job, Metadata

LEMMA ApplyReviewInv ==
  ASSUME Inv, NEW w \in Workers, ApplyReview(w)
  PROVE  Inv'
<1> DEFINE column == WithMode(job[w].target, metadata.enforced)
<1>1. column \in Metadata /\ column.mode = job[w].target
  BY JobType DEF WithMode, Metadata
<1>2. Saves(column) /\ Return(w) /\ crossed' = AtWork \ {w} /\ UNCHANGED records
  BY DEF ApplyReview
<1> HIDE DEF column
<1>3. /\ metadata' \in Metadata /\ updated' \in Ages /\ since' \in Ages /\ updated' <= since'
      /\ pc' \in [Workers -> Points] /\ job' \in [Workers -> Job] /\ crossed' \subseteq Workers
      /\ Shape' /\ Fresh' /\ RelaxesAfterDwell' /\ Bounded'
  BY <1>1, <1>2, SaveInv DEF records
<1>4. applied' = job[w].target /\ lost' = FALSE
  BY DEF ApplyReview
<1>5. TypeOK'
  BY <1>2, <1>3, <1>4, JobType DEF Inv, TypeOK, records
<1>6. ModeIsLastApplied'
  <2>1. job[w].target # Nothing
    BY JobType, GlobalModeAssumption
  <2> QED BY <1>1, <1>2, <1>4, <2>1 DEF Saves, ModeIsLastApplied
<1> QED BY <1>3, <1>5, <1>6 DEF Inv

(* One switch more, and one request less that will add one.                *)
LEMMA SwitchBounded ==
  ASSUME Inv, NEW w \in Workers, Return(w), pc[w] = "loaded", job[w].kind = "feedback",
         switches' = << 0 >> \o switches
  PROVE  switches' \in Seq(0..Window) /\ Bounded'
<1> USE DEF Inv
<1>1. Window \in Nat /\ FlapLimit \in Nat
  BY GlobalModeAssumption
<1>2. switches \in Seq(0..Window) /\ << 0 >> \in Seq(0..Window) /\ Len(<< 0 >>) = 1
  BY <1>1 DEF TypeOK
<1>3. switches' \in Seq(0..Window) /\ Len(switches') = 1 + Len(switches) /\ Len(switches) \in Nat
  BY <1>2, ConcatProperties, LenProperties
<1>4. ToSwitch' = ToSwitch \ {w} /\ w \in ToSwitch
  BY ReturnType DEF ToSwitch
<1>5. Cardinality(ToSwitch') = Cardinality(ToSwitch) - 1
  BY <1>4, ToSwitchType, FS_RemoveElement
<1> QED BY <1>1, <1>3, <1>5, ToSwitchType DEF Bounded

(* What an application saves last is its copy of the column with the mode. *)
LEMMA LastSaved ==
  ASSUME NEW j
  PROVE  Last(SavedInTurn(j)) = WithMode(j.target, j.keeps)
<1>1. PICK copy : copy = WithMode(j.target, j.keeps)
  OBVIOUS
<1>2. PICK reviewed : reviewed = Enforced(j.target, copy.mode)
  OBVIOUS
<1>3. CASE j.kind \in Transitions
  <2>1. SavedInTurn(j) = <<copy, reviewed, copy>>
    BY <1>1, <1>2, <1>3 DEF SavedInTurn
  <2>2. Last(<<copy, reviewed, copy>>) = copy
    BY DEF Last
  <2> QED BY <1>1, <2>1, <2>2
<1>4. CASE j.kind \notin Transitions
  <2>1. SavedInTurn(j) = <<copy>>
    BY <1>1, <1>4 DEF SavedInTurn
  <2>2. Last(<<copy>>) = copy
    BY DEF Last
  <2> QED BY <1>1, <2>1, <2>2
<1> QED BY <1>3, <1>4

LEMMA ApplyModeInv ==
  ASSUME Inv, NEW w \in Workers, ApplyMode(w)
  PROVE  Inv'
<1> DEFINE column == WithMode(job[w].target, job[w].keeps)
<1>1. column \in Metadata /\ column.mode = job[w].target
  BY JobType DEF WithMode, Metadata
<1>2. Saves(column) /\ Return(w) /\ crossed' = AtWork \ {w}
  BY LastSaved DEF ApplyMode
<1> HIDE DEF column
<1>3. /\ metadata' \in Metadata /\ updated' \in Ages /\ since' \in Ages /\ updated' <= since'
      /\ pc' \in [Workers -> Points] /\ job' \in [Workers -> Job] /\ crossed' \subseteq Workers
      /\ Shape' /\ Fresh' /\ RelaxesAfterDwell' /\ (UNCHANGED switches => Bounded')
  BY <1>1, <1>2, SaveInv
<1>4. applied' = job[w].target /\ lost' = FALSE
  BY DEF ApplyMode
<1>5. /\ switches' \in Seq(0..Window) /\ Bounded'
      /\ last' \in [mode : Modes \cup {Nothing}, age : Ages]
  <2>1. CASE job[w].kind = "feedback"
    <3>1. switches' \in Seq(0..Window) /\ Bounded'
      BY <1>2, <2>1, SwitchBounded DEF ApplyMode
    <3>2. last' = [mode |-> job[w].target, age |-> 0] /\ 0 \in Ages
      BY <2>1, OldIsLast DEF ApplyMode, Ages
    <3> QED BY <3>1, <3>2, JobType
  <2>2. CASE job[w].kind # "feedback"
    BY <1>3, <2>2 DEF ApplyMode, records, Inv, TypeOK
  <2> QED BY <2>1, <2>2
<1>6. TypeOK'
  BY <1>3, <1>4, <1>5, JobType DEF TypeOK
<1>7. ModeIsLastApplied'
  <2>1. job[w].target # Nothing
    BY JobType, GlobalModeAssumption
  <2> QED BY <1>1, <1>2, <1>4, <2>1 DEF Saves, ModeIsLastApplied
<1> QED BY <1>3, <1>5, <1>6, <1>7 DEF Inv

LEMMA SaveEnforcementInv ==
  ASSUME Inv, NEW w \in Workers, SaveEnforcement(w)
  PROVE  Inv'
<1> DEFINE column == Enforced(job[w].target, job[w].keeps)
<1>1. job[w].keeps \in Modes
  BY DEF SaveEnforcement, Inv, Shape
<1>2. column \in Metadata /\ column.mode = job[w].keeps
  BY <1>1, JobType DEF Enforced, Metadata
<1>3. Saves(column) /\ Return(w) /\ crossed' = AtWork \ {w} /\ UNCHANGED <<records, applied>>
  BY DEF SaveEnforcement
<1> HIDE DEF column
<1>4. /\ metadata' \in Metadata /\ updated' \in Ages /\ since' \in Ages /\ updated' <= since'
      /\ pc' \in [Workers -> Points] /\ job' \in [Workers -> Job] /\ crossed' \subseteq Workers
      /\ Shape' /\ Fresh' /\ RelaxesAfterDwell' /\ Bounded'
  BY <1>2, <1>3, SaveInv DEF records
<1>5. lost' \in BOOLEAN
  BY DEF SaveEnforcement
<1>6. TypeOK'
  BY <1>3, <1>4, <1>5 DEF Inv, TypeOK, records
<1>7. ModeIsLastApplied'
  <2>1. CASE w \in crossed
    BY <2>1 DEF SaveEnforcement, ModeIsLastApplied
  <2>2. CASE w \notin crossed
    <3>1. job[w].keeps = metadata.mode
      BY <2>2 DEF SaveEnforcement, Inv, Fresh
    <3>2. lost' = lost
      BY <2>2 DEF SaveEnforcement, Inv, TypeOK
    <3>3. metadata'.mode = metadata.mode
      BY <1>2, <1>3, <3>1 DEF Saves
    <3> QED BY <1>3, <3>2, <3>3 DEF Inv, ModeIsLastApplied
  <2> QED BY <2>1, <2>2
<1> QED BY <1>4, <1>6, <1>7 DEF Inv

LEMMA InvStep == Inv /\ [Next]_vars => Inv'
<1> SUFFICES ASSUME Inv, [Next]_vars PROVE Inv'
  OBVIOUS
<1>1. ASSUME NEW w \in Workers,
             \/ ApplyReview(w) \/ ApplyMode(w)
             \/ BeginEnforcement(w) \/ LoadEnforcement(w) \/ SaveEnforcement(w)
      PROVE  Inv'
  BY <1>1, ApplyReviewInv, ApplyModeInv, BeginEnforcementInv, LoadEnforcementInv,
     SaveEnforcementInv
<1>2. ASSUME NEW w \in Workers, LoadDecision(w) PROVE Inv'
  BY <1>2, LoadDecisionInv
<1>3. ASSUME NEW w \in Workers, NEW p \in Postures, DecideMode(w, p) PROVE Inv'
  BY <1>3, DecideModeInv
<1>4. ASSUME NEW w \in Workers, NEW f \in Feedbacks,
             \/ LoadTransition(w, f) \/ LoadAutoSafe(w, f) \/ LoadFeedback(w, f)
             \/ LoadFeedbackKept(w, f)
      PROVE  Inv'
  BY <1>4, LoadsInv
<1>5. CASE UNCHANGED vars
  BY <1>5 DEF vars, row, records, history, Inv, TypeOK, Shape, Fresh, ModeIsLastApplied,
              RelaxesAfterDwell, CameBack, Bounded, ToSwitch
<1> QED BY <1>1, <1>2, <1>3, <1>4, <1>5, TickInv, SetRuntimeModeInv DEF Next

(* The inductive invariant, of which the rest are consequences.            *)
LEMMA SpecInv == Spec => []Inv
BY InvInit, InvStep, PTL DEF Spec

(* Every variable keeps its type: the column always holds a mode, whatever *)
(* request wrote it last, and every switch on record is inside the window. *)
THEOREM TypeCorrect == Spec => []TypeOK
<1>1. Inv => TypeOK
  BY DEF Inv
<1> QED BY <1>1, SpecInv, PTL

(* However reviews, applied decisions, transitions, enforcement reviews    *)
(* and runtime mode changes overlap, the mode in force is the one applied  *)
(* last, unless an enforcement review saved a copy of the column that      *)
(* another save had overtaken.                                             *)
THEOREM LastAppliedInForce == Spec => []ModeIsLastApplied
<1>1. Inv => ModeIsLastApplied
  BY DEF Inv
<1> QED BY <1>1, SpecInv, PTL

(* The gate reads the time in the mode off the last record of a switch, or *)
(* off updated_at; a request it lets relax the mode finds that the dwell   *)
(* has passed, unless the mode went and came back since that record.       *)
THEOREM RelaxationWaits == Spec => []RelaxesAfterDwell
<1>1. Inv => RelaxesAfterDwell
  BY DEF Inv
<1> QED BY <1>1, SpecInv, PTL

(* The switches on record in the window exceed the flapping limit by less  *)
(* than the number of requests: those that were let pass before it was     *)
(* reached, each of which adds one record.                                 *)
THEOREM FlappingStaysBounded == Spec => []FlappingIsBounded
<1>1. Inv => FlappingIsBounded
  <2>1. TypeOK => Len(switches) \in Nat
    BY LenProperties DEF TypeOK
  <2>2. FlapLimit \in Nat
    BY GlobalModeAssumption
  <2> QED BY <2>1, <2>2, ToSwitchType DEF Inv, Bounded, FlappingIsBounded
<1> QED BY <1>1, SpecInv, PTL

LEMMA EnforcementStep ==
  ASSUME Inv, [Next]_vars, metadata'.enforced # metadata.enforced
  PROVE  \/ applied' = Nothing
         \/ \E w \in Workers : /\ pc[w] = "loaded" /\ pc'[w] = "idle"
                              /\ \/ job[w].kind \in {"enforcement"} \cup Transitions
                                 \/ w \in crossed
<1> USE DEF row, records, history
<1>1. ASSUME NEW w \in Workers, ApplyMode(w), w \notin crossed PROVE FALSE
  <2>1. job[w].kind # "enforcement"
    BY <1>1 DEF ApplyMode, Transitions, Gated
  <2>2. job[w].keeps = metadata.enforced
    BY <1>1, <2>1 DEF ApplyMode, Inv, Fresh
  <2>3. Saves(WithMode(job[w].target, job[w].keeps))
    BY <1>1, LastSaved DEF ApplyMode
  <2> QED BY <1>1, <2>2, <2>3 DEF Saves, WithMode
<1>2. ASSUME NEW w \in Workers, ApplyMode(w) \/ SaveEnforcement(w)
      PROVE  pc[w] = "loaded" /\ pc'[w] = "idle"
  <2>1. pc[w] = "loaded" /\ Return(w)
    BY <1>2 DEF ApplyMode, SaveEnforcement
  <2> QED BY <2>1, ReturnType DEF Inv
<1>3. ASSUME NEW w \in Workers, SaveEnforcement(w) PROVE job[w].kind = "enforcement"
  BY <1>3 DEF SaveEnforcement
<1>4. ASSUME NEW w \in Workers, ApplyReview(w) PROVE FALSE
  BY <1>4 DEF ApplyReview, Saves, WithMode
<1>5. ASSUME NEW w \in Workers, BeginEnforcement(w) \/ LoadEnforcement(w) \/ LoadDecision(w)
      PROVE  FALSE
  BY <1>5 DEF BeginEnforcement, LoadEnforcement, LoadDecision, LoadFor
<1>6. ASSUME NEW w \in Workers, NEW p \in Postures, DecideMode(w, p) PROVE FALSE
  BY <1>6 DEF DecideMode
<1>7. ASSUME NEW w \in Workers, NEW f \in Feedbacks,
             \/ LoadTransition(w, f) \/ LoadAutoSafe(w, f) \/ LoadFeedback(w, f)
             \/ LoadFeedbackKept(w, f)
      PROVE  FALSE
  BY <1>7 DEF LoadTransition, LoadAutoSafe, LoadFeedback, LoadFeedbackKept, LoadFor
<1>8. ~Tick /\ ~(UNCHANGED vars)
  BY DEF Tick, vars
<1>9. SetRuntimeMode => applied' = Nothing
  BY DEF SetRuntimeMode
<1> QED BY <1>1, <1>2, <1>3, <1>4, <1>5, <1>6, <1>7, <1>8, <1>9 DEF Next

(* A review or a decision applied by hand that switches the mode puts back *)
(* the enforcement it found beside it in the column, for any number of     *)
(* writers, unless it was overtaken.                                       *)
THEOREM EnforcementStays == Spec => EnforcementKept
<1>1. Inv /\ [Next]_vars =>
        [ metadata'.enforced # metadata.enforced =>
            \/ applied' = Nothing
            \/ \E w \in Workers : /\ pc[w] = "loaded" /\ pc'[w] = "idle"
                                 /\ \/ job[w].kind \in {"enforcement"} \cup Transitions
                                    \/ w \in crossed ]_vars
  BY EnforcementStep
<1> QED BY <1>1, SpecInv, PTL DEF Spec, EnforcementKept
===============================================================================
