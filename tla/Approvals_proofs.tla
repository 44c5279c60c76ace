---------------------------- MODULE Approvals_proofs ----------------------------
(***************************************************************************)
(* Proofs about Approvals for any number of clients, subjects and items:   *)
(* type correctness, one trade for each subject, final statuses, and that  *)
(* the three endpoints implement OneDecision.                              *)
(***************************************************************************)
EXTENDS Approvals, FiniteSetTheorems, TLAPS

(* Why: a client's job is about the item it took up and that item's        *)
(* subject, and each point of a request admits some jobs only.             *)
JobShaped(point, j) ==
  /\ point \in Deciding => j.of \in Subjects
  /\ point \notin Deciding => j.item = None
  /\ j.item # None => item[j.item].of = j.of /\ item[j.item].status # "none"
  /\ point \in Deciding /\ j.item = None => point \in {"trade", "mark"} /\ j.of \in Approvals
  /\ point \in {"approval", "mark"} => j.of \in Approvals /\ j.op \in {"APPROVE", "REJECT"}
  /\ point = "trade" => j.op = "APPROVE" /\ j.of \in Approvals \cup Proposals
  /\ point = "close" => j.op \in {"APPROVE", "REJECT", "SNOOZE"}
  /\ point \in {"request", "commit"} => j.op # "SNOOZE"
  /\ point = "commit" =>
       /\ j.live => j.of \in Approvals /\ j.op \in {"APPROVE", "REJECT"}
       /\ j.op = "APPROVE" /\ j.of \in Approvals => j.live
  /\ point \in {"request", "approval"} => ~j.live
  /\ point = "create" => j.of \in Approvals

JobsShaped == \A c \in Clients : JobShaped(pc[c], job[c])

(* Why: requests are for rows that exist, and a proposal or a notice has   *)
(* one item.                                                               *)
ItemsShaped ==
  \A i \in Items :
    /\ item[i].status = "none" <=> item[i].of = None
    /\ request[i] # "none" => item[i].status # "none"
    /\ \A c \in Clients : seen[c][i] # "none" => item[i].status # "none"
    /\ \A k \in Items :
         item[i].of = item[k].of /\ item[i].of \in Proposals \cup Notices => i = k

(* Why: a subject that is not crowded has one decision under way at most.  *)
Alone ==
  \A c, d \in Clients :
    /\ c # d /\ pc[c] \in Deciding /\ pc[d] \in Deciding
    /\ job[c].of = job[d].of
    => job[c].of \in crowded

(* Why: what such a decision has found open and pending still is.          *)
StillOpen ==
  \A c \in Clients :
    /\ job[c].item # None /\ job[c].of \notin crowded
    /\ \/ pc[c] \in {"approval", "trade", "mark", "close"}
       \/ pc[c] = "commit" /\ job[c].op \in {"APPROVE", "REJECT"}
    => Open(job[c].item)

StillPending ==
  \A c \in Clients :
    /\ job[c].of \in Approvals \ crowded
    /\ pc[c] \in {"trade", "mark"} \/ (pc[c] = "commit" /\ job[c].live)
    => approval[job[c].of] = "PENDING"

(* Why: an approval is traded when its row says so or is about to; a       *)
(* proposal that was traded has no open item, or is about to have none.    *)
About(c, point, s) == pc[c] = point /\ job[c].op = "APPROVE" /\ job[c].of = s

ApprovalTrue(a) ==
  trades[a] = 1 <=> approval[a] = "EXECUTED" \/ \E c \in Clients : About(c, "mark", a)

ProposalTrue(s) ==
  /\ \A c \in Clients : About(c, "close", s) => trades[s] = 1
  /\ trades[s] = 1 => /\ \E i \in Items : item[i].of = s
                      /\ \/ \A i \in Items : item[i].of = s => ~Open(i)
                         \/ \E c \in Clients : About(c, "close", s)
  /\ \A i \in Items : item[i].of = s /\ item[i].status = "REJECTED" => trades[s] = 0

TrueFor(s) ==
  /\ trades[s] \in {0, 1} /\ (s \in Notices => trades[s] = 0)
  /\ (s \in Approvals => ApprovalTrue(s)) /\ (s \in Proposals => ProposalTrue(s))

RowsTrue == \A s \in Subjects \ spoiled : TrueFor(s)

Base == TypeOK /\ JobsShaped /\ ItemsShaped

-------------------------------------------------------------------------------
(* Types, and the shape of jobs and items.                                 *)

LEMMA NoJobType == NoJob \in Job /\ NoItem \in Item
BY ApprovalsAssumption DEF NoJob, Job, NoItem, Item, Decisions, ItemStatuses, OpenStatuses, Subjects

LEMMA BaseInit == Init => Base
<1> SUFFICES ASSUME Init PROVE Base
  OBVIOUS
<1>1. TypeOK
  BY NoJobType DEF Init, TypeOK, Points, Deciding, ApprovalStatuses, RequestStatuses, ItemStatuses, OpenStatuses
<1>2. JobsShaped
  BY DEF Init, JobsShaped, JobShaped, Deciding, NoJob
<1>3. ItemsShaped
  BY ApprovalsAssumption DEF Init, ItemsShaped, NoItem, Subjects
<1> QED BY <1>1, <1>2, <1>3 DEF Base

(* A row that is there stays there, and is about what it was about.        *)
ItemsKept ==
  \A i \in Items : item[i].status # "none" =>
    item'[i].of = item[i].of /\ item'[i].status # "none"

(* The job of a client that does nothing keeps its shape.                  *)
LEMMA OthersShaped ==
  ASSUME Base, ItemsKept, NEW d \in Clients, pc'[d] = pc[d], job'[d] = job[d]
  PROVE  JobShaped(pc[d], job[d])'
<1>1. JobShaped(pc[d], job[d]) /\ job[d] \in Job
  BY DEF Base, JobsShaped, TypeOK
<1>2. job[d].item # None => job[d].item \in Items
  BY <1>1 DEF Job
<1> QED BY <1>1, <1>2 DEF JobShaped, ItemsKept

(* What is left by a client that has ended its request.                    *)
LEMMA LeaveEffect ==
  ASSUME TypeOK, NEW c \in Clients, Leave(c)
  PROVE  /\ pc' \in [Clients -> Points] /\ job' \in [Clients -> Job]
         /\ todo' \in [Clients -> SUBSET Approvals]
         /\ seen' \in [Clients -> [Items -> ItemStatuses]]
         /\ pc'[c] = "idle" /\ job'[c] = NoJob
         /\ \A d \in Clients \ {c} : pc'[d] = pc[d] /\ job'[d] = job[d]
         /\ \A d \in Clients, i \in Items : seen'[d][i] = seen[d][i] \/ seen'[d][i] = "none"
<1>1. pc' \in [Clients -> Points] /\ pc'[c] = "idle"
  BY DEF Leave, TypeOK, Points
<1>2. job' \in [Clients -> Job] /\ job'[c] = NoJob
  BY NoJobType DEF Leave, TypeOK
<1>3. todo' \in [Clients -> SUBSET Approvals]
  BY DEF Leave, TypeOK
<1>4. [i \in Items |-> "none"] \in [Items -> ItemStatuses]
  BY DEF ItemStatuses
<1>5. /\ seen' \in [Clients -> [Items -> ItemStatuses]]
      /\ \A d \in Clients, i \in Items : seen'[d][i] = seen[d][i] \/ seen'[d][i] = "none"
  BY <1>4 DEF Leave, TypeOK
<1>6. \A d \in Clients \ {c} : pc'[d] = pc[d] /\ job'[d] = job[d]
  BY DEF Leave, TypeOK
<1> QED BY <1>1, <1>2, <1>3, <1>5, <1>6

LEMMA IdleShaped ==
  ASSUME NEW c \in Clients, pc'[c] = "idle", job'[c] = NoJob
  PROVE  JobShaped(pc[c], job[c])'
BY DEF JobShaped, NoJob, Deciding

LEMMA LeaveShaped ==
  ASSUME Base, ItemsKept, NEW c \in Clients, Leave(c)
  PROVE  JobsShaped'
<1> SUFFICES ASSUME NEW d \in Clients PROVE JobShaped(pc[d], job[d])'
  BY DEF JobsShaped
<1>1. CASE d = c
  BY <1>1, LeaveEffect, IdleShaped DEF Base
<1>2. CASE d # c
  <2>1. pc'[d] = pc[d] /\ job'[d] = job[d]
    BY <1>2, LeaveEffect DEF Base
  <2> QED BY <2>1, OthersShaped
<1> QED BY <1>1, <1>2

(* The job of c alone has changed.                                         *)
LEMMA OneShaped ==
  ASSUME Base, ItemsKept, NEW c \in Clients, JobShaped(pc[c], job[c])',
         \A d \in Clients \ {c} : pc'[d] = pc[d] /\ job'[d] = job[d]
  PROVE  JobsShaped'
BY OthersShaped DEF JobsShaped

(* Items and requests as they were, and seen at most forgotten.            *)
LEMMA SameItems ==
  ASSUME Base, item' = item, request' = request,
         \A d \in Clients, i \in Items : seen'[d][i] = seen[d][i] \/ seen'[d][i] = "none"
  PROVE  ItemsKept /\ ItemsShaped'
<1>1. ItemsKept
  BY DEF ItemsKept
<1>2. ItemsShaped'
  BY DEF Base, ItemsShaped
<1> QED BY <1>1, <1>2

(* An item of c's job gets another status, and c's request ends.           *)
LEMMA SavedItem ==
  ASSUME Base, NEW c \in Clients, NEW status \in ItemStatuses \ {"none"},
         job[c].item \in Items, item[job[c].item].status # "none",
         item' = [item EXCEPT ![job[c].item].status = status],
         \A i \in Items : request'[i] # "none" => request[i] # "none" \/ i = job[c].item,
         \A d \in Clients, i \in Items : seen'[d][i] = seen[d][i] \/ seen'[d][i] = "none"
  PROVE  item' \in [Items -> Item] /\ ItemsKept /\ ItemsShaped'
<1> DEFINE k == job[c].item
<1>1. item \in [Items -> Item]
  BY DEF Base, TypeOK
<1>2. \A i \in Items : item'[i] = IF i = k THEN [item[k] EXCEPT !.status = status] ELSE item[i]
  BY <1>1
<1>3. \A i \in Items : item'[i].of = item[i].of /\ (i # k => item'[i].status = item[i].status)
  BY <1>1, <1>2 DEF Item
<1>4. item'[k].status = status
  BY <1>1, <1>2 DEF Item
<1>5. item' \in [Items -> Item]
  BY <1>1 DEF Item
<1>6. ItemsKept
  BY <1>3, <1>4 DEF ItemsKept
<1>7. ItemsShaped'
  BY <1>3, <1>4 DEF Base, ItemsShaped
<1> QED BY <1>5, <1>6, <1>7

-------------------------------------------------------------------------------
(* Every step keeps types and shapes.                                      *)

NewJob(op, i, s, central) ==
  [op |-> op, item |-> i, of |-> s, central |-> central, live |-> FALSE]

LEMMA BeginBase ==
  ASSUME Base, NEW c \in Clients, NEW op \in Decisions, NEW i \in Items \cup {None},
         NEW s \in Subjects, NEW central \in BOOLEAN, NEW point \in Deciding,
         JobShaped(point, NewJob(op, i, s, central)),
         Begin(c, op, i, s, central, point), untold' \subseteq Approvals
  PROVE  Base'
<1>1. NewJob(op, i, s, central) \in Job
  BY DEF NewJob, Job
<1>2. /\ pc' \in [Clients -> Points] /\ job' \in [Clients -> Job]
      /\ pc'[c] = point /\ job'[c] = NewJob(op, i, s, central)
      /\ \A d \in Clients \ {c} : pc'[d] = pc[d] /\ job'[d] = job[d]
  BY <1>1 DEF Begin, NewJob, Base, TypeOK, Points
<1>3. crowded' \subseteq Subjects
  BY DEF Begin, Base, TypeOK
<1>4. UNCHANGED <<rowVars, todo, seen, cut, requeued>>
  BY DEF Begin
<1>5. TypeOK'
  BY <1>2, <1>3, <1>4 DEF Base, TypeOK, rowVars
<1>6. ItemsKept /\ ItemsShaped'
  BY <1>4, SameItems DEF rowVars
<1>7. JobShaped(pc[c], job[c])'
  BY <1>2, <1>4 DEF JobShaped, rowVars
<1>8. JobsShaped'
  BY <1>2, <1>6, <1>7, OneShaped
<1> QED BY <1>5, <1>6, <1>8 DEF Base

LEMMA OpenItemOf ==
  ASSUME Base, NEW i \in Items, item[i].status # "none"
  PROVE  item[i].of \in Subjects
BY DEF Base, ItemsShaped, TypeOK, Item

LEMMA DecideBase ==
  ASSUME Base, NEW c \in Clients, Decide(c)
  PROVE  Base'
<1>1. ASSUME NEW a \in Approvals, NEW op \in {"APPROVE", "REJECT"}, OpenApproval(c, a, op)
      PROVE  Base'
  <2> DEFINE point == IF op = "APPROVE" THEN "trade" ELSE "mark"
  <2>1. Begin(c, op, None, a, FALSE, point) /\ untold' \subseteq Approvals
    BY <1>1 DEF OpenApproval, Base, TypeOK
  <2>2. op \in Decisions /\ a \in Subjects /\ point \in Deciding
    BY DEF Decisions, Subjects, Deciding
  <2>3. JobShaped(point, NewJob(op, None, a, FALSE))
    BY <2>2 DEF JobShaped, NewJob
  <2> QED BY <2>1, <2>2, <2>3, BeginBase
<1>2. ASSUME NEW i \in Items, NEW op \in {"APPROVE", "REJECT", "SNOOZE"}, OpenItem(c, i, op)
      PROVE  Base'
  <2> DEFINE s == item[i].of
             point == FirstPoint(op, s)
  <2>1. Begin(c, op, i, s, FALSE, point) /\ untold' \subseteq Approvals
    BY <1>2 DEF OpenItem, Base, TypeOK
  <2>2. item[i].status # "none" /\ s \in Subjects
    BY <1>2, OpenItemOf DEF OpenItem, Open, OpenStatuses
  <2>3. op \in Decisions /\ point \in Deciding
    BY DEF Decisions, Deciding, FirstPoint
  <2>4. i # None
    BY ApprovalsAssumption
  <2>5. JobShaped(point, NewJob(op, i, s, FALSE))
    <3> HIDE DEF point
    <3>1. /\ point \notin {"mark", "request", "commit", "create"}
          /\ point = "approval" => s \in Approvals /\ op # "SNOOZE"
          /\ point = "trade" => s \in Proposals /\ op = "APPROVE"
      BY DEF FirstPoint, point
    <3> QED BY <2>2, <2>3, <2>4, <3>1 DEF JobShaped, NewJob
  <2> QED BY <2>1, <2>2, <2>3, <2>5, BeginBase
<1>3. ASSUME NEW i \in Items, NEW op \in Decisions \ {"SNOOZE"}, OpenRequest(c, i, op)
      PROVE  Base'
  <2> DEFINE s == item[i].of
  <2>1. Begin(c, op, i, s, TRUE, "request") /\ untold' \subseteq Approvals
    BY <1>3 DEF OpenRequest, Base, TypeOK
  <2>2. item[i].status # "none" /\ s \in Subjects
    <3>1. request[i] # "none"
      BY <1>3 DEF OpenRequest
    <3> QED BY <3>1, OpenItemOf DEF Base, ItemsShaped
  <2>3. "request" \in Deciding /\ i # None
    BY ApprovalsAssumption DEF Deciding
  <2>4. JobShaped("request", NewJob(op, i, s, TRUE))
    BY <2>2, <2>3 DEF JobShaped, NewJob
  <2> QED BY <2>1, <2>2, <2>3, <2>4, BeginBase
<1> QED BY <1>1, <1>2, <1>3 DEF Decide, Decisions

(* A request moves on, its job's live flag perhaps set.                    *)
LEMMA MoveBase ==
  ASSUME Base, NEW c \in Clients, NEW point \in Deciding, NEW live \in BOOLEAN,
         pc' = [pc EXCEPT ![c] = point], job' = [job EXCEPT ![c].live = live],
         JobShaped(point, [job[c] EXCEPT !.live = live]),
         item' = item, request' = request,
         UNCHANGED <<todo, seen, crowded, requeued>>,
         cut' \subseteq Subjects, untold' \subseteq Approvals,
         approval' \in [Approvals -> ApprovalStatuses], trades' \in [Subjects -> Nat]
  PROVE  Base'
<1>1. /\ pc' \in [Clients -> Points] /\ pc'[c] = point
      /\ \A d \in Clients \ {c} : pc'[d] = pc[d]
  BY DEF Base, TypeOK, Points
<1>2. job \in [Clients -> Job]
  BY DEF Base, TypeOK
<1>3. [job[c] EXCEPT !.live = live] \in Job
  BY <1>2 DEF Job
<1>4. /\ job' \in [Clients -> Job] /\ job'[c] = [job[c] EXCEPT !.live = live]
      /\ \A d \in Clients \ {c} : job'[d] = job[d]
  BY <1>2, <1>3
<1>5. TypeOK'
  BY <1>1, <1>4 DEF Base, TypeOK
<1>6. ItemsKept /\ ItemsShaped'
  BY SameItems
<1>7. JobShaped(pc[c], job[c])'
  BY <1>1, <1>4 DEF JobShaped
<1>8. JobsShaped'
  BY <1>1, <1>4, <1>6, <1>7, OneShaped
<1> QED BY <1>5, <1>6, <1>8 DEF Base

(* A request ends and leaves the items alone.                              *)
LEMMA EndBase ==
  ASSUME Base, NEW c \in Clients, Leave(c), item' = item, request' = request,
         crowded' = crowded, requeued' = requeued,
         cut' \subseteq Subjects, untold' \subseteq Approvals,
         approval' \in [Approvals -> ApprovalStatuses], trades' \in [Subjects -> Nat]
  PROVE  Base'
<1>1. TypeOK'
  BY LeaveEffect DEF Base, TypeOK
<1>2. ItemsKept /\ ItemsShaped'
  BY SameItems, LeaveEffect DEF Base
<1>3. JobsShaped'
  BY <1>2, LeaveShaped
<1> QED BY <1>1, <1>2, <1>3 DEF Base

(* A request ends with its item saved.                                     *)
LEMMA SaveBase ==
  ASSUME Base, NEW c \in Clients, NEW status \in ItemStatuses \ {"none"},
         Leave(c), job[c].item # None,
         item' = [item EXCEPT ![job[c].item].status = status],
         request' \in [Items -> RequestStatuses],
         \A i \in Items : request'[i] # "none" => request[i] # "none" \/ i = job[c].item,
         UNCHANGED history,
         approval' \in [Approvals -> ApprovalStatuses], trades' \in [Subjects -> Nat]
  PROVE  Base'
<1>1. job[c].item \in Items /\ item[job[c].item].status # "none"
  <2>1. job[c] \in Job /\ JobShaped(pc[c], job[c])
    BY DEF Base, TypeOK, JobsShaped
  <2> QED BY <2>1 DEF Job, JobShaped
<1>2. \A d \in Clients, i \in Items : seen'[d][i] = seen[d][i] \/ seen'[d][i] = "none"
  BY LeaveEffect DEF Base
<1>3. item' \in [Items -> Item] /\ ItemsKept /\ ItemsShaped'
  BY <1>1, <1>2, SavedItem
<1>4. TypeOK'
  BY <1>3, LeaveEffect DEF Base, TypeOK, history
<1>5. JobsShaped'
  BY <1>3, LeaveShaped
<1> QED BY <1>3, <1>4, <1>5 DEF Base

LEMMA SameJob ==
  ASSUME TypeOK, NEW c \in Clients
  PROVE  /\ job = [job EXCEPT ![c].live = job[c].live]
         /\ job[c] = [job[c] EXCEPT !.live = job[c].live]
         /\ job[c].live \in BOOLEAN /\ job[c] \in Job
<1>1. job \in [Clients -> Job] /\ job[c] \in Job
  BY DEF TypeOK
<1>2. job[c] = [job[c] EXCEPT !.live = job[c].live] /\ job[c].live \in BOOLEAN
  BY <1>1 DEF Job
<1> QED BY <1>1, <1>2

(* The request moves on and its job stays as it is.                        *)
LEMMA MoveSame ==
  ASSUME Base, NEW c \in Clients, NEW point \in Deciding, GoTo(c, point),
         JobShaped(point, job[c]), job' = job, item' = item, request' = request,
         UNCHANGED <<todo, seen, history>>,
         approval' \in [Approvals -> ApprovalStatuses], trades' \in [Subjects -> Nat]
  PROVE  Base'
<1>1. TypeOK
  BY DEF Base
<1>2. cut' \subseteq Subjects /\ untold' \subseteq Approvals
  BY <1>1 DEF TypeOK, history
<1> DEFINE live == job[c].live
<1>3. live \in BOOLEAN /\ job' = [job EXCEPT ![c].live = live]
  BY <1>1, SameJob
<1>4. JobShaped(point, [job[c] EXCEPT !.live = live])
  BY <1>1, SameJob
<1>5. pc' = [pc EXCEPT ![c] = point] /\ UNCHANGED <<todo, seen, crowded, requeued>>
  BY DEF GoTo, history
<1> HIDE DEF live
<1> QED BY <1>2, <1>3, <1>4, <1>5, MoveBase

LEMMA ClosingType ==
  ASSUME NEW op, NEW s
  PROVE  Closing(op, s) \in ItemStatuses \ {"none"}
BY DEF Closing, ItemStatuses, OpenStatuses

LEMMA StepBase ==
  ASSUME Base, NEW c \in Clients, Step(c)
  PROVE  Base'
<1> USE DEF Deciding
<1>0. /\ TypeOK /\ JobShaped(pc[c], job[c]) /\ job[c] \in Job
      /\ approval \in [Approvals -> ApprovalStatuses] /\ trades \in [Subjects -> Nat]
      /\ cut \subseteq Subjects /\ untold \subseteq Approvals
  BY DEF Base, JobsShaped, TypeOK
<1>1. CASE LookItem(c)
  <2>1. PICK point \in {"approval", "commit"} :
          /\ GoTo(c, point)
          /\ point = "approval" => job[c].op \in {"APPROVE", "REJECT"} /\ job[c].of \in Approvals
          /\ point = "commit" => job[c].op # "SNOOZE" /\ (job[c].op = "APPROVE" => job[c].of \notin Approvals)
    BY <1>1 DEF LookItem
  <2>2. JobShaped(point, job[c])
    BY <1>0, <1>1, <2>1 DEF LookItem, JobShaped
  <2> QED BY <1>0, <1>1, <2>1, <2>2, MoveSame DEF LookItem, rowVars
<1>2. CASE LookApproval(c)
  <2> DEFINE live == approval[job[c].of] = "PENDING"
             point == NextPoint(job[c], live)
  <2>1. pc[c] = "approval" /\ (job[c].op = "APPROVE" => live)
    BY <1>2 DEF LookApproval
  <2>2. pc' = [pc EXCEPT ![c] = point] /\ job' = [job EXCEPT ![c].live = live]
    BY <1>2 DEF LookApproval, GoTo
  <2>3. point \in Deciding /\ live \in BOOLEAN
    BY DEF NextPoint
  <2>4. JobShaped(point, [job[c] EXCEPT !.live = live])
    BY <1>0, <2>1 DEF JobShaped, NextPoint, Job
  <2> HIDE DEF live, point
  <2>5. UNCHANGED <<rowVars, todo, seen, history>>
    BY <1>2 DEF LookApproval
  <2> QED BY <1>0, <2>2, <2>3, <2>4, <2>5, MoveBase DEF rowVars, history
<1>3. CASE Refused(c)
  BY <1>0, <1>3, EndBase DEF Refused, rowVars, history
<1>4. CASE Trade(c)
  <2> DEFINE point == IF job[c].of \in Approvals THEN "mark" ELSE "close"
  <2>1. pc[c] = "trade" /\ GoTo(c, point)
    BY <1>4 DEF Trade
  <2>2. trades' \in [Subjects -> Nat]
    <3>1. job[c].of \in Subjects /\ trades' = [trades EXCEPT ![job[c].of] = @ + 1]
      BY <1>0, <1>4 DEF Trade, JobShaped
    <3> QED BY <1>0, <3>1
  <2>3. JobShaped(point, job[c])
    BY <1>0, <2>1, ApprovalsAssumption DEF JobShaped
  <2> QED BY <1>0, <1>4, <2>1, <2>2, <2>3, MoveSame DEF Trade
<1>5. CASE Mark(c)
  <2>1. approval' \in [Approvals -> ApprovalStatuses]
    BY <1>0, <1>5 DEF Mark, Verdict, ApprovalStatuses
  <2>2. CASE job[c].item = None
    BY <1>0, <1>5, <2>1, <2>2, EndBase DEF Mark, history
  <2>3. CASE job[c].item # None
    <3>1. pc[c] = "mark" /\ GoTo(c, "close") /\ UNCHANGED <<job, todo, seen>>
      BY <1>5, <2>3 DEF Mark
    <3>2. JobShaped("close", job[c])
      BY <1>0, <2>3, <3>1 DEF JobShaped
    <3> QED BY <1>0, <1>5, <2>1, <3>1, <3>2, MoveSame DEF Mark
  <2> QED BY <2>2, <2>3
<1>6. CASE Close(c)
  <2>1. job[c].item # None
    BY <1>0, <1>6 DEF Close, JobShaped
  <2>2. /\ item' = [item EXCEPT ![job[c].item].status = Closing(job[c].op, job[c].of)]
        /\ Leave(c) /\ UNCHANGED <<approval, request, trades, history>>
    BY <1>6 DEF Close
  <2>3. request' \in [Items -> RequestStatuses]
    BY <1>0, <2>2 DEF TypeOK
  <2> QED BY <1>0, <2>1, <2>2, <2>3, ClosingType, SaveBase
<1>7. CASE Commit(c)
  <2>1. job[c].item # None /\ job[c].item \in Items /\ job[c].op \in DOMAIN STATUS_BY_DECISION
    BY <1>0, <1>7 DEF Commit, JobShaped, Job, STATUS_BY_DECISION, Decisions
  <2>2. trades' \in [Subjects -> Nat]
    <3>1. job[c].of \in Subjects /\ trades' \in {trades, [trades EXCEPT ![job[c].of] = @ + 1]}
      BY <1>0, <1>7 DEF Commit, JobShaped
    <3> QED BY <1>0, <3>1
  <2>3. approval' \in [Approvals -> ApprovalStatuses]
    BY <1>0, <1>7 DEF Commit, Verdict, ApprovalStatuses
  <2>4. request' \in [Items -> RequestStatuses]
    <3>1. Shown(job[c].op) \in RequestStatuses
      BY <1>0, <2>1 DEF Shown, STATUS_BY_DECISION, RequestStatuses, Decisions, Job
    <3> QED BY <1>0, <1>7, <2>1, <3>1 DEF Commit, TypeOK
  <2>5. \A i \in Items : request'[i] # "none" => request[i] # "none" \/ i = job[c].item
    BY <1>0, <1>7, <2>1 DEF Commit, TypeOK
  <2>6. Leave(c) /\ UNCHANGED history
    BY <1>7 DEF Commit
  <2>7. CASE job[c].op = "ESCALATE"
    <3>1. item' = [item EXCEPT ![job[c].item].status = item[job[c].item].status]
      BY <1>0, <1>7, <2>1, <2>7 DEF Commit, TypeOK, Item
    <3>2. item[job[c].item].status \in ItemStatuses \ {"none"}
      BY <1>0, <2>1 DEF JobShaped, TypeOK, Item
    <3> QED BY <2>1, <2>2, <2>3, <2>4, <2>5, <2>6, <3>1, <3>2, SaveBase
  <2>8. CASE job[c].op # "ESCALATE"
    <3>1. item' = [item EXCEPT ![job[c].item].status = Closing(job[c].op, job[c].of)]
      BY <1>7, <2>8 DEF Commit
    <3> QED BY <2>1, <2>2, <2>3, <2>4, <2>5, <2>6, <3>1, ClosingType, SaveBase
  <2> QED BY <2>7, <2>8
<1>8. CASE Die(c)
  <2>1. cut' \subseteq Subjects
    BY <1>0, <1>8 DEF Die, JobShaped
  <2>2. untold' \subseteq Approvals
    BY <1>0, <1>8 DEF Die
  <2> QED BY <1>0, <1>8, <2>1, <2>2, EndBase DEF Die, rowVars
<1> QED BY <1>1, <1>2, <1>3, <1>4, <1>5, <1>6, <1>7, <1>8 DEF Step

(* An item is created: for an approval, or for a subject without one.      *)
LEMMA AddedItem ==
  ASSUME Base, NEW s \in Subjects, NewItem(s), request' = request,
         s \in Approvals \/ \A i \in Items : item[i].of # s,
         \A d \in Clients, i \in Items : seen'[d][i] = seen[d][i] \/ seen'[d][i] = "none"
  PROVE  item' \in [Items -> Item] /\ ItemsKept /\ ItemsShaped'
<1> DEFINE row == [status |-> "PENDING", of |-> s]
<1>1. PICK k \in Items : item[k].status = "none" /\ item' = [item EXCEPT ![k] = row]
  BY DEF NewItem, Fresh
<1>2. row \in Item /\ item \in [Items -> Item]
  BY DEF Item, ItemStatuses, OpenStatuses, Base, TypeOK
<1>3. item' \in [Items -> Item] /\ item'[k] = row /\ \A i \in Items \ {k} : item'[i] = item[i]
  BY <1>1, <1>2
<1>4. item'[k].status = "PENDING" /\ item'[k].of = s
  BY <1>3
<1>5. ItemsKept
  BY <1>1, <1>3 DEF ItemsKept
<1>6. s # None /\ item[k].of = None
  BY <1>1, ApprovalsAssumption DEF Base, ItemsShaped
<1>7. ItemsShaped'
  <2>1. \A i \in Items : item'[i].status = "none" <=> item'[i].of = None
    BY <1>3, <1>4, <1>6 DEF Base, ItemsShaped
  <2>2. \A i \in Items : request'[i] # "none" => item'[i].status # "none"
    BY <1>3, <1>4 DEF Base, ItemsShaped
  <2>3. \A i \in Items, d \in Clients : seen'[d][i] # "none" => item'[i].status # "none"
    BY <1>3, <1>4 DEF Base, ItemsShaped
  <2>4. ASSUME NEW i \in Items, NEW j \in Items, item'[i].of = item'[j].of,
               item'[i].of \in Proposals \cup Notices
        PROVE  i = j
    BY <1>3, <1>4, <2>4, ApprovalsAssumption DEF Base, ItemsShaped
  <2> QED BY <2>1, <2>2, <2>3, <2>4 DEF ItemsShaped
<1> QED BY <1>3, <1>5, <1>7

LEMMA QueuedEffect ==
  ASSUME Base, NEW c \in Clients, NEW a, Queued(c, a)
  PROVE  /\ pc' \in [Clients -> Points] /\ job' \in [Clients -> Job]
         /\ todo' \in [Clients -> SUBSET Approvals]
         /\ seen' \in [Clients -> [Items -> ItemStatuses]]
         /\ pc'[c] \in {"idle", "ensure"} /\ job'[c] = NoJob
         /\ \A d \in Clients \ {c} : pc'[d] = pc[d] /\ job'[d] = job[d]
         /\ \A d \in Clients, i \in Items : seen'[d][i] = seen[d][i] \/ seen'[d][i] = "none"
<1>1. CASE todo[c] = {a}
  BY <1>1, LeaveEffect DEF Queued, Base
<1>2. CASE todo[c] # {a}
  <2>1. /\ todo' = [todo EXCEPT ![c] = @ \ {a}] /\ GoTo(c, "ensure")
        /\ job' = [job EXCEPT ![c] = NoJob] /\ UNCHANGED seen
    BY <1>2 DEF Queued
  <2> QED BY <2>1, NoJobType DEF Base, TypeOK, GoTo, Points
<1> QED BY <1>1, <1>2

LEMMA QuietShaped ==
  ASSUME NEW c \in Clients, pc'[c] \in {"idle", "ensure"}, job'[c] = NoJob
  PROVE  JobShaped(pc[c], job[c])'
BY DEF JobShaped, NoJob, Deciding

LEMMA QueueingBase ==
  ASSUME Base, NEW c \in Clients, Queueing(c)
  PROVE  Base'
<1>0. /\ TypeOK /\ JobShaped(pc[c], job[c]) /\ job[c] \in Job
      /\ \A d \in Clients, i \in Items : seen[d][i] = seen[d][i]
  BY DEF Base, JobsShaped, TypeOK
<1>1. CASE Rebuild(c)
  <2>1. /\ UNCHANGED <<rowVars, job, seen, history>> /\ pc' = [pc EXCEPT ![c] = "ensure"]
        /\ todo' = [todo EXCEPT ![c] = {a \in Approvals : approval[a] = "PENDING"}]
    BY <1>1 DEF Rebuild, GoTo
  <2>2. TypeOK'
    BY <1>0, <2>1 DEF TypeOK, rowVars, history, Points
  <2>3. ItemsKept /\ ItemsShaped'
    BY <2>1, SameItems DEF rowVars
  <2>4. pc[c] = "idle"
    BY <1>1 DEF Rebuild
  <2>5. JobShaped(pc[c], job[c])'
    BY <1>0, <2>1, <2>4 DEF JobShaped, rowVars, TypeOK, Deciding
  <2>6. JobsShaped'
    BY <1>0, <2>1, <2>3, <2>5, OneShaped DEF TypeOK
  <2> QED BY <2>2, <2>3, <2>6 DEF Base
<1>2. CASE Create(c)
  <2>1. job[c].of \in Approvals /\ job[c].of \in Subjects
    BY <1>0, <1>2 DEF Create, JobShaped, Subjects
  <2>2. Queued(c, job[c].of) /\ NewItem(job[c].of) /\ UNCHANGED <<approval, request, trades, history>>
    BY <1>2 DEF Create
  <2>3. item' \in [Items -> Item] /\ ItemsKept /\ ItemsShaped'
    BY <2>1, <2>2, QueuedEffect, AddedItem
  <2>4. TypeOK'
    BY <1>0, <2>2, <2>3, QueuedEffect DEF TypeOK, history
  <2>5. JobsShaped'
    BY <2>2, <2>3, QueuedEffect, QuietShaped, OneShaped
  <2> QED BY <2>3, <2>4, <2>5 DEF Base
<1>3. CASE SyncLoad(c)
  <2> DEFINE look == [i \in Items |-> IF item[i].of \in Notices THEN "none" ELSE item[i].status]
  <2>1. /\ UNCHANGED <<rowVars, job, todo, history>> /\ pc' = [pc EXCEPT ![c] = "seen"]
        /\ seen' = [seen EXCEPT ![c] = look] /\ pc[c] = "idle"
    BY <1>3 DEF SyncLoad, GoTo
  <2>2. look \in [Items -> ItemStatuses]
    BY <1>0 DEF TypeOK, Item, ItemStatuses
  <2>3. /\ seen' \in [Clients -> [Items -> ItemStatuses]]
        /\ \A d \in Clients, i \in Items : seen'[d][i] \in {seen[d][i], "none", item[i].status}
    BY <1>0, <2>1, <2>2 DEF TypeOK
  <2>4. TypeOK'
    BY <1>0, <2>1, <2>3 DEF TypeOK, rowVars, history, Points
  <2>5. ItemsKept /\ item' = item /\ request' = request
    BY <2>1 DEF ItemsKept, rowVars
  <2>6. ItemsShaped'
    BY <2>3, <2>5 DEF Base, ItemsShaped
  <2>7. JobShaped(pc[c], job[c])'
    BY <1>0, <2>1 DEF JobShaped, rowVars, TypeOK, Deciding
  <2>8. JobsShaped'
    BY <1>0, <2>1, <2>5, <2>7, OneShaped DEF TypeOK
  <2> QED BY <2>4, <2>6, <2>8 DEF Base
<1>4. CASE SyncSave(c)
  <2>1. Leave(c) /\ UNCHANGED <<approval, item, trades, history>>
    BY <1>4 DEF SyncSave
  <2>2. \A i \in Items : request'[i] \in RequestStatuses
                       /\ (request'[i] # request[i] => item[i].status # "none")
    BY <1>0, <1>4 DEF SyncSave, Base, ItemsShaped, TypeOK, OPERATOR_STATUS_MAP,
                     RequestStatuses, ItemStatuses, OpenStatuses
  <2>3. request' \in [Items -> RequestStatuses]
    BY <1>4, <2>2 DEF SyncSave
  <2>4. TypeOK'
    BY <1>0, <2>1, <2>3, LeaveEffect DEF TypeOK, history
  <2>5. ItemsKept
    BY <2>1 DEF ItemsKept
  <2>6. ItemsShaped'
    BY <1>0, <2>1, <2>2, LeaveEffect DEF Base, ItemsShaped
  <2>7. JobsShaped'
    BY <2>1, <2>5, LeaveShaped
  <2> QED BY <2>4, <2>6, <2>7 DEF Base
<1>5. ASSUME NEW a \in Approvals, Escalate(c, a) PROVE Base'
  <2>1. /\ UNCHANGED <<item, request, trades, job, seen, history>> /\ pc[c] = "idle"
        /\ pc' = [pc EXCEPT ![c] = "ensure"] /\ todo' = [todo EXCEPT ![c] = {a}]
        /\ approval' = [approval EXCEPT ![a] = "PENDING"]
    BY <1>5 DEF Escalate, GoTo
  <2>2. TypeOK'
    BY <1>0, <2>1 DEF TypeOK, history, Points, ApprovalStatuses
  <2>3. ItemsKept /\ ItemsShaped'
    BY <2>1, SameItems
  <2>4. JobShaped(pc[c], job[c])'
    BY <1>0, <2>1 DEF JobShaped, TypeOK, Deciding
  <2>5. JobsShaped'
    BY <1>0, <2>1, <2>3, <2>4, OneShaped DEF TypeOK
  <2> QED BY <2>2, <2>3, <2>5 DEF Base
<1>6. ASSUME NEW a \in Approvals, Ensure(c, a) PROVE Base'
  <2>1. UNCHANGED <<rowVars, crowded, cut, untold>>
    BY <1>6 DEF Ensure
  <2>2. CASE QueuedAlready(a)
    <3>1. Queued(c, a) /\ UNCHANGED requeued
      BY <1>6, <2>2 DEF Ensure
    <3>2. TypeOK'
      BY <1>0, <2>1, <3>1, QueuedEffect DEF TypeOK, rowVars
    <3>3. ItemsKept /\ ItemsShaped'
      BY <2>1, <3>1, QueuedEffect, SameItems DEF rowVars
    <3>4. JobsShaped'
      BY <3>1, <3>3, QueuedEffect, QuietShaped, OneShaped
    <3> QED BY <3>2, <3>3, <3>4 DEF Base
  <2>3. CASE ~QueuedAlready(a)
    <3>1. /\ pc[c] = "ensure" /\ pc' = [pc EXCEPT ![c] = "create"]
          /\ job' = [job EXCEPT ![c].of = a] /\ UNCHANGED <<todo, seen>>
          /\ requeued' \subseteq requeued \cup {a}
      BY <1>6, <2>3 DEF Ensure, GoTo
    <3>2. [job[c] EXCEPT !.of = a] \in Job
      BY <1>0 DEF Job, Subjects
    <3>3. job' \in [Clients -> Job] /\ job'[c] = [job[c] EXCEPT !.of = a]
      BY <1>0, <3>1, <3>2 DEF TypeOK
    <3>4. TypeOK'
      BY <1>0, <2>1, <3>1, <3>3 DEF TypeOK, rowVars, Points
    <3>5. ItemsKept /\ ItemsShaped'
      BY <2>1, <3>1, SameItems DEF rowVars
    <3>6. JobShaped(pc[c], job[c])'
      BY <1>0, <3>1, <3>3 DEF JobShaped, TypeOK, Deciding
    <3>7. JobsShaped'
      BY <1>0, <3>1, <3>5, <3>6, OneShaped DEF TypeOK
    <3> QED BY <3>4, <3>5, <3>7 DEF Base
  <2> QED BY <2>2, <2>3
<1> QED BY <1>1, <1>2, <1>3, <1>4, <1>5, <1>6 DEF Queueing

LEMMA DirectBase ==
  ASSUME Base, NEW s \in Proposals \cup Notices, QueueDirect(s)
  PROVE  Base'
<1>1. /\ NewItem(s) /\ UNCHANGED <<approval, request, trades, pc, job, todo, seen, history>>
      /\ s \notin BroughtUp
  BY DEF QueueDirect
<1>2. s \in Subjects
  BY DEF Subjects
<1>3. \A i \in Items : item[i].of # s
  <2>1. \A i \in Fresh : item[i].of = None
    BY DEF Fresh, Base, ItemsShaped
  <2> QED BY <1>1, <1>2, <2>1, ApprovalsAssumption DEF BroughtUp
<1>4. item' \in [Items -> Item] /\ ItemsKept /\ ItemsShaped'
  BY <1>1, <1>2, <1>3, AddedItem
<1>5. TypeOK'
  BY <1>1, <1>4 DEF Base, TypeOK, history
<1>6. JobsShaped'
  BY <1>1, <1>4, OthersShaped DEF JobsShaped
<1> QED BY <1>4, <1>5, <1>6 DEF Base

LEMMA BaseNext == Base /\ [Next]_vars => Base'
<1> SUFFICES ASSUME Base, [Next]_vars PROVE Base'
  OBVIOUS
<1>1. CASE UNCHANGED vars
  <2>1. UNCHANGED <<rowVars, pc, job, todo, seen, history>>
    BY <1>1 DEF vars
  <2>2. TypeOK'
    BY <2>1 DEF Base, TypeOK, rowVars, history
  <2>3. ItemsKept /\ ItemsShaped'
    BY <2>1, SameItems DEF rowVars
  <2>4. JobsShaped'
    BY <2>1, <2>3, OthersShaped DEF JobsShaped
  <2> QED BY <2>2, <2>3, <2>4 DEF Base
<1>2. CASE Next
  BY <1>2, DecideBase, StepBase, QueueingBase, DirectBase DEF Next
<1> QED BY <1>1, <1>2

(* Every reachable state is well typed, and jobs and items have the shape  *)
(* the steps rely on.                                                      *)
THEOREM TypeCorrect == Spec => []TypeOK
<1>1. Spec => []Base
  BY BaseInit, BaseNext, PTL DEF Spec
<1>2. Base => TypeOK
  BY DEF Base
<1> QED BY <1>1, <1>2, PTL

-------------------------------------------------------------------------------
(* What the steps of one client change.                                    *)

Untouched(c) == \A d \in Clients \ {c} : pc'[d] = pc[d] /\ job'[d] = job[d]

(* A decision is taken up: rows stay, and a second one on its subject      *)
(* crowds it.                                                              *)
TakenUp(c, op, i, s, central, point) ==
  /\ Untouched(c) /\ pc'[c] = point /\ job'[c] = NewJob(op, i, s, central)
  /\ UNCHANGED <<rowVars, todo, seen, cut, requeued>> /\ crowded \subseteq crowded'
  /\ crowded' \subseteq crowded \cup {s}
  /\ \A d \in Clients : pc[d] \in Deciding /\ job[d].of = s => s \in crowded'
  /\ untold \subseteq untold'

LEMMA BeginTakesUp ==
  ASSUME Base, NEW c \in Clients, NEW op, NEW i, NEW s, NEW central, NEW point,
         Begin(c, op, i, s, central, point), untold \subseteq untold'
  PROVE  TakenUp(c, op, i, s, central, point)
BY DEF Begin, TakenUp, NewJob, Base, TypeOK, Untouched

(* Taken up on what an endpoint has found: a PENDING approval, an open     *)
(* item, or a request.                                                     *)
Taking(c, op, i, s, central, point) ==
  /\ TakenUp(c, op, i, s, central, point) /\ pc[c] = "idle"
  /\ point = "approval" => op \in {"APPROVE", "REJECT"}
  /\ point = "mark" => op = "REJECT"
  /\ point = "close" /\ op = "APPROVE" => s \in Notices
  /\ point = "close" /\ op = "REJECT" => s \notin Approvals
  /\ i = None => s \in Approvals /\ approval[s] = "PENDING" /\ s \in untold'
  /\ i # None => /\ i \in Items /\ item[i].of = s /\ item[i].status # "none"
                 /\ point # "request" => Open(i)
                 /\ point # "mark" /\ (point = "trade" => s \in Proposals)

LEMMA DecideEffect ==
  ASSUME Base, NEW c \in Clients, Decide(c)
  PROVE  \E op \in Decisions, i \in Items \cup {None}, s \in Subjects, central \in BOOLEAN,
            point \in {"approval", "trade", "mark", "close", "request"} :
           Taking(c, op, i, s, central, point)
<1>0. \A i \in Items : i # None
  BY ApprovalsAssumption
<1>1. ASSUME NEW a \in Approvals, NEW op \in {"APPROVE", "REJECT"}, OpenApproval(c, a, op)
      PROVE  /\ TakenUp(c, op, None, a, FALSE, IF op = "APPROVE" THEN "trade" ELSE "mark")
             /\ pc[c] = "idle" /\ approval[a] = "PENDING" /\ a \in untold'
             /\ op \in Decisions /\ a \in Subjects
  <2>1. op \in Decisions /\ a \in Subjects
    BY DEF Decisions, Subjects
  <2>2. /\ Begin(c, op, None, a, FALSE, IF op = "APPROVE" THEN "trade" ELSE "mark")
        /\ approval[a] = "PENDING" /\ untold' = untold \cup {a}
    BY <1>1 DEF OpenApproval
  <2>3. pc[c] = "idle"
    BY <2>2 DEF Begin
  <2> QED BY <2>1, <2>2, <2>3, BeginTakesUp
<1>2. ASSUME NEW i \in Items, NEW op \in {"APPROVE", "REJECT", "SNOOZE"}, OpenItem(c, i, op)
      PROVE  /\ TakenUp(c, op, i, item[i].of, FALSE, FirstPoint(op, item[i].of))
             /\ pc[c] = "idle" /\ Open(i) /\ op \in Decisions
             /\ item[i].of \in Subjects /\ item[i].status # "none"
  <2>1. Begin(c, op, i, item[i].of, FALSE, FirstPoint(op, item[i].of)) /\ Open(i) /\ untold' = untold
    BY <1>2 DEF OpenItem
  <2>2. pc[c] = "idle" /\ op \in Decisions
    BY <2>1 DEF Begin, Decisions
  <2>3. item[i].of \in Subjects /\ item[i].status # "none"
    BY <2>1, OpenItemOf DEF Open, OpenStatuses
  <2> QED BY <2>1, <2>2, <2>3, BeginTakesUp
<1>3. ASSUME NEW i \in Items, NEW op \in Decisions \ {"SNOOZE"}, OpenRequest(c, i, op)
      PROVE  /\ TakenUp(c, op, i, item[i].of, TRUE, "request") /\ pc[c] = "idle"
             /\ item[i].of \in Subjects /\ item[i].status # "none"
  <2>1. Begin(c, op, i, item[i].of, TRUE, "request") /\ request[i] # "none" /\ untold' = untold
    BY <1>3 DEF OpenRequest
  <2>2. pc[c] = "idle"
    BY <2>1 DEF Begin
  <2>3. item[i].of \in Subjects /\ item[i].status # "none"
    BY <2>1, OpenItemOf DEF Base, ItemsShaped
  <2> QED BY <2>1, <2>2, <2>3, BeginTakesUp
<1>4. ASSUME NEW a \in Approvals, NEW op \in {"APPROVE", "REJECT"}, OpenApproval(c, a, op)
      PROVE  \E point \in {"trade", "mark"} : Taking(c, op, None, a, FALSE, point)
  <2> DEFINE point == IF op = "APPROVE" THEN "trade" ELSE "mark"
  <2>1. point \in {"trade", "mark"} /\ (point = "mark" => op = "REJECT")
    OBVIOUS
  <2>2. TakenUp(c, op, None, a, FALSE, point)
    BY <1>1, <1>4
  <2> HIDE DEF point
  <2>3. Taking(c, op, None, a, FALSE, point)
    BY <1>1, <1>4, <2>1, <2>2 DEF Taking
  <2> QED BY <2>1, <2>3
<1>5. ASSUME NEW i \in Items, NEW op \in {"APPROVE", "REJECT", "SNOOZE"}, OpenItem(c, i, op)
      PROVE  \E point \in {"approval", "trade", "close"} :
               Taking(c, op, i, item[i].of, FALSE, point)
  <2> DEFINE point == FirstPoint(op, item[i].of)
  <2>1. /\ point \in {"approval", "trade", "close"} /\ (point = "approval" => op # "SNOOZE")
        /\ point = "trade" => item[i].of \in Proposals
        /\ point = "close" /\ op = "APPROVE" => item[i].of \notin Approvals \cup Proposals
        /\ point = "close" /\ op = "REJECT" => item[i].of \notin Approvals
    BY DEF FirstPoint
  <2>2. TakenUp(c, op, i, item[i].of, FALSE, point)
    BY <1>2, <1>5
  <2> HIDE DEF point
  <2>3. Taking(c, op, i, item[i].of, FALSE, point)
    BY <1>0, <1>2, <1>5, <2>1, <2>2 DEF Taking, Subjects
  <2> QED BY <2>1, <2>3
<1>6. ASSUME NEW i \in Items, NEW op \in Decisions \ {"SNOOZE"}, OpenRequest(c, i, op)
      PROVE  Taking(c, op, i, item[i].of, TRUE, "request")
  BY <1>0, <1>3, <1>6 DEF Taking
<1>7. CASE \E a \in Approvals, op \in {"APPROVE", "REJECT"} : OpenApproval(c, a, op)
  <2>1. PICK a \in Approvals, op \in {"APPROVE", "REJECT"} : OpenApproval(c, a, op)
    BY <1>7
  <2>2. PICK point \in {"trade", "mark"} : Taking(c, op, None, a, FALSE, point)
    BY <1>4, <2>1
  <2>3. op \in Decisions /\ a \in Subjects
    BY <1>1, <2>1
  <2> QED BY <2>2, <2>3
<1>8. CASE \E i \in Items, op \in {"APPROVE", "REJECT", "SNOOZE"} : OpenItem(c, i, op)
  <2>1. PICK i \in Items, op \in {"APPROVE", "REJECT", "SNOOZE"} : OpenItem(c, i, op)
    BY <1>8
  <2>2. PICK point \in {"approval", "trade", "close"} :
          Taking(c, op, i, item[i].of, FALSE, point)
    BY <1>5, <2>1
  <2>3. op \in Decisions /\ item[i].of \in Subjects
    BY <1>2, <2>1
  <2> QED BY <2>2, <2>3
<1>9. CASE \E i \in Items, op \in Decisions \ {"SNOOZE"} : OpenRequest(c, i, op)
  BY <1>3, <1>6, <1>9
<1> QED BY <1>7, <1>8, <1>9 DEF Decide, Decisions

(* A request that goes on stays with its subject; it comes to the later    *)
(* points through the tests of the earlier ones, and rewrites the rows it  *)
(* is about and no others.                                                 *)
Found(c) ==
  /\ pc'[c] \in Deciding => /\ job'[c].of = job[c].of /\ job'[c].item = job[c].item
                            /\ job'[c].op = job[c].op /\ item' = item
  /\ pc'[c] \in {"approval", "trade", "mark", "close"}
       \/ (pc'[c] = "commit" /\ job[c].op \in {"APPROVE", "REJECT"})
     => Open(job[c].item) \/ pc[c] \in {"approval", "trade", "mark"}
  /\ job[c].of \in Approvals /\ (pc'[c] \in {"trade", "mark"} \/ (pc'[c] = "commit" /\ job'[c].live))
     => approval' = approval /\ (approval[job[c].of] = "PENDING" \/ pc[c] = "trade")

OwnRows(c) ==
  /\ \A a \in Approvals \ {job[c].of} : approval'[a] = approval[a]
  /\ \A i \in Items \ {job[c].item} : item'[i] = item[i]

LEMMA StepEffect ==
  ASSUME Base, NEW c \in Clients, Step(c)
  PROVE  /\ Untouched(c) /\ Found(c) /\ OwnRows(c) /\ crowded' = crowded
         /\ pc[c] # "idle" /\ pc'[c] \in Deciding \cup {"idle"}
         /\ pc'[c] \in Deciding => pc[c] \in Deciding
<1>0. /\ pc \in [Clients -> Points] /\ job \in [Clients -> Job] /\ TypeOK
      /\ approval \in [Approvals -> ApprovalStatuses] /\ item \in [Items -> Item]
      /\ job[c] \in Job /\ JobShaped(pc[c], job[c])
  BY DEF Base, TypeOK, JobsShaped
<1>1. ASSUME Leave(c) PROVE Untouched(c) /\ Found(c) /\ pc'[c] = "idle"
  BY <1>0, <1>1, LeaveEffect DEF Untouched, Found, Deciding
<1>2. ASSUME NEW point \in Deciding, GoTo(c, point), job' = job
      PROVE  /\ Untouched(c) /\ pc'[c] = point /\ job'[c].of = job[c].of
             /\ job'[c].item = job[c].item /\ job'[c].op = job[c].op
  BY <1>0, <1>2 DEF GoTo, Untouched
<1>3. CASE LookItem(c)
  <2>1. PICK point \in {"approval", "commit"} :
          /\ GoTo(c, point)
          /\ point = "approval" => Open(job[c].item)
          /\ point = "commit" /\ job[c].op \in {"APPROVE", "REJECT"} => Open(job[c].item)
    BY <1>3 DEF LookItem
  <2>2. /\ pc[c] = "request" /\ job' = job /\ item' = item /\ approval' = approval
        /\ crowded' = crowded /\ point \in Deciding
    BY <1>3, <2>1 DEF LookItem, Deciding, rowVars, history
  <2>3. ~job[c].live
    BY <1>0, <2>2 DEF JobShaped
  <2>4. /\ Untouched(c) /\ pc'[c] = point /\ job'[c].of = job[c].of
        /\ job'[c].item = job[c].item /\ job'[c].op = job[c].op
    BY <1>2, <2>1, <2>2
  <2>5. Found(c)
    BY <2>1, <2>2, <2>3, <2>4 DEF Found, Deciding
  <2> QED BY <2>2, <2>4, <2>5 DEF OwnRows, Deciding
<1>4. CASE LookApproval(c)
  <2> DEFINE live == approval[job[c].of] = "PENDING"
             point == NextPoint(job[c], live)
  <2>1. pc[c] = "approval" /\ UNCHANGED <<rowVars, todo, seen, history>>
    BY <1>4 DEF LookApproval
  <2>2. pc' = [pc EXCEPT ![c] = point] /\ job' = [job EXCEPT ![c].live = live]
    BY <1>4 DEF LookApproval, GoTo
  <2>3. /\ point \in {"commit", "trade", "mark", "close"}
        /\ point = "mark" => live
        /\ point = "trade" => job[c].op = "APPROVE"
    BY DEF NextPoint
  <2>4. job[c].op = "APPROVE" => live
    BY <1>4 DEF LookApproval
  <2>5. job'[c] = [job[c] EXCEPT !.live = live]
    BY <1>0, <2>2
  <2>6. /\ job'[c].of = job[c].of /\ job'[c].item = job[c].item /\ job'[c].op = job[c].op
        /\ job'[c].live = live
    BY <1>0, <2>5 DEF Job
  <2>7. pc'[c] = point /\ Untouched(c)
    BY <1>0, <2>2 DEF Untouched
  <2> HIDE DEF point
  <2>8. Found(c)
    BY <2>1, <2>3, <2>4, <2>6, <2>7 DEF Found, rowVars
  <2> HIDE DEF live
  <2> QED BY <2>1, <2>3, <2>7, <2>8 DEF OwnRows, rowVars, history, Deciding
<1>5. CASE Refused(c)
  BY <1>1, <1>5 DEF Refused, OwnRows, rowVars, history, Deciding
<1>6. CASE Trade(c)
  <2>1. PICK point \in {"mark", "close"} : GoTo(c, point)
    BY <1>6 DEF Trade
  <2>2. pc[c] = "trade" /\ UNCHANGED <<approval, item, request, job, todo, seen, history>>
        /\ point \in Deciding
    BY <1>6 DEF Trade, Deciding
  <2>3. /\ Untouched(c) /\ pc'[c] = point /\ job'[c].of = job[c].of
        /\ job'[c].item = job[c].item /\ job'[c].op = job[c].op
    BY <1>2, <2>1, <2>2
  <2>4. Found(c)
    BY <2>1, <2>2, <2>3 DEF Found
  <2> QED BY <2>2, <2>3, <2>4 DEF OwnRows, history, Deciding
<1>7. CASE Mark(c)
  <2>1. /\ pc[c] = "mark" /\ UNCHANGED <<item, request, trades, history>>
        /\ approval' = [approval EXCEPT ![job[c].of] = Verdict(job[c].op)]
    BY <1>7 DEF Mark
  <2>2. OwnRows(c)
    BY <1>0, <2>1 DEF OwnRows
  <2>3. CASE job[c].item = None
    BY <1>1, <1>7, <2>1, <2>2, <2>3 DEF Mark, history, Deciding
  <2>4. CASE job[c].item # None
    <3>1. GoTo(c, "close") /\ job' = job /\ "close" \in Deciding
      BY <1>7, <2>4 DEF Mark, Deciding
    <3>2. /\ Untouched(c) /\ pc'[c] = "close" /\ job'[c].of = job[c].of
          /\ job'[c].item = job[c].item /\ job'[c].op = job[c].op
      BY <1>2, <3>1
    <3>3. Found(c)
      BY <2>1, <3>2 DEF Found
    <3> QED BY <2>1, <2>2, <3>2, <3>3 DEF history, Deciding
  <2> QED BY <2>3, <2>4
<1>8. CASE Close(c)
  <2>1. pc[c] = "close" /\ Leave(c) /\ UNCHANGED <<approval, history>>
    BY <1>8 DEF Close
  <2>2. OwnRows(c)
    BY <1>0, <1>8 DEF Close, OwnRows
  <2> QED BY <1>1, <2>1, <2>2 DEF history, Deciding
<1>9. CASE Commit(c)
  <2>1. pc[c] = "commit" /\ Leave(c) /\ UNCHANGED history
    BY <1>9 DEF Commit
  <2>2. OwnRows(c)
    BY <1>0, <1>9 DEF Commit, OwnRows
  <2> QED BY <1>1, <2>1, <2>2 DEF history, Deciding
<1>10. CASE Die(c)
  BY <1>1, <1>10 DEF Die, OwnRows, rowVars, Deciding
<1> QED BY <1>3, <1>4, <1>5, <1>6, <1>7, <1>8, <1>9, <1>10 DEF Step, Deciding

(* Queueing leaves decisions and trades alone, and writes to rows that     *)
(* were not there.                                                         *)
LEMMA QueueingEffect ==
  ASSUME Base, NEW c \in Clients, Queueing(c)
  PROVE  /\ Untouched(c) /\ crowded' = crowded /\ cut' = cut /\ trades' = trades
         /\ pc[c] \notin Deciding /\ pc'[c] \notin Deciding
         /\ \A a \in Approvals : \/ approval'[a] = approval[a]
                                 \/ approval[a] = "none" /\ approval'[a] = "PENDING"
         /\ \A i \in Items : item'[i] = item[i] \/ (item[i].status = "none" /\ item'[i].of \in Approvals)
<1>0. /\ pc \in [Clients -> Points] /\ job \in [Clients -> Job] /\ TypeOK
      /\ approval \in [Approvals -> ApprovalStatuses] /\ item \in [Items -> Item]
      /\ JobShaped(pc[c], job[c])
  BY DEF Base, TypeOK, JobsShaped
<1>1. ASSUME NEW a, Queued(c, a) PROVE Untouched(c) /\ pc'[c] \notin Deciding
  BY <1>1, QueuedEffect DEF Untouched, Deciding
<1>2. CASE Rebuild(c)
  BY <1>0, <1>2 DEF Rebuild, GoTo, Untouched, Deciding, rowVars, history
<1>3. CASE Create(c)
  <2>1. /\ Queued(c, job[c].of) /\ NewItem(job[c].of) /\ UNCHANGED <<approval, request, trades, history>>
        /\ pc[c] = "create" /\ job[c].of \in Approvals
    BY <1>0, <1>3 DEF Create, JobShaped
  <2>2. \A i \in Items : item'[i] = item[i] \/ (item[i].status = "none" /\ item'[i].of \in Approvals)
    BY <1>0, <2>1 DEF NewItem, Fresh
  <2> QED BY <1>1, <2>1, <2>2 DEF history, Deciding
<1>4. CASE SyncLoad(c)
  BY <1>0, <1>4 DEF SyncLoad, GoTo, Untouched, Deciding, rowVars, history
<1>5. CASE SyncSave(c)
  <2>1. pc[c] = "seen" /\ Leave(c) /\ UNCHANGED <<approval, item, trades, history>>
    BY <1>5 DEF SyncSave
  <2> QED BY <1>0, <2>1, LeaveEffect DEF Untouched, Deciding, history
<1>6. ASSUME NEW a \in Approvals, Escalate(c, a)
      PROVE  /\ Untouched(c) /\ pc[c] \notin Deciding /\ pc'[c] \notin Deciding
             /\ UNCHANGED <<item, trades, history>>
             /\ \A b \in Approvals : \/ approval'[b] = approval[b]
                                     \/ approval[b] = "none" /\ approval'[b] = "PENDING"
  BY <1>0, <1>6 DEF Escalate, GoTo, Untouched, Deciding
<1>7. ASSUME NEW a \in Approvals, Ensure(c, a)
      PROVE  /\ Untouched(c) /\ pc[c] \notin Deciding /\ pc'[c] \notin Deciding
             /\ UNCHANGED <<rowVars, crowded, cut>>
  <2>1. pc[c] = "ensure" /\ UNCHANGED <<rowVars, crowded, cut>>
    BY <1>7 DEF Ensure
  <2>2. CASE Queued(c, a)
    BY <1>1, <2>1, <2>2 DEF Deciding
  <2>3. CASE ~Queued(c, a)
    <3>1. GoTo(c, "create") /\ job' = [job EXCEPT ![c].of = a]
      BY <1>7, <2>3 DEF Ensure
    <3> QED BY <1>0, <2>1, <3>1 DEF GoTo, Untouched, Deciding
  <2> QED BY <2>2, <2>3
<1> QED BY <1>2, <1>3, <1>4, <1>5, <1>6, <1>7 DEF Queueing, rowVars, history

-------------------------------------------------------------------------------
(* What a decision has found still holds when it acts on it.               *)

Held == Alone /\ StillOpen /\ StillPending

AtItem(c) ==
  \/ pc[c] \in {"approval", "trade", "mark", "close"}
  \/ pc[c] = "commit" /\ job[c].op \in {"APPROVE", "REJECT"}

AtApproval(c) == pc[c] \in {"trade", "mark"} \/ (pc[c] = "commit" /\ job[c].live)

OpenFor(c) == job[c].item # None /\ job[c].of \notin crowded /\ AtItem(c) => Open(job[c].item)

PendingFor(c) ==
  job[c].of \in Approvals \ crowded /\ AtApproval(c) => approval[job[c].of] = "PENDING"

LEMMA HeldParts ==
  /\ StillOpen <=> \A c \in Clients : OpenFor(c)
  /\ StillPending <=> \A c \in Clients : PendingFor(c)
BY DEF StillOpen, StillPending, OpenFor, PendingFor, AtItem, AtApproval

LEMMA HeldPartsAfter ==
  ASSUME Alone', \A c \in Clients : OpenFor(c)' /\ PendingFor(c)'
  PROVE  Held'
BY DEF Held, StillOpen, StillPending, OpenFor, PendingFor, AtItem, AtApproval

LEMMA AtDeciding ==
  ASSUME NEW c \in Clients
  PROVE  AtItem(c) \/ AtApproval(c) => pc[c] \in Deciding
BY DEF AtItem, AtApproval, Deciding

(* Another client's decision is not disturbed: what is rewritten is about  *)
(* another subject, or the two are crowded.                                *)
LEMMA OthersHeld ==
  ASSUME Base, Held, NEW d \in Clients, pc'[d] = pc[d], job'[d] = job[d],
         crowded \subseteq crowded',
         pc[d] \in Deciding /\ job[d].of \notin crowded =>
           /\ job[d].item # None => item'[job[d].item] = item[job[d].item]
           /\ job[d].of \in Approvals /\ approval[job[d].of] = "PENDING"
                => approval'[job[d].of] = "PENDING"
  PROVE  OpenFor(d)' /\ PendingFor(d)'
<1>1. OpenFor(d) /\ PendingFor(d)
  BY HeldParts DEF Held
<1>2. OpenFor(d)'
  BY <1>1, AtDeciding DEF OpenFor, AtItem, Open
<1>3. PendingFor(d)'
  BY <1>1, AtDeciding DEF PendingFor, AtApproval
<1> QED BY <1>2, <1>3

LEMMA HeldDecide ==
  ASSUME Base, Held, NEW c \in Clients, Decide(c)
  PROVE  Held'
<1>1. PICK op \in Decisions, i \in Items \cup {None}, s \in Subjects, central \in BOOLEAN,
           point \in {"approval", "trade", "mark", "close", "request"} :
        Taking(c, op, i, s, central, point)
  BY DecideEffect
<1>2. /\ Untouched(c) /\ pc'[c] = point /\ job'[c] = NewJob(op, i, s, central)
      /\ item' = item /\ approval' = approval /\ crowded \subseteq crowded'
      /\ \A d \in Clients : pc[d] \in Deciding /\ job[d].of = s => s \in crowded'
  BY <1>1 DEF Taking, TakenUp, rowVars
<1>3. job'[c].of = s /\ job'[c].item = i /\ job'[c].op = op /\ job'[c].live = FALSE
  BY <1>2 DEF NewJob
<1>4. Alone'
  BY <1>2, <1>3 DEF Alone, Held, Untouched
<1>5. ASSUME NEW d \in Clients \ {c} PROVE OpenFor(d)' /\ PendingFor(d)'
  BY <1>2, OthersHeld DEF Untouched
<1>6. OpenFor(c)'
  <2>1. i # None /\ point # "request" => Open(i)
    BY <1>1 DEF Taking
  <2> QED BY <1>2, <1>3, <2>1 DEF OpenFor, AtItem, Open
<1>7. PendingFor(c)'
  <2>1. s \in Approvals /\ point \in {"trade", "mark"} => approval[s] = "PENDING"
    BY <1>1, ApprovalsAssumption DEF Taking
  <2> QED BY <1>2, <1>3, <2>1 DEF PendingFor, AtApproval
<1> QED BY <1>4, <1>5, <1>6, <1>7, HeldPartsAfter

LEMMA HeldStep ==
  ASSUME Base, Held, NEW c \in Clients, Step(c)
  PROVE  Held'
<1>1. /\ Untouched(c) /\ Found(c) /\ OwnRows(c) /\ crowded' = crowded
      /\ pc[c] # "idle" /\ pc'[c] \in Deciding \cup {"idle"}
      /\ pc'[c] \in Deciding => pc[c] \in Deciding
  BY StepEffect
<1>2. OpenFor(c) /\ PendingFor(c)
  BY HeldParts DEF Held
<1>3. Alone'
  BY <1>1 DEF Alone, Held, Untouched, Found
<1>4. ASSUME NEW d \in Clients \ {c} PROVE OpenFor(d)' /\ PendingFor(d)'
  <2>1. CASE pc[c] \in Deciding
    <3>1. pc[d] \in Deciding /\ job[d].of \notin crowded => job[d].of # job[c].of
      BY <2>1 DEF Held, Alone
    <3>2. /\ job[d] \in Job /\ job[c] \in Job
          /\ job[d].item # None => item[job[d].item].of = job[d].of /\ job[d].item \in Items
          /\ job[c].item # None => item[job[c].item].of = job[c].of
      BY DEF Base, TypeOK, JobsShaped, JobShaped, Job
    <3>3. job[d].item # None /\ job[d].item = job[c].item => job[d].of = job[c].of
      BY <3>2
    <3>4. /\ pc[d] \in Deciding /\ job[d].of \notin crowded /\ job[d].item # None
                => item'[job[d].item] = item[job[d].item]
          /\ pc[d] \in Deciding /\ job[d].of \notin crowded /\ job[d].of \in Approvals
                => approval'[job[d].of] = approval[job[d].of]
      BY <1>1, <3>1, <3>2, <3>3 DEF OwnRows
    <3> QED BY <1>1, <3>4, OthersHeld DEF Untouched
  <2>2. CASE pc[c] \notin Deciding
    <3>1. Die(c)
      BY <2>2 DEF Step, LookItem, LookApproval, Refused, Trade, Mark, Close, Commit, Deciding
    <3>2. item' = item /\ approval' = approval
      BY <3>1 DEF Die, rowVars
    <3> QED BY <1>1, <3>2, OthersHeld DEF Untouched
  <2> QED BY <2>1, <2>2
<1>5. OpenFor(c)'
  BY <1>1, <1>2, AtDeciding DEF OpenFor, AtItem, Found, Open, Deciding
<1>6. PendingFor(c)'
  BY <1>1, <1>2, AtDeciding DEF PendingFor, AtApproval, Found, Deciding
<1> QED BY <1>3, <1>4, <1>5, <1>6, HeldPartsAfter

LEMMA HeldQuiet ==
  ASSUME Base, Held, crowded' = crowded, \A d \in Clients : pc[d] \in Deciding => pc'[d] = pc[d] /\ job'[d] = job[d],
         \A d \in Clients : pc'[d] \in Deciding => pc[d] \in Deciding,
         \A a \in Approvals : approval'[a] = approval[a] \/ approval[a] = "none",
         \A i \in Items : item'[i] = item[i] \/ item[i].status = "none"
  PROVE  Held'
<1>1. Alone'
  BY DEF Alone, Held
<1>2. ASSUME NEW d \in Clients PROVE OpenFor(d)' /\ PendingFor(d)'
  <2>1. CASE pc[d] \in Deciding
    <3>1. /\ job[d] \in Job
          /\ job[d].item # None => item[job[d].item].status # "none" /\ job[d].item \in Items
      BY DEF Base, TypeOK, JobsShaped, JobShaped, Job
    <3> QED BY <2>1, <3>1, OthersHeld
  <2>2. CASE pc[d] \notin Deciding
    BY <2>2, AtDeciding DEF OpenFor, PendingFor, AtItem, AtApproval, Deciding
  <2> QED BY <2>1, <2>2
<1> QED BY <1>1, <1>2, HeldPartsAfter

LEMMA HeldNext == Base /\ Held /\ [Next]_vars => Held'
<1> SUFFICES ASSUME Base, Held, [Next]_vars PROVE Held'
  OBVIOUS
<1>1. ASSUME NEW c \in Clients, Queueing(c) PROVE Held'
  BY <1>1, QueueingEffect, HeldQuiet DEF Untouched
<1>2. ASSUME NEW s \in Proposals \cup Notices, QueueDirect(s) PROVE Held'
  <2>1. UNCHANGED <<approval, pc, job, crowded>> /\ NewItem(s)
    BY <1>2 DEF QueueDirect, history
  <2>2. \A i \in Items : item'[i] = item[i] \/ item[i].status = "none"
    BY <2>1 DEF NewItem, Fresh, Base, TypeOK
  <2> QED BY <2>1, <2>2, HeldQuiet
<1>3. CASE UNCHANGED vars
  <2>1. UNCHANGED <<approval, item, pc, job, crowded>>
    BY <1>3 DEF vars, rowVars, history
  <2> QED BY <2>1, HeldQuiet
<1> QED BY <1>1, <1>2, <1>3, HeldDecide, HeldStep DEF Next

Sure == Base /\ Held

LEMMA SureAlways == Spec => []Sure
<1>1. Init => Held
  BY DEF Init, Held, Alone, StillOpen, StillPending, NoJob, Deciding
<1>2. Init => Sure
  BY <1>1, BaseInit DEF Sure
<1>3. Sure /\ [Next]_vars => Sure'
  BY BaseNext, HeldNext DEF Sure
<1> QED BY <1>2, <1>3, PTL DEF Spec

Closed(i) == item[i].status \notin OpenStatuses \cup {"none"}

(* Only saving writes to an item, on the strength of an earlier look.      *)
LEMMA Saving ==
  ASSUME Sure, NEW c \in Clients, Step(c), NEW i \in Items, item'[i] # item[i]
  PROVE  /\ i = job[c].item /\ item[i].of = job[c].of /\ item'[i].of = item[i].of
         /\ item[i].status # "none" /\ pc[c] \in {"close", "commit"}
         /\ item'[i].status = Closing(job[c].op, job[c].of) /\ job[c].op # "ESCALATE"
         /\ pc[c] = "close" => Close(c) /\ (job[c].of \notin crowded => Open(i))
         /\ pc[c] = "commit" => /\ Commit(c) /\ job[c].op # "SNOOZE"
                                /\ request'[i] \in {"APPROVED", "REJECTED", "EXPIRED"}
                                /\ job[c].op \in {"APPROVE", "REJECT"} /\ job[c].of \notin crowded => Open(i)
<1>1. Close(c) \/ Commit(c)
  BY DEF Step, LookItem, LookApproval, Refused, Trade, Mark, Die, rowVars
<1>2. /\ JobShaped(pc[c], job[c]) /\ OpenFor(c) /\ job[c] \in Job /\ item \in [Items -> Item]
      /\ request \in [Items -> RequestStatuses]
  BY HeldParts DEF Sure, Held, Base, TypeOK, JobsShaped
<1>3. /\ i = job[c].item /\ job[c].op # "ESCALATE" /\ job[c].item # None
      /\ item' = [item EXCEPT ![job[c].item].status = Closing(job[c].op, job[c].of)]
  BY <1>1, <1>2, ApprovalsAssumption DEF Close, Commit, JobShaped
<1>4. /\ item'[i].status = Closing(job[c].op, job[c].of) /\ item'[i].of = item[i].of
      /\ item[i].of = job[c].of /\ item[i].status # "none"
  BY <1>2, <1>3 DEF JobShaped, Item
<1>5. CASE Close(c)
  <2>1. pc[c] = "close" /\ (job[c].of \notin crowded => Open(i))
    BY <1>2, <1>3, <1>5 DEF Close, OpenFor, AtItem
  <2> QED BY <1>3, <1>4, <1>5, <2>1
<1>6. CASE Commit(c)
  <2>1. pc[c] = "commit" /\ request' = [request EXCEPT ![i] = Shown(job[c].op)] /\ job[c].op # "SNOOZE"
    BY <1>2, <1>3, <1>6 DEF Commit, JobShaped
  <2>2. request'[i] \in {"APPROVED", "REJECTED", "EXPIRED"}
    BY <1>2, <1>3, <2>1 DEF Shown, STATUS_BY_DECISION, Job, Decisions
  <2>3. job[c].op \in {"APPROVE", "REJECT"} /\ job[c].of \notin crowded => Open(i)
    BY <1>2, <1>3, <2>1 DEF OpenFor, AtItem
  <2> QED BY <1>3, <1>4, <1>6, <2>1, <2>2, <2>3
<1> QED BY <1>1, <1>5, <1>6

LEMMA OthersAdd ==
  ASSUME Sure, [Next]_vars, \A c \in Clients : ~Step(c), NEW i \in Items, item'[i] # item[i]
  PROVE  item[i].status = "none" /\ item'[i].status = "PENDING"
<1>1. ASSUME NEW c \in Clients, Decide(c) PROVE FALSE
  BY <1>1, DecideEffect DEF Taking, TakenUp, rowVars, Sure
<1>2. ASSUME NEW s, NewItem(s) PROVE item[i].status = "none" /\ item'[i].status = "PENDING"
  BY <1>2 DEF NewItem, Fresh, Sure, Base, TypeOK
<1>3. ASSUME NEW c \in Clients, Queueing(c) PROVE \E s : NewItem(s)
  <2>1. Create(c)
    BY <1>3 DEF Queueing, Rebuild, SyncLoad, SyncSave, Escalate, Ensure, rowVars
  <2> QED BY <2>1 DEF Create
<1> QED BY <1>1, <1>2, <1>3 DEF Next, vars, rowVars, QueueDirect

(* A row that was open or new can be open; a closed one cannot.            *)
LEMMA ClosedFinal ==
  ASSUME Sure, [Next]_vars, NEW i \in Items, Closed(i), item[i].of \notin crowded
  PROVE  Closed(i)'
<1>1. CASE item'[i] = item[i]
  BY <1>1 DEF Closed
<1>2. ASSUME item'[i] # item[i], NEW c \in Clients, Step(c) PROVE Closed(i)'
  <2>1. pc[c] = "commit" /\ job[c].op # "SNOOZE" /\ item'[i].status = Closing(job[c].op, job[c].of)
    BY <1>2, Saving DEF Closed, Open
  <2> QED BY <2>1 DEF Closed, Closing, OpenStatuses
<1>3. CASE item'[i] # item[i] /\ \A c \in Clients : ~Step(c)
  BY <1>3, OthersAdd DEF Closed
<1> QED BY <1>1, <1>2, <1>3

(* A closed item is never opened again, whatever statuses the requests     *)
(* under way have looked at before, as long as its subject is not crowded. *)
THEOREM ClosedItemsStayClosed == Spec => ClosedStaysClosed
<1>1. Sure /\ [Next]_vars =>
        [\A i \in Items :
           item[i].status \notin OpenStatuses \cup {"none"} /\ item[i].of \notin crowded =>
             item'[i].status \notin OpenStatuses \cup {"none"}]_vars
  BY ClosedFinal DEF Closed
<1> QED BY <1>1, SureAlways, PTL DEF Spec, ClosedStaysClosed

-------------------------------------------------------------------------------
(* The approval center never shows as decided what is still open.          *)

Decided == {"APPROVED", "REJECTED", "EXPIRED"}

(* Why: nor has a sync under way loaded it so.                             *)
SeenTrue ==
  \A c \in Clients, i \in Items :
    seen[c][i] \notin OpenStatuses \cup {"none"} /\ item[i].of \notin crowded => ~Open(i)

Mirrored == MirrorNeverAhead /\ SeenTrue

LEMMA CrowdedGrows == Sure /\ [Next]_vars => crowded \subseteq crowded'
<1> SUFFICES ASSUME Sure, [Next]_vars PROVE crowded \subseteq crowded'
  OBVIOUS
<1>1. ASSUME NEW c \in Clients, Decide(c) PROVE crowded \subseteq crowded'
  BY <1>1, DecideEffect DEF Taking, TakenUp, Sure
<1> QED BY <1>1, StepEffect, QueueingEffect DEF Next, vars, history, QueueDirect, Sure

(* What is not open, and there, stays so.                                  *)
LEMMA ShutStays ==
  ASSUME Sure, [Next]_vars, NEW i \in Items, item[i].status # "none" /\ (item[i].of \notin crowded => ~Open(i))
  PROVE  item'[i].of \notin crowded' => ~Open(i)'
<1>1. item'[i].of = item[i].of
  <2>1. CASE \E c \in Clients : Step(c)
    BY <2>1, Saving
  <2>2. CASE \A c \in Clients : ~Step(c)
    BY <2>2, OthersAdd
  <2> QED BY <2>1, <2>2
<1>2. item[i].of \notin crowded => Closed(i)'
  BY ClosedFinal DEF Closed, Open
<1> QED BY <1>1, <1>2, CrowdedGrows DEF Closed, Open

LEMMA ShownEffect ==
  ASSUME Sure, [Next]_vars, NEW i \in Items, request'[i] \in Decided
  PROVE  \/ request'[i] = request[i]
         \/ \E c \in Clients : seen[c][i] \notin OpenStatuses \cup {"none"}
         \/ ~Open(i)'
<1>0. request \in [Items -> RequestStatuses] /\ item \in [Items -> Item]
      /\ seen \in [Clients -> [Items -> ItemStatuses]]
  BY DEF Sure, Base, TypeOK
<1>1. CASE request' = request
  BY <1>1
<1>2. ASSUME NEW c \in Clients, SyncSave(c)
      PROVE  request'[i] = request[i] \/ seen[c][i] \notin OpenStatuses \cup {"none"}
  <2>1. request'[i] = IF seen[c][i] = "none" THEN request[i] ELSE OPERATOR_STATUS_MAP[seen[c][i]]
    BY <1>2 DEF SyncSave
  <2>2. seen[c][i] \in OpenStatuses => OPERATOR_STATUS_MAP[seen[c][i]] = "PENDING"
    BY DEF OPERATOR_STATUS_MAP, OpenStatuses
  <2> QED BY <2>1, <2>2 DEF Decided
<1>3. ASSUME NEW c \in Clients, Commit(c), request'[i] # request[i] PROVE ~Open(i)'
  <2>1. /\ i = job[c].item /\ request'[i] = Shown(job[c].op) /\ pc[c] = "commit"
        /\ job[c] \in Job /\ JobShaped(pc[c], job[c])
    BY <1>0, <1>3 DEF Commit, Sure, Base, TypeOK, JobsShaped
  <2>2. job[c].op \in {"APPROVE", "REJECT", "EXPIRE"}
    BY <2>1 DEF Shown, STATUS_BY_DECISION, Decided, Job, Decisions, JobShaped
  <2>3. item'[i].status = Closing(job[c].op, job[c].of)
    BY <1>0, <1>3, <2>1, <2>2 DEF Commit, Item
  <2> QED BY <2>2, <2>3 DEF Closing, Open, OpenStatuses
<1>4. ASSUME NEW c \in Clients, Step(c), ~Commit(c) PROVE request' = request
  BY <1>4 DEF Step, LookItem, LookApproval, Refused, Trade, Mark, Close, Die, rowVars
<1>5. ASSUME NEW c \in Clients, Queueing(c), ~SyncSave(c) PROVE request' = request
  BY <1>5 DEF Queueing, Rebuild, Create, SyncLoad, Escalate, Ensure, rowVars
<1>6. ASSUME NEW c \in Clients, Decide(c) PROVE request' = request
  BY <1>6, DecideEffect DEF Taking, TakenUp, rowVars, Sure
<1>7. CASE UNCHANGED vars \/ \E s \in Proposals \cup Notices : QueueDirect(s)
  BY <1>7 DEF vars, rowVars, QueueDirect
<1> QED BY <1>1, <1>2, <1>3, <1>4, <1>5, <1>6, <1>7 DEF Next

LEMMA SeenEffect ==
  ASSUME Sure, [Next]_vars, NEW c \in Clients, NEW i \in Items
  PROVE  \/ seen'[c][i] \in {seen[c][i], "none"}
         \/ seen'[c][i] = item[i].status /\ item' = item /\ crowded' = crowded
<1>0. TypeOK /\ Base /\ seen \in [Clients -> [Items -> ItemStatuses]]
  BY DEF Sure, Base, TypeOK
<1>1. ASSUME NEW d \in Clients, Leave(d) PROVE seen'[c][i] \in {seen[c][i], "none"}
  BY <1>0, <1>1, LeaveEffect
<1>2. ASSUME NEW d \in Clients, Step(d) PROVE seen'[c][i] \in {seen[c][i], "none"}
  BY <1>1, <1>2 DEF Step, LookItem, LookApproval, Refused, Trade, Mark, Close, Commit, Die
<1>3. ASSUME NEW d \in Clients, SyncLoad(d)
      PROVE  \/ seen'[c][i] \in {seen[c][i], "none"}
             \/ seen'[c][i] = item[i].status /\ item' = item /\ crowded' = crowded
  BY <1>0, <1>3 DEF SyncLoad, rowVars, history
<1>4. ASSUME NEW d \in Clients, NEW a, Queued(d, a) PROVE seen'[c][i] \in {seen[c][i], "none"}
  BY <1>0, <1>4, QueuedEffect
<1>5. ASSUME NEW d \in Clients, Queueing(d), ~SyncLoad(d)
      PROVE  seen'[c][i] \in {seen[c][i], "none"}
  <2>1. CASE SyncSave(d)
    BY <1>1, <2>1 DEF SyncSave
  <2>2. CASE Create(d)
    BY <1>4, <2>2 DEF Create
  <2>3. ASSUME NEW a \in Approvals, Ensure(d, a) PROVE seen'[c][i] \in {seen[c][i], "none"}
    BY <1>4, <2>3 DEF Ensure
  <2> QED BY <1>5, <2>1, <2>2, <2>3 DEF Queueing, Rebuild, Escalate
<1>6. ASSUME NEW d \in Clients, Decide(d) PROVE seen'[c][i] = seen[c][i]
  BY <1>0, <1>6, DecideEffect DEF Taking, TakenUp
<1>7. CASE UNCHANGED vars \/ \E s \in Proposals \cup Notices : QueueDirect(s)
  BY <1>7 DEF vars, QueueDirect
<1> QED BY <1>2, <1>3, <1>5, <1>6, <1>7 DEF Next

LEMMA MirroredNext == Sure /\ Mirrored /\ [Next]_vars => Mirrored'
<1> SUFFICES ASSUME Sure, Mirrored, [Next]_vars PROVE Mirrored'
  OBVIOUS
<1>1. \A i \in Items : /\ request[i] # "none" => item[i].status # "none"
                       /\ \A c \in Clients : seen[c][i] # "none" => item[i].status # "none"
  BY DEF Sure, Base, ItemsShaped
<1>2. ASSUME NEW c \in Clients, NEW i \in Items,
             seen'[c][i] \notin OpenStatuses \cup {"none"}, item'[i].of \notin crowded'
      PROVE  ~Open(i)'
  <2>1. CASE seen'[c][i] = seen[c][i]
    BY <1>1, <1>2, <2>1, ShutStays DEF Mirrored, SeenTrue
  <2>2. CASE seen'[c][i] = item[i].status /\ item' = item /\ crowded' = crowded
    BY <1>2, <2>2 DEF Open
  <2> QED BY <1>2, <2>1, <2>2, SeenEffect
<1>3. ASSUME NEW i \in Items, request'[i] \in Decided, item'[i].of \notin crowded'
      PROVE  ~Open(i)'
  <2>1. CASE request'[i] = request[i]
    BY <1>1, <1>3, <2>1, ShutStays DEF Mirrored, MirrorNeverAhead, Decided
  <2>2. ASSUME NEW c \in Clients, seen[c][i] \notin OpenStatuses \cup {"none"} PROVE ~Open(i)'
    BY <1>1, <1>3, <2>2, ShutStays DEF Mirrored, SeenTrue
  <2> QED BY <1>3, <2>1, <2>2, ShownEffect
<1>4. MirrorNeverAhead'
  BY <1>3 DEF MirrorNeverAhead, Decided
<1>5. SeenTrue'
  BY <1>2 DEF SeenTrue
<1> QED BY <1>4, <1>5 DEF Mirrored

(* A request of the approval center that shows a decision belongs to an    *)
(* item that is closed, although a sync saves the statuses it has loaded   *)
(* at some earlier moment, unless the subject is crowded.                  *)
THEOREM RequestsLagBehind == Spec => []MirrorNeverAhead
<1>1. Init => Mirrored
  BY DEF Init, Mirrored, MirrorNeverAhead, SeenTrue
<1>2. Mirrored => MirrorNeverAhead
  BY DEF Mirrored
<1> QED BY <1>1, <1>2, MirroredNext, SureAlways, PTL DEF Spec

-------------------------------------------------------------------------------
(* The rows tell what was traded.                                          *)

LEMMA Undisturbed ==
  ASSUME NEW s \in Subjects, TrueFor(s), trades'[s] = trades[s],
         s \in Approvals =>
           /\ approval'[s] = "EXECUTED" <=> approval[s] = "EXECUTED"
           /\ \A c \in Clients : About(c, "mark", s)' <=> About(c, "mark", s),
         s \in Proposals =>
           /\ \A i \in Items : item[i].of = s => item'[i] = item[i]
           /\ \A i \in Items : item'[i].of = s => item[i].of = s
           /\ \A c \in Clients : About(c, "close", s)' <=> About(c, "close", s)
  PROVE  TrueFor(s)'
<1>1. s \in Approvals => ApprovalTrue(s)'
  BY DEF TrueFor, ApprovalTrue
<1>2. s \in Proposals => ProposalTrue(s)'
  BY DEF TrueFor, ProposalTrue, Open
<1> QED BY <1>1, <1>2 DEF TrueFor

LEMMA DecideTrue ==
  ASSUME Sure, NEW c \in Clients, Decide(c), NEW s \in Subjects, TrueFor(s)
  PROVE  TrueFor(s)'
<1>1. PICK op \in Decisions, i \in Items \cup {None}, t \in Subjects, central \in BOOLEAN,
           point \in {"approval", "trade", "mark", "close", "request"} :
        Taking(c, op, i, t, central, point)
  BY DecideEffect DEF Sure
<1>2. /\ Untouched(c) /\ pc'[c] = point /\ job'[c] = NewJob(op, i, t, central) /\ pc[c] = "idle"
      /\ item' = item /\ approval' = approval /\ trades' = trades
  BY <1>1 DEF Taking, TakenUp, rowVars
<1>3. job'[c].of = t /\ job'[c].op = op
  BY <1>2 DEF NewJob
<1>4. (point = "mark" => op = "REJECT") /\ (point = "close" /\ op = "APPROVE" => t \in Notices)
  BY <1>1 DEF Taking
<1>5. ~About(c, "mark", s) /\ ~About(c, "close", s) /\ ~About(c, "mark", s)'
      /\ (s \in Proposals => ~About(c, "close", s)')
  BY <1>2, <1>3, <1>4, ApprovalsAssumption DEF About
<1>6. \A d \in Clients \ {c} : /\ About(d, "mark", s)' <=> About(d, "mark", s)
                               /\ About(d, "close", s)' <=> About(d, "close", s)
  BY <1>2 DEF About, Untouched
<1> QED BY <1>2, <1>5, <1>6, Undisturbed

LEMMA QueueingTrue ==
  ASSUME Sure, NEW c \in Clients, Queueing(c), NEW s \in Subjects, TrueFor(s)
  PROVE  TrueFor(s)'
<1>1. /\ Untouched(c) /\ trades' = trades /\ pc[c] \notin Deciding /\ pc'[c] \notin Deciding
      /\ \A a \in Approvals : \/ approval'[a] = approval[a]
                              \/ approval[a] = "none" /\ approval'[a] = "PENDING"
      /\ \A i \in Items : item'[i] = item[i] \/ (item[i].status = "none" /\ item'[i].of \in Approvals)
  BY QueueingEffect DEF Sure
<1>2. \A d \in Clients : /\ About(d, "mark", s)' <=> About(d, "mark", s)
                         /\ About(d, "close", s)' <=> About(d, "close", s)
  BY <1>1 DEF About, Untouched, Deciding
<1>3. \A i \in Items : item[i].status = "none" => item[i].of # s
  BY ApprovalsAssumption DEF Sure, Base, ItemsShaped
<1> QED BY <1>1, <1>2, <1>3, Undisturbed, ApprovalsAssumption

LEMMA DirectTrue ==
  ASSUME Sure, NEW t \in Proposals \cup Notices, QueueDirect(t), NEW s \in Subjects, TrueFor(s)
  PROVE  TrueFor(s)'
<1>1. /\ UNCHANGED <<approval, trades, pc, job>> /\ t \notin BroughtUp /\ NewItem(t)
  BY DEF QueueDirect
<1>2. \A d \in Clients : /\ About(d, "mark", s)' <=> About(d, "mark", s)
                         /\ About(d, "close", s)' <=> About(d, "close", s)
  BY <1>1 DEF About
<1>3. PICK k \in Items : item[k].status = "none" /\ item' = [item EXCEPT ![k] = [status |-> "PENDING", of |-> t]]
  BY <1>1 DEF NewItem, Fresh
<1>4. /\ \A i \in Items \ {k} : item'[i] = item[i]
      /\ item'[k].of = t /\ item[k].of = None
  BY <1>3 DEF Sure, Base, TypeOK, ItemsShaped
<1>5. CASE s # t
  BY <1>1, <1>2, <1>4, <1>5, Undisturbed, ApprovalsAssumption
<1>6. CASE s = t /\ s \in Proposals
  <2>1. \A i \in Items : item[i].of # s
    BY <1>1, <1>6, ApprovalsAssumption DEF BroughtUp, Fresh, Sure, Base, ItemsShaped
  <2>2. trades[s] = 0
    BY <1>6, <2>1 DEF TrueFor, ProposalTrue
  <2>3. \A d \in Clients : ~About(d, "close", s)'
    BY <1>2, <1>6, <2>2 DEF TrueFor, ProposalTrue
  <2>4. ProposalTrue(s)'
    BY <1>1, <2>2, <2>3 DEF ProposalTrue
  <2> QED BY <1>1, <1>6, <2>2, <2>4, ApprovalsAssumption DEF TrueFor
<1>7. CASE s = t /\ s \in Notices
  BY <1>1, <1>7, ApprovalsAssumption DEF TrueFor
<1> QED BY <1>5, <1>6, <1>7

(* A step of a request about another subject.                              *)
LEMMA ElsewhereTrue ==
  ASSUME Sure, NEW c \in Clients, Step(c), NEW s \in Subjects, TrueFor(s),
         job[c].of # s \/ pc[c] \notin Deciding
  PROVE  TrueFor(s)' /\ trades'[s] = trades[s]
<1>1. /\ Untouched(c) /\ Found(c) /\ OwnRows(c) /\ pc'[c] \in Deciding \cup {"idle"}
      /\ pc'[c] \in Deciding => pc[c] \in Deciding
  BY StepEffect DEF Sure
<1>2. /\ JobShaped(pc[c], job[c]) /\ item \in [Items -> Item] /\ trades \in [Subjects -> Nat]
      /\ approval \in [Approvals -> ApprovalStatuses]
  BY DEF Sure, Base, TypeOK, JobsShaped
<1>3. trades'[s] = trades[s] /\ (s \in Approvals => approval'[s] = approval[s])
  <2>1. CASE pc[c] \notin Deciding
    <3>1. Die(c)
      BY <2>1 DEF Step, LookItem, LookApproval, Refused, Trade, Mark, Close, Commit, Deciding
    <3> QED BY <3>1 DEF Die, rowVars
  <2>2. CASE pc[c] \in Deciding
    <3>1. trades'[s] = trades[s]
      BY <1>2, <2>2 DEF Step, LookItem, LookApproval, Refused, Trade, Mark, Close, Commit, Die, rowVars
    <3> QED BY <1>1, <2>2, <3>1 DEF OwnRows
  <2> QED BY <2>1, <2>2
<1>4. \A i \in Items : item'[i] = item[i] \/ (item[i].of # s /\ item'[i].of # s)
  BY Saving DEF Deciding
<1>5. \A d \in Clients : /\ About(d, "mark", s)' <=> About(d, "mark", s)
                         /\ About(d, "close", s)' <=> About(d, "close", s)
  BY <1>1 DEF About, Untouched, Found, Deciding
<1> QED BY <1>3, <1>4, <1>5, Undisturbed

(* What a step makes of a subject: nothing, a trade, or a rejection.       *)
Fate(s) ==
  \/ trades'[s] = trades[s] /\ Outcome'[s] = Outcome[s]
  \/ trades'[s] = trades[s] + 1 /\ Outcome[s] = "open" /\ Outcome'[s] = "executed"
  \/ trades'[s] = trades[s] /\ Outcome[s] = "open" /\ Outcome'[s] = "rejected"

(* An item of s saved as rejected or expired.                              *)
Refusals(s) == {i \in Items : item[i].of = s /\ item[i].status \in {"REJECTED", "EXPIRED"}}

LEMMA OutcomeIs ==
  ASSUME NEW s \in Subjects
  PROVE  Outcome[s] = IF trades[s] > 0 THEN "executed"
                      ELSE IF s \in Approvals
                      THEN IF approval[s] = "REJECTED" THEN "rejected" ELSE "open"
                      ELSE IF Refusals(s) # {} THEN "rejected" ELSE "open"
BY DEF Outcome, Refusals

LEMMA OutcomeIsAfter ==
  ASSUME NEW s \in Subjects
  PROVE  Outcome'[s] = IF trades'[s] > 0 THEN "executed"
                       ELSE IF s \in Approvals
                       THEN IF approval'[s] = "REJECTED" THEN "rejected" ELSE "open"
                       ELSE IF Refusals(s)' # {} THEN "rejected" ELSE "open"
BY DEF Outcome, Refusals

(* Nobody else is at work on the subject of an uncrowded request.          *)
LEMMA Own ==
  ASSUME Sure, NEW c \in Clients, Step(c), pc[c] \in Deciding,
         NEW s \in Subjects, s = job[c].of, s \notin crowded
  PROVE  \A d \in Clients \ {c}, point \in Deciding :
           ~About(d, point, s) /\ ~About(d, point, s)'
<1>1. \A d \in Clients \ {c} : pc[d] \in Deciding => job[d].of # s
  BY DEF Sure, Held, Alone
<1>2. Untouched(c)
  BY StepEffect DEF Sure
<1> QED BY <1>1, <1>2 DEF About, Untouched

(* The approval itself is decided on.                                      *)
LEMMA ApprovalStep ==
  ASSUME Sure, NEW c \in Clients, Step(c), pc[c] \in Deciding,
         NEW s \in Approvals \ spoiled', s = job[c].of, TrueFor(s)
  PROVE  TrueFor(s)' /\ Fate(s)
<1>1. /\ JobShaped(pc[c], job[c]) /\ job[c] \in Job /\ OpenFor(c) /\ PendingFor(c)
      /\ approval \in [Approvals -> ApprovalStatuses] /\ trades \in [Subjects -> Nat]
      /\ s \in Subjects /\ s \notin crowded /\ s \notin cut' /\ s \in Approvals
      /\ s \notin Notices /\ s \notin Proposals
  <2>1. crowded' = crowded
    BY StepEffect DEF Sure
  <2> QED BY <2>1, HeldParts, ApprovalsAssumption
          DEF Sure, Held, Base, TypeOK, JobsShaped, spoiled, Subjects
<1>2. /\ Untouched(c) /\ Found(c)
      /\ pc'[c] \in Deciding \cup {"idle"}
  BY StepEffect DEF Sure
<1>3. \A d \in Clients \ {c} : ~About(d, "mark", s) /\ ~About(d, "mark", s)'
  BY <1>1, Own DEF Deciding
<1>4. trades[s] \in {0, 1} /\ ApprovalTrue(s)
  BY <1>1 DEF TrueFor
<1>5. ASSUME trades'[s] \in {0, 1},
             trades'[s] = 1 <=> approval'[s] = "EXECUTED" \/ About(c, "mark", s)'
      PROVE  TrueFor(s)'
  <2>1. ApprovalTrue(s)'
    BY <1>3, <1>5 DEF ApprovalTrue
  <2> QED BY <1>1, <1>5, <2>1 DEF TrueFor
<1>6. trades[s] = 1 <=> approval[s] = "EXECUTED" \/ About(c, "mark", s)
  BY <1>3, <1>4 DEF ApprovalTrue
<1>7. ASSUME trades' = trades, approval' = approval, About(c, "mark", s)' <=> About(c, "mark", s)
      PROVE  TrueFor(s)' /\ Fate(s)
  BY <1>1, <1>4, <1>5, <1>6, <1>7, OutcomeIs, OutcomeIsAfter DEF Fate
<1>8. CASE LookItem(c) \/ LookApproval(c) \/ Refused(c) \/ Die(c) \/ Close(c)
  <2>1. trades' = trades /\ approval' = approval
    BY <1>8 DEF LookItem, LookApproval, Refused, Die, Close, rowVars
  <2>2. About(c, "mark", s)' => pc[c] = "approval"
    BY <1>1, <1>2, <1>8, LeaveEffect DEF LookItem, LookApproval, Refused, Die, Close, About, GoTo, Sure, Base, TypeOK, Deciding
  <2>3. ~About(c, "mark", s)
    BY <1>1, <1>8 DEF About, LookItem, LookApproval, Refused, Die, Close
  <2>4. ~About(c, "mark", s)'
    <3>1. ASSUME About(c, "mark", s)' PROVE FALSE
      <4>1. LookApproval(c) \/ Refused(c) \/ Die(c)
        BY <1>8, <2>2, <3>1 DEF LookItem, Close
      <4>2. pc'[c] = "idle" \/ pc'[c] = NextPoint(job[c], approval[job[c].of] = "PENDING")
        BY <4>1, LeaveEffect DEF LookApproval, Refused, Die, GoTo, Sure, Base, TypeOK
      <4>3. pc'[c] = "mark" /\ job'[c].op = "APPROVE"
        BY <3>1 DEF About
      <4>4. job[c].op = "APPROVE"
        BY <1>2, <4>3 DEF Found, Deciding
      <4> QED BY <4>2, <4>3, <4>4 DEF NextPoint
    <3> QED BY <3>1
  <2> QED BY <1>7, <2>1, <2>3, <2>4
<1>9. CASE Trade(c)
  <2>1. /\ pc[c] = "trade" /\ trades' = [trades EXCEPT ![s] = @ + 1] /\ GoTo(c, "mark")
        /\ UNCHANGED <<approval, job>> /\ job[c].op = "APPROVE"
    BY <1>1, <1>9 DEF Trade, JobShaped
  <2>2. approval[s] = "PENDING"
    BY <1>1, <2>1 DEF PendingFor, AtApproval
  <2>3. trades[s] = 0 /\ trades'[s] = 1
    BY <1>1, <1>4, <1>6, <2>1, <2>2 DEF About
  <2>4. About(c, "mark", s)'
    BY <2>1 DEF About, GoTo, Sure, Base, TypeOK
  <2>5. Fate(s)
    BY <1>1, <2>1, <2>2, <2>3, OutcomeIs, OutcomeIsAfter DEF Fate
  <2> QED BY <1>5, <2>3, <2>4, <2>5
<1>10. CASE Mark(c)
  <2>1. /\ pc[c] = "mark" /\ trades' = trades /\ approval'[s] = Verdict(job[c].op)
        /\ job[c].op \in {"APPROVE", "REJECT"}
    BY <1>1, <1>10 DEF Mark, JobShaped
  <2>2. approval[s] = "PENDING"
    BY <1>1, <2>1 DEF PendingFor, AtApproval
  <2>3. trades[s] = 1 <=> job[c].op = "APPROVE"
    BY <1>6, <2>1, <2>2 DEF About
  <2>4. ~About(c, "mark", s)'
    <3>1. pc'[c] \in {"idle", "close"}
      BY <1>10, LeaveEffect DEF Mark, GoTo, Sure, Base, TypeOK
    <3> QED BY <3>1 DEF About
  <2>5. approval'[s] = "EXECUTED" <=> job[c].op = "APPROVE"
    BY <2>1 DEF Verdict
  <2>6. job[c].op = "REJECT" => approval'[s] = "REJECTED" /\ trades[s] = 0
    BY <1>4, <2>1, <2>3 DEF Verdict
  <2>7. Fate(s)
    BY <1>1, <2>1, <2>2, <2>3, <2>6, OutcomeIs, OutcomeIsAfter DEF Fate
  <2> QED BY <1>4, <1>5, <2>1, <2>3, <2>4, <2>5, <2>7
<1>11. CASE Commit(c)
  <2>1. /\ pc[c] = "commit" /\ pc'[c] = "idle" /\ (job[c].op = "APPROVE" => job[c].live)
        /\ job[c].live => approval[s] = "PENDING" /\ job[c].op \in {"APPROVE", "REJECT"}
    BY <1>1, <1>11, LeaveEffect DEF Commit, JobShaped, PendingFor, AtApproval, Sure, Base, TypeOK
  <2>2. ~About(c, "mark", s) /\ ~About(c, "mark", s)'
    BY <2>1 DEF About
  <2>3. CASE ~job[c].live
    <3>1. trades' = trades /\ approval' = approval
      BY <1>11, <2>1, <2>3 DEF Commit
    <3> QED BY <1>7, <2>2, <3>1
  <2>4. CASE job[c].live /\ job[c].op = "APPROVE"
    <3>1. trades[s] = 0 /\ approval[s] = "PENDING"
      BY <1>4, <1>6, <2>1, <2>2, <2>4
    <3>2. trades'[s] = 1 /\ approval'[s] = "EXECUTED"
      BY <1>1, <1>11, <2>4, <3>1 DEF Commit, Verdict
    <3>3. Fate(s)
      BY <1>1, <3>1, <3>2, OutcomeIs, OutcomeIsAfter DEF Fate
    <3> QED BY <1>5, <3>2, <3>3
  <2>5. CASE job[c].live /\ job[c].op = "REJECT"
    <3>1. trades[s] = 0 /\ approval[s] = "PENDING"
      BY <1>4, <1>6, <2>1, <2>2, <2>5
    <3>2. trades'[s] = 0 /\ approval'[s] = "REJECTED"
      BY <1>1, <1>11, <2>5, <3>1 DEF Commit, Verdict
    <3>3. Fate(s)
      BY <1>1, <3>1, <3>2, OutcomeIs, OutcomeIsAfter DEF Fate
    <3> QED BY <1>5, <2>2, <3>2, <3>3
  <2> QED BY <2>1, <2>3, <2>4, <2>5
<1> QED BY <1>8, <1>9, <1>10, <1>11 DEF Step

(* A proposal or a notice is decided on, through its only item.            *)
LEMMA ProposalStep ==
  ASSUME Sure, NEW c \in Clients, Step(c), pc[c] \in Deciding,
         NEW s \in (Proposals \cup Notices) \ spoiled', s = job[c].of, TrueFor(s)
  PROVE  TrueFor(s)' /\ Fate(s)
<1> DEFINE closing == pc[c] = "close" /\ job[c].op = "APPROVE"
           closing1 == pc'[c] = "close" /\ job'[c].op = "APPROVE" /\ job'[c].of = s
<1>1. /\ JobShaped(pc[c], job[c]) /\ job[c] \in Job /\ OpenFor(c)
      /\ item \in [Items -> Item] /\ trades \in [Subjects -> Nat]
      /\ s \in Subjects /\ s \notin crowded /\ s \notin cut' /\ s \notin Approvals
      /\ s \in Proposals => s \notin Notices
  <2>1. crowded' = crowded
    BY StepEffect DEF Sure
  <2> QED BY <2>1, HeldParts, ApprovalsAssumption
          DEF Sure, Held, Base, TypeOK, JobsShaped, spoiled, Subjects
<1>2. PICK k \in Items :
        /\ k = job[c].item /\ k # None /\ item[k].of = s
        /\ \A i \in Items : item[i].of = s => i = k
  <2>1. job[c].item \in Items /\ job[c].item # None /\ item[job[c].item].of = s
    BY <1>1 DEF JobShaped, Job
  <2> QED BY <2>1 DEF Sure, Base, ItemsShaped
<1>3. /\ \A i \in Items : item'[i].of = s <=> i = k
      /\ Untouched(c) /\ Found(c) /\ pc'[c] \in Deciding \cup {"idle"}
  <2>1. Untouched(c) /\ Found(c) /\ OwnRows(c) /\ pc'[c] \in Deciding \cup {"idle"}
    BY StepEffect DEF Sure
  <2>2. item'[k].of = s
    BY <1>2, Saving
  <2> QED BY <1>2, <2>1, <2>2 DEF OwnRows
<1>4. \A d \in Clients \ {c} : ~About(d, "close", s) /\ ~About(d, "close", s)'
  BY <1>1, Own DEF Deciding
<1>5. /\ trades[s] \in {0, 1} /\ (s \in Notices => trades[s] = 0)
      /\ s \in Proposals => /\ closing => trades[s] = 1
                            /\ trades[s] = 1 => ~Open(k) \/ closing
                            /\ item[k].status = "REJECTED" => trades[s] = 0
  BY <1>2, <1>4 DEF TrueFor, ProposalTrue, About
<1>6. ASSUME trades'[s] \in {0, 1}, s \in Notices => trades'[s] = 0,
             s \in Proposals => /\ closing1 => trades'[s] = 1
                                /\ trades'[s] = 1 => ~Open(k)' \/ closing1
                                /\ item'[k].status = "REJECTED" => trades'[s] = 0
      PROVE  TrueFor(s)'
  <2>1. About(c, "close", s)' <=> closing1
    BY DEF About
  <2>2. s \in Proposals => ProposalTrue(s)'
    <3> SUFFICES ASSUME s \in Proposals PROVE ProposalTrue(s)'
      OBVIOUS
    <3>1. \A d \in Clients : About(d, "close", s)' => trades'[s] = 1
      BY <1>4, <1>6, <2>1
    <3>2. ASSUME trades'[s] = 1
          PROVE  /\ \E i \in Items : item'[i].of = s
                 /\ \/ \A i \in Items : item'[i].of = s => ~Open(i)'
                    \/ \E d \in Clients : About(d, "close", s)'
      BY <1>2, <1>3, <1>6, <2>1, <3>2
    <3>3. \A i \in Items : item'[i].of = s /\ item'[i].status = "REJECTED" => trades'[s] = 0
      BY <1>3, <1>6
    <3> HIDE DEF closing1
    <3> QED BY <3>1, <3>2, <3>3 DEF ProposalTrue
  <2> QED BY <1>1, <1>6, <2>2 DEF TrueFor
<1>7. /\ Refusals(s) # {} <=> item[k].status \in {"REJECTED", "EXPIRED"}
      /\ Refusals(s)' # {} <=> item'[k].status \in {"REJECTED", "EXPIRED"}
  BY <1>2, <1>3 DEF Refusals
<1>8. /\ Outcome[s] = IF trades[s] > 0 THEN "executed"
                      ELSE IF item[k].status \in {"REJECTED", "EXPIRED"} THEN "rejected" ELSE "open"
      /\ Outcome'[s] = IF trades'[s] > 0 THEN "executed"
                       ELSE IF item'[k].status \in {"REJECTED", "EXPIRED"} THEN "rejected" ELSE "open"
  BY <1>1, <1>7, OutcomeIs, OutcomeIsAfter
<1>9. Open(k) => item[k].status \notin {"REJECTED", "EXPIRED"}
  BY DEF Open, OpenStatuses
<1>10. CASE LookItem(c) \/ LookApproval(c) \/ Refused(c) \/ Die(c)
  <2>1. trades' = trades /\ item' = item
    BY <1>10 DEF LookItem, LookApproval, Refused, Die, rowVars
  <2>2. s \in Proposals => ~closing
    BY <1>1, <1>10 DEF LookItem, LookApproval, Refused, Die
  <2>3. ~closing1
    <3>1. ~LookApproval(c)
      BY <1>1 DEF LookApproval, JobShaped
    <3>2. pc'[c] \in {"idle", "approval", "commit"}
      BY <1>10, <3>1, LeaveEffect DEF LookItem, Refused, Die, GoTo, Sure, Base, TypeOK
    <3> QED BY <3>2
  <2>4. Open(k)' <=> Open(k)
    BY <2>1 DEF Open
  <2> HIDE DEF closing, closing1
  <2>5. TrueFor(s)'
    BY <1>5, <1>6, <2>1, <2>2, <2>3, <2>4
  <2>6. Fate(s)
    BY <1>8, <2>1 DEF Fate
  <2> QED BY <2>5, <2>6
<1>11. CASE Trade(c)
  <2>1. /\ pc[c] = "trade" /\ trades' = [trades EXCEPT ![s] = @ + 1] /\ item' = item /\ job' = job
        /\ s \in Proposals /\ job[c].op = "APPROVE" /\ GoTo(c, "close")
    BY <1>1, <1>11 DEF Trade, JobShaped
  <2>2. Open(k) /\ ~closing
    BY <1>1, <1>2, <2>1 DEF OpenFor, AtItem
  <2>3. trades[s] = 0 /\ trades'[s] = 1
    BY <1>1, <1>5, <2>1, <2>2
  <2>4. closing1
    BY <2>1 DEF GoTo, Sure, Base, TypeOK
  <2>5. item'[k].status # "REJECTED"
    BY <1>9, <2>1, <2>2
  <2> HIDE DEF closing, closing1
  <2>6. TrueFor(s)'
    BY <1>1, <1>6, <2>1, <2>3, <2>4, <2>5
  <2>7. Fate(s)
    BY <1>8, <1>9, <2>2, <2>3 DEF Fate
  <2> QED BY <2>6, <2>7
<1>12. CASE Mark(c)
  BY <1>1, <1>12 DEF Mark, JobShaped
<1>13. ASSUME trades'[s] = trades[s], s \in Notices \/ ~closing1, pc'[c] = "idle"
       PROVE  /\ trades[s] = 0 /\ item'[k].status \in {"APPROVED", "SNOOZED"} /\ Open(k) => Fate(s) /\ TrueFor(s)'
              /\ trades[s] = 0 /\ item'[k].status = "REJECTED" /\ Open(k) => Fate(s) /\ TrueFor(s)'
              /\ item'[k].status \in {"EXPIRED", "EXECUTED"} /\ trades[s] = 1 => Fate(s) /\ TrueFor(s)'
              /\ item'[k].status = "EXPIRED" /\ trades[s] = 0 => Fate(s) /\ TrueFor(s)'
  <2>1. ~closing1
    BY <1>13
  <2>2. item'[k].status \in {"EXPIRED", "EXECUTED"} => ~Open(k)'
    BY DEF Open, OpenStatuses
  <2> HIDE DEF closing, closing1
  <2>3. trades[s] = 0 => TrueFor(s)'
    BY <1>6, <1>13, <2>1
  <2>4. item'[k].status \in {"EXPIRED", "EXECUTED"} => TrueFor(s)'
    BY <1>5, <1>6, <1>13, <2>1, <2>2
  <2> QED BY <1>8, <1>9, <1>13, <2>3, <2>4 DEF Fate
<1>14. CASE Close(c)
  <2>1. /\ pc[c] = "close" /\ pc'[c] = "idle" /\ trades' = trades /\ job[c].op \in {"APPROVE", "REJECT", "SNOOZE"}
        /\ item'[k].status = Closing(job[c].op, s)
    BY <1>1, <1>2, <1>14, LeaveEffect DEF Close, JobShaped, Item, Sure, Base, TypeOK
  <2>2. Open(k)
    BY <1>1, <1>2, <2>1 DEF OpenFor, AtItem
  <2>3. Closing(job[c].op, s) = IF job[c].op = "SNOOZE" THEN "SNOOZED"
                                ELSE IF job[c].op = "REJECT" THEN "REJECTED"
                                ELSE IF s \in Notices THEN "APPROVED" ELSE "EXECUTED"
    BY <2>1 DEF Closing
  <2>4. CASE job[c].op = "APPROVE" /\ s \in Proposals
    <3>1. trades[s] = 1
      BY <1>5, <2>1, <2>4
    <3>2. item'[k].status = "EXECUTED"
      BY <1>1, <2>1, <2>3, <2>4
    <3> QED BY <1>13, <2>1, <3>1, <3>2
  <2>5. CASE ~(job[c].op = "APPROVE" /\ s \in Proposals)
    <3>1. trades[s] = 0
      BY <1>5, <2>2, <2>5
    <3>2. item'[k].status \in {"SNOOZED", "REJECTED", "APPROVED"}
      BY <1>1, <2>1, <2>3, <2>5
    <3> QED BY <1>13, <2>1, <2>2, <3>1, <3>2
  <2> QED BY <2>4, <2>5
<1>15. CASE Commit(c)
  <2>1. /\ pc[c] = "commit" /\ pc'[c] = "idle" /\ ~closing /\ ~job[c].live
        /\ job[c].op \in {"APPROVE", "REJECT", "EXPIRE", "ESCALATE"}
    BY <1>1, <1>15, LeaveEffect DEF Commit, JobShaped, Job, Decisions, Sure, Base, TypeOK
  <2>2. job[c].op \in {"APPROVE", "REJECT"} => Open(k)
    BY <1>1, <1>2, <2>1 DEF OpenFor, AtItem
  <2>3. job[c].op # "ESCALATE" => item'[k].status = Closing(job[c].op, s)
    BY <1>1, <1>2, <1>15 DEF Commit, Item
  <2>4. job[c].op # "ESCALATE" =>
          Closing(job[c].op, s) = IF job[c].op = "REJECT" THEN "REJECTED"
                                  ELSE IF job[c].op = "EXPIRE" THEN "EXPIRED"
                                  ELSE IF s \in Notices THEN "APPROVED" ELSE "EXECUTED"
    BY <2>1 DEF Closing
  <2>5. trades' = IF job[c].op = "APPROVE" /\ s \in Proposals
                  THEN [trades EXCEPT ![s] = @ + 1] ELSE trades
    BY <1>1, <1>15 DEF Commit
  <2>6. CASE job[c].op = "APPROVE" /\ s \in Proposals
    <3>1. trades[s] = 0 /\ trades'[s] = 1 /\ item'[k].status = "EXECUTED"
      BY <1>1, <1>5, <2>1, <2>2, <2>3, <2>4, <2>5, <2>6
    <3>2. ~Open(k)' /\ ~closing1
      BY <2>1, <3>1 DEF Open, OpenStatuses
    <3> HIDE DEF closing, closing1
    <3>3. TrueFor(s)'
      BY <1>1, <1>6, <2>6, <3>1, <3>2
    <3>4. Fate(s)
      BY <1>8, <1>9, <2>2, <2>6, <3>1 DEF Fate
    <3> QED BY <3>3, <3>4
  <2>7. CASE job[c].op = "APPROVE" /\ s \in Notices
    BY <1>5, <1>13, <2>1, <2>2, <2>3, <2>4, <2>5, <2>7, <1>1
  <2>8. CASE job[c].op = "REJECT"
    BY <1>5, <1>13, <2>1, <2>2, <2>3, <2>4, <2>5, <2>8, <1>1
  <2>9. CASE job[c].op = "EXPIRE"
    BY <1>5, <1>13, <2>1, <2>3, <2>4, <2>5, <2>9
  <2>10. CASE job[c].op = "ESCALATE"
    <3>1. item' = item /\ trades' = trades /\ ~closing1
      BY <1>15, <2>1, <2>5, <2>10 DEF Commit
    <3>2. Open(k)' <=> Open(k)
      BY <3>1 DEF Open
    <3>3. ~closing
      BY <2>1
    <3> HIDE DEF closing, closing1
    <3>4. TrueFor(s)'
      BY <1>5, <1>6, <3>1, <3>2, <3>3
    <3>5. Fate(s)
      BY <1>8, <3>1 DEF Fate
    <3> QED BY <3>4, <3>5
  <2> QED BY <2>1, <2>6, <2>7, <2>8, <2>9, <2>10
<1> QED BY <1>10, <1>11, <1>12, <1>14, <1>15 DEF Step

-------------------------------------------------------------------------------
(* One trade for each subject, and one final decision.                     *)

(* Who spoils what: taking a decision up, or dying in one.                 *)
LEMMA CutGrows ==
  ASSUME Sure, NEW c \in Clients, Step(c)
  PROVE  /\ cut \subseteq cut' /\ cut' \subseteq cut \cup {job[c].of}
         /\ ~Die(c) \/ pc[c] \notin Deciding => cut' = cut
BY DEF Step, LookItem, LookApproval, Refused, Trade, Mark, Close, Commit, Die, history, Deciding

LEMMA SpoiledGrows == Sure /\ [Next]_vars => spoiled \subseteq spoiled'
<1> SUFFICES ASSUME Sure, [Next]_vars PROVE cut \subseteq cut'
  BY CrowdedGrows DEF spoiled
<1>1. ASSUME NEW c \in Clients, Decide(c) PROVE cut \subseteq cut'
  BY <1>1, DecideEffect DEF Taking, TakenUp, Sure
<1> QED BY <1>1, CutGrows, QueueingEffect DEF Next, vars, history, QueueDirect, Sure

LEMMA StepTrue ==
  ASSUME Sure, RowsTrue, NEW c \in Clients, Step(c), NEW s \in Subjects \ spoiled', s \notin spoiled
  PROVE  TrueFor(s)' /\ (job[c].of = s /\ pc[c] \in Deciding => Fate(s))
<1>1. TrueFor(s)
  BY DEF RowsTrue
<1>2. CASE job[c].of # s \/ pc[c] \notin Deciding
  BY <1>1, <1>2, ElsewhereTrue
<1>3. CASE job[c].of = s /\ pc[c] \in Deciding
  BY <1>1, <1>3, ApprovalStep, ProposalStep DEF Subjects
<1> QED BY <1>2, <1>3

LEMMA RowsNext == Sure /\ RowsTrue /\ [Next]_vars => RowsTrue'
<1> SUFFICES ASSUME Sure, RowsTrue, [Next]_vars, NEW s \in Subjects \ spoiled'
             PROVE  TrueFor(s)'
  BY DEF RowsTrue
<1>1. s \notin spoiled /\ TrueFor(s)
  BY SpoiledGrows DEF RowsTrue
<1>2. ASSUME NEW c \in Clients, Step(c) PROVE TrueFor(s)'
  BY <1>1, <1>2, StepTrue
<1>3. CASE UNCHANGED vars
  <2>1. UNCHANGED <<approval, item, trades, pc, job>>
    BY <1>3 DEF vars, rowVars
  <2>2. \A d \in Clients : /\ About(d, "mark", s)' <=> About(d, "mark", s)
                           /\ About(d, "close", s)' <=> About(d, "close", s)
    BY <2>1 DEF About
  <2> QED BY <1>1, <2>1, <2>2, Undisturbed
<1> QED BY <1>1, <1>2, <1>3, DecideTrue, QueueingTrue, DirectTrue DEF Next

LEMMA RowsTrueAlways == Spec => []RowsTrue
<1>1. Init => RowsTrue
  <2> SUFFICES ASSUME Init, NEW s \in Subjects PROVE TrueFor(s)
    BY DEF RowsTrue
  <2>1. trades[s] = 0 /\ \A c \in Clients, point \in {"mark", "close"} : ~About(c, point, s)
    BY DEF Init, About
  <2>2. s \in Approvals => approval[s] = "none"
    BY DEF Init
  <2> QED BY <2>1, <2>2 DEF TrueFor, ApprovalTrue, ProposalTrue
<1> QED BY <1>1, RowsNext, SureAlways, PTL DEF Spec

(* No subject is traded twice and its row tells the truth about it,        *)
(* through whichever of the three endpoints it is decided and however      *)
(* often it is queued, unless two decisions on it were under way at once   *)
(* or a process died between its trade and its record.                     *)
THEOREM TradesOnce == Spec => []TradedOnce
<1>1. Sure /\ RowsTrue => TradedOnce
  <2> SUFFICES ASSUME Sure, RowsTrue, NEW s \in Subjects \ spoiled
               PROVE  /\ trades[s] <= 1
                      /\ s \in Approvals =>
                           /\ approval[s] \in {"none", "REJECTED"} => trades[s] = 0
                           /\ approval[s] = "EXECUTED" => trades[s] = 1
    BY DEF TradedOnce
  <2>1. trades[s] \in {0, 1} /\ (s \in Approvals => ApprovalTrue(s))
    BY DEF RowsTrue, TrueFor
  <2>2. ASSUME NEW c \in Clients, About(c, "mark", s), s \in Approvals
        PROVE  approval[s] = "PENDING"
    BY <2>2, HeldParts DEF About, PendingFor, AtApproval, Sure, Held, spoiled
  <2> QED BY <2>1, <2>2 DEF ApprovalTrue
<1> QED BY <1>1, SureAlways, RowsTrueAlways, PTL

LEMMA OutcomeFunction ==
  /\ Outcome = [s \in Subjects |-> Outcome[s]] /\ Outcome' = [s \in Subjects |-> Outcome'[s]]
  /\ \A s \in Subjects : Outcome'[s] \in {"open", "executed", "rejected"}
BY DEF Outcome

(* Rows that do not decide a subject leave its outcome as it is.           *)
LEMMA SameOutcome ==
  ASSUME NEW s \in Subjects, trades'[s] = trades[s],
         s \in Approvals => (approval'[s] = "REJECTED" <=> approval[s] = "REJECTED"),
         s \notin Approvals => Refusals(s)' = Refusals(s)
  PROVE  Outcome'[s] = Outcome[s]
BY OutcomeIs, OutcomeIsAfter

LEMMA AllSameOutcome ==
  ASSUME \A s \in Subjects : Outcome'[s] = Outcome[s]
  PROVE  Outcome' = Outcome
BY OutcomeFunction

LEMMA DecideImplements ==
  ASSUME Sure, NEW c \in Clients, Decide(c)
  PROVE  [Abstract!Next]_(Abstract!vars)
<1>1. PICK op \in Decisions, i \in Items \cup {None}, s \in Subjects, central \in BOOLEAN,
           point \in {"approval", "trade", "mark", "close", "request"} :
        Taking(c, op, i, s, central, point)
  BY DecideEffect DEF Sure
<1>2. UNCHANGED <<approval, item, trades, cut>> /\ crowded \subseteq crowded' /\ crowded' \subseteq crowded \cup {s}
  BY <1>1 DEF Taking, TakenUp, rowVars
<1>3. Outcome' = Outcome
  BY <1>2 DEF Outcome
<1>4. spoiled' = spoiled \/ spoiled' = spoiled \cup {s}
  BY <1>2 DEF spoiled
<1> QED BY <1>2, <1>3, <1>4 DEF Abstract!Next, Abstract!Spoil, Abstract!vars

LEMMA QueueingImplements ==
  ASSUME Sure, NEW c \in Clients, Queueing(c)
  PROVE  UNCHANGED <<Outcome, trades, spoiled>>
<1>1. /\ UNCHANGED <<crowded, cut, trades>>
      /\ \A a \in Approvals : \/ approval'[a] = approval[a]
                              \/ approval[a] = "none" /\ approval'[a] = "PENDING"
      /\ \A i \in Items : item'[i] = item[i] \/ (item[i].status = "none" /\ item'[i].of \in Approvals)
  BY QueueingEffect DEF Sure
<1>2. \A s \in Subjects \ Approvals : Refusals(s)' = Refusals(s)
  BY <1>1, ApprovalsAssumption DEF Refusals, Sure, Base, ItemsShaped
<1>3. \A s \in Subjects : Outcome'[s] = Outcome[s]
  BY <1>1, <1>2, SameOutcome
<1> QED BY <1>1, <1>3, AllSameOutcome DEF spoiled

LEMMA DirectImplements ==
  ASSUME Sure, NEW t \in Proposals \cup Notices, QueueDirect(t)
  PROVE  UNCHANGED <<Outcome, trades, spoiled>>
<1>1. UNCHANGED <<approval, trades, crowded, cut>> /\ NewItem(t)
  BY DEF QueueDirect, history
<1>2. PICK k \in Items : item[k].status = "none" /\ item' = [item EXCEPT ![k] = [status |-> "PENDING", of |-> t]]
  BY <1>1 DEF NewItem, Fresh
<1>3. /\ \A i \in Items \ {k} : item'[i] = item[i]
      /\ item'[k].status = "PENDING"
  BY <1>2 DEF Sure, Base, TypeOK
<1>4. \A s \in Subjects : Refusals(s)' = Refusals(s)
  BY <1>2, <1>3 DEF Refusals
<1>5. \A s \in Subjects : Outcome'[s] = Outcome[s]
  BY <1>1, <1>4, SameOutcome
<1> QED BY <1>1, <1>5, AllSameOutcome DEF spoiled

(* A step of a request about s changes the outcome of s alone.             *)
LEMMA OthersOutcome ==
  ASSUME Sure, NEW c \in Clients, Step(c), NEW t \in Subjects \ {job[c].of}
  PROVE  Outcome'[t] = Outcome[t] /\ trades'[t] = trades[t]
<1>1. trades \in [Subjects -> Nat] /\ OwnRows(c)
  BY StepEffect DEF Sure, Base, TypeOK
<1>2. trades'[t] = trades[t]
  BY <1>1 DEF Step, LookItem, LookApproval, Refused, Trade, Mark, Close, Commit, Die, rowVars
<1>3. \A i \in Items : item'[i] = item[i] \/ (item[i].of # t /\ item'[i].of # t)
  BY Saving
<1>4. Refusals(t)' = Refusals(t)
  BY <1>3 DEF Refusals
<1> QED BY <1>1, <1>2, <1>4, SameOutcome DEF OwnRows

LEMMA StepImplements ==
  ASSUME Sure, RowsTrue, NEW c \in Clients, Step(c)
  PROVE  [Abstract!Next]_(Abstract!vars)
<1>1. crowded' = crowded /\ pc[c] # "idle" /\ JobShaped(pc[c], job[c])
  BY StepEffect DEF Sure, Base, JobsShaped
<1>2. CASE Die(c)
  <2>1. Outcome' = Outcome /\ trades' = trades
    BY <1>2 DEF Die, rowVars, Outcome
  <2>2. CASE pc[c] \in Deciding
    <3>1. job[c].of \in Subjects
      BY <1>1, <2>2 DEF JobShaped
    <3>2. spoiled' = spoiled \/ spoiled' = spoiled \cup {job[c].of}
      BY <1>1, CutGrows DEF spoiled
    <3> QED BY <2>1, <3>1, <3>2 DEF Abstract!Next, Abstract!Spoil, Abstract!vars
  <2>3. CASE pc[c] \notin Deciding
    BY <1>1, <2>1, <2>3, CutGrows DEF spoiled, Abstract!vars
  <2> QED BY <2>2, <2>3
<1>3. CASE ~Die(c)
  <2>1. pc[c] \in Deciding
    BY <1>3 DEF Step, LookItem, LookApproval, Refused, Trade, Mark, Close, Commit, Deciding
  <2>2. PICK s \in Subjects : s = job[c].of
    BY <1>1, <2>1 DEF JobShaped
  <2>3. spoiled' = spoiled
    BY <1>1, <1>3, CutGrows DEF spoiled
  <2>4. trades \in [Subjects -> Nat] /\ trades' \in [Subjects -> Nat]
    BY StepBase DEF Sure, Base, TypeOK
  <2>5. \A t \in Subjects \ {s} : Outcome'[t] = Outcome[t] /\ trades'[t] = trades[t]
    BY <2>2, OthersOutcome
  <2>6. Outcome' = [Outcome EXCEPT ![s] = Outcome'[s]] /\ Outcome'[s] \in {"open", "executed", "rejected"}
    BY <2>5, OutcomeFunction
  <2>7. trades' = [trades EXCEPT ![s] = trades'[s]]
    BY <2>4, <2>5
  <2>8. CASE s \in spoiled
    <3>1. trades'[s] \in {trades[s], trades[s] + 1}
      BY <2>2, <2>4 DEF Step, LookItem, LookApproval, Refused, Trade, Mark, Close, Commit, Die, rowVars
    <3>2. Abstract!Anything(s)
      BY <2>3, <2>6, <2>7, <2>8, <3>1 DEF Abstract!Anything, Abstract!Outcomes
    <3> QED BY <3>2 DEF Abstract!Next
  <2>9. CASE s \notin spoiled
    <3>1. Fate(s)
      BY <2>1, <2>2, <2>3, <2>9, StepTrue
    <3>2. CASE trades'[s] = trades[s] /\ Outcome'[s] = Outcome[s]
      <4>1. trades' = trades /\ Outcome' = Outcome
        BY <2>4, <2>5, <3>2, AllSameOutcome
      <4> QED BY <2>3, <4>1 DEF Abstract!vars
    <3>3. CASE trades'[s] = trades[s] + 1 /\ Outcome[s] = "open" /\ Outcome'[s] = "executed"
      <4>1. Abstract!Execute(s)
        BY <2>3, <2>6, <2>7, <3>3 DEF Abstract!Execute
      <4> QED BY <4>1 DEF Abstract!Next
    <3>4. CASE trades'[s] = trades[s] /\ Outcome[s] = "open" /\ Outcome'[s] = "rejected"
      <4>1. Abstract!Reject(s)
        BY <2>3, <2>4, <2>6, <2>7, <3>4 DEF Abstract!Reject
      <4> QED BY <4>1 DEF Abstract!Next
    <3> QED BY <3>1, <3>2, <3>3, <3>4 DEF Fate
  <2> QED BY <2>8, <2>9
<1> QED BY <1>2, <1>3

LEMMA NextImplements == Sure /\ RowsTrue /\ [Next]_vars => [Abstract!Next]_(Abstract!vars)
<1> SUFFICES ASSUME Sure, RowsTrue, [Next]_vars PROVE [Abstract!Next]_(Abstract!vars)
  OBVIOUS
<1>1. ASSUME UNCHANGED <<Outcome, trades, spoiled>> PROVE [Abstract!Next]_(Abstract!vars)
  BY <1>1 DEF Abstract!vars
<1>2. CASE UNCHANGED vars
  BY <1>1, <1>2 DEF vars, rowVars, history, Outcome, spoiled
<1>3. ASSUME NEW c \in Clients, Queueing(c) PROVE [Abstract!Next]_(Abstract!vars)
  BY <1>1, <1>3, QueueingImplements
<1>4. ASSUME NEW s \in Proposals \cup Notices, QueueDirect(s) PROVE [Abstract!Next]_(Abstract!vars)
  BY <1>1, <1>4, DirectImplements
<1> QED BY <1>2, <1>3, <1>4, DecideImplements, StepImplements DEF Next

(* The three endpoints, with their separate looks and saves, implement one *)
(* final decision for each subject that is not spoiled.                    *)
THEOREM ImplementsOneDecision == Spec => DecidedOnce
<1>1. Init => Abstract!Init
  <2> SUFFICES ASSUME Init PROVE Abstract!Init
    OBVIOUS
  <2>1. \A s \in Subjects : Outcome[s] = "open"
    BY ApprovalsAssumption DEF Init, Outcome, NoItem
  <2>2. Outcome = [s \in Subjects |-> "open"]
    BY <2>1 DEF Outcome
  <2>3. trades = [s \in Subjects |-> 0] /\ spoiled = {}
    BY DEF Init, spoiled
  <2> QED BY <2>2, <2>3 DEF Abstract!Init
<1> QED BY <1>1, NextImplements, SureAlways, RowsTrueAlways, PTL DEF Spec, DecidedOnce, Abstract!Spec

-------------------------------------------------------------------------------
(* One open item for each approval.                                        *)

(* Why: a client that is about to create an item has found none open.      *)
FoundNone ==
  \A c \in Clients :
    pc[c] = "create" /\ job[c].of \notin crowded \cup requeued => OpenItems(job[c].of) = {}

CreatingAlone ==
  \A c, d \in Clients :
    c # d /\ pc[c] = "create" /\ pc[d] = "create" /\ job[c].of = job[d].of
    => job[c].of \in requeued

SingleOpen ==
  \A a \in Approvals \ (crowded \cup requeued) : \A i, k \in OpenItems(a) : i = k

Single == FoundNone /\ CreatingAlone /\ SingleOpen

LEMMA HistoryGrows ==
  ASSUME Sure, [Next]_vars
  PROVE  crowded \subseteq crowded' /\ requeued \subseteq requeued' /\ untold \subseteq untold'
<1>1. ASSUME NEW c \in Clients, Decide(c) PROVE requeued \subseteq requeued' /\ untold \subseteq untold'
  BY <1>1 DEF Decide, OpenApproval, OpenItem, OpenRequest, Begin
<1>2. ASSUME NEW c \in Clients, Step(c) PROVE requeued \subseteq requeued' /\ untold \subseteq untold'
  BY <1>2 DEF Step, LookItem, LookApproval, Refused, Trade, Mark, Close, Commit, Die, history
<1>3. ASSUME NEW c \in Clients, Queueing(c) PROVE requeued \subseteq requeued' /\ untold \subseteq untold'
  BY <1>3 DEF Queueing, Rebuild, Create, SyncLoad, SyncSave, Escalate, Ensure, history
<1>4. CASE UNCHANGED vars \/ \E s \in Proposals \cup Notices : QueueDirect(s)
  BY <1>4 DEF vars, history, QueueDirect
<1> QED BY <1>1, <1>2, <1>3, <1>4, CrowdedGrows DEF Next

(* An item of an uncrowded approval that is open was open before, or has   *)
(* been created for it in this step.                                       *)
LEMMA OpenedHow ==
  ASSUME Sure, [Next]_vars, NEW a \in Approvals \ crowded', NEW i \in OpenItems(a)'
  PROVE  \/ i \in OpenItems(a)
         \/ \E c \in Clients : /\ Create(c) /\ job[c].of = a
                               /\ \A k \in Items \ {i} : item'[k] = item[k]
<1>0. i \in Items /\ Open(i)' /\ item'[i].of = a
  BY DEF OpenItems
<1>1. CASE item'[i] = item[i]
  BY <1>0, <1>1 DEF OpenItems, Open
<1>2. ASSUME item'[i] # item[i], NEW c \in Clients, Step(c) PROVE i \in OpenItems(a)
  <2>1. item[i].of = a /\ item[i].status # "none" /\ a \notin crowded
    BY <1>0, <1>2, Saving, CrowdedGrows
  <2>2. ~Closed(i)
    BY <1>0, <2>1, ClosedFinal DEF Closed, Open
  <2> QED BY <1>0, <2>1, <2>2 DEF Closed, OpenItems, Open
<1>3. ASSUME item'[i] # item[i], NEW s \in Proposals \cup Notices, QueueDirect(s) PROVE FALSE
  <2>1. PICK k \in Items : item[k].status = "none" /\ item' = [item EXCEPT ![k] = [status |-> "PENDING", of |-> s]]
    BY <1>3 DEF QueueDirect, NewItem, Fresh
  <2>2. item'[i].of = s
    BY <1>0, <1>3, <2>1 DEF Sure, Base, TypeOK
  <2> QED BY <1>0, <2>2, ApprovalsAssumption
<1>4. ASSUME item'[i] # item[i], NEW c \in Clients, Queueing(c)
      PROVE  Create(c) /\ job[c].of = a /\ \A k \in Items \ {i} : item'[k] = item[k]
  <2>1. Create(c)
    BY <1>4 DEF Queueing, Rebuild, SyncLoad, SyncSave, Escalate, Ensure, rowVars
  <2>2. PICK k \in Items : item[k].status = "none" /\ item' = [item EXCEPT ![k] = [status |-> "PENDING", of |-> job[c].of]]
    BY <2>1 DEF Create, NewItem, Fresh
  <2>3. i = k /\ item'[i].of = job[c].of /\ \A j \in Items \ {i} : item'[j] = item[j]
    BY <1>0, <1>4, <2>2 DEF Sure, Base, TypeOK
  <2> QED BY <1>0, <2>1, <2>3
<1>5. ASSUME item'[i] # item[i], NEW c \in Clients, Decide(c) PROVE FALSE
  BY <1>5, DecideEffect DEF Taking, TakenUp, rowVars, Sure
<1>6. CASE UNCHANGED vars
  BY <1>1, <1>6 DEF vars, rowVars
<1> QED BY <1>1, <1>2, <1>3, <1>4, <1>5, <1>6 DEF Next

(* Who is about to create was so before, or has just found none.           *)
LEMMA CreatingHow ==
  ASSUME Sure, [Next]_vars, NEW c \in Clients, pc'[c] = "create"
  PROVE  \/ pc[c] = "create" /\ job'[c] = job[c] /\ ~Create(c)
         \/ \E a \in Approvals :
              /\ Ensure(c, a) /\ ~QueuedAlready(a) /\ job'[c].of = a /\ a \in todo[c]
              /\ pc' = [pc EXCEPT ![c] = "create"] /\ item' = item /\ approval' = approval
              /\ \A d \in Clients \ {c} : pc'[d] = pc[d] /\ job'[d] = job[d]
              /\ approval[a] # "PENDING" \/ (\E d \in Clients : pc[d] = "create" /\ job[d].of = a)
                   => a \in requeued'
<1>0. /\ pc \in [Clients -> Points] /\ job \in [Clients -> Job] /\ Base
  BY DEF Sure, Base, TypeOK
<1>1. ASSUME NEW d \in Clients, Step(d) PROVE d # c /\ pc'[c] = pc[c] /\ job'[c] = job[c] /\ ~Create(c)
  <2>1. d # c /\ pc'[c] = pc[c] /\ job'[c] = job[c]
    BY <1>0, <1>1, StepEffect DEF Untouched, Deciding
  <2>2. pc' # [pc EXCEPT ![c] = "idle"] /\ pc' # [pc EXCEPT ![c] = "ensure"]
    BY <1>0
  <2> QED BY <2>1, <2>2 DEF Create, Queued, Leave, GoTo
<1>2. ASSUME NEW d \in Clients, Decide(d) PROVE pc'[c] = pc[c] /\ job'[c] = job[c]
  BY <1>0, <1>2, DecideEffect DEF Taking, TakenUp, Untouched
<1>3. ~Create(c)
  <2>1. pc' # [pc EXCEPT ![c] = "idle"] /\ pc' # [pc EXCEPT ![c] = "ensure"]
    BY <1>0
  <2> QED BY <2>1 DEF Create, Queued, Leave, GoTo
<1>4. ASSUME NEW d \in Clients \ {c}, Queueing(d) PROVE pc'[c] = pc[c] /\ job'[c] = job[c]
  BY <1>0, <1>4, QueueingEffect DEF Untouched
<1>5. ASSUME Queueing(c)
      PROVE  \E a \in Approvals :
              /\ Ensure(c, a) /\ ~QueuedAlready(a) /\ job'[c].of = a /\ a \in todo[c]
              /\ pc' = [pc EXCEPT ![c] = "create"] /\ item' = item /\ approval' = approval
              /\ \A d \in Clients \ {c} : pc'[d] = pc[d] /\ job'[d] = job[d]
              /\ approval[a] # "PENDING" \/ (\E d \in Clients : pc[d] = "create" /\ job[d].of = a)
                   => a \in requeued'
  <2>1. pc' # [pc EXCEPT ![c] = "idle"] /\ pc' # [pc EXCEPT ![c] = "ensure"] /\ pc' # [pc EXCEPT ![c] = "seen"]
    BY <1>0
  <2>2. PICK a \in Approvals : Ensure(c, a)
    BY <1>5, <2>1 DEF Queueing, Rebuild, Create, Queued, SyncLoad, SyncSave, Escalate, Leave, GoTo
  <2>3. ~QueuedAlready(a)
    BY <2>1, <2>2 DEF Ensure, Queued, Leave, GoTo
  <2>4. /\ job' = [job EXCEPT ![c].of = a] /\ pc' = [pc EXCEPT ![c] = "create"] /\ a \in todo[c]
        /\ item' = item /\ approval' = approval
        /\ approval[a] # "PENDING" \/ (\E d \in Clients : pc[d] = "create" /\ job[d].of = a)
             => a \in requeued'
    BY <2>2, <2>3 DEF Ensure, GoTo, rowVars
  <2>5. job'[c].of = a /\ \A d \in Clients \ {c} : pc'[d] = pc[d] /\ job'[d] = job[d]
    BY <1>0, <2>4 DEF Job
  <2> QED BY <2>2, <2>3, <2>4, <2>5
<1>6. CASE UNCHANGED vars \/ \E s \in Proposals \cup Notices : QueueDirect(s)
  BY <1>3, <1>6 DEF vars, QueueDirect
<1> QED BY <1>1, <1>2, <1>3, <1>4, <1>5, <1>6 DEF Next

LEMMA SingleNext == Sure /\ Single /\ [Next]_vars => Single'
<1> SUFFICES ASSUME Sure, Single, [Next]_vars PROVE Single'
  OBVIOUS
<1>0. crowded \subseteq crowded' /\ requeued \subseteq requeued'
  BY HistoryGrows
<1>1. ASSUME NEW c \in Clients, pc'[c] = "create", job'[c].of \notin crowded' \cup requeued',
             NEW i \in OpenItems(job[c].of)'
      PROVE  FALSE
  <2>1. PICK a \in Approvals : a = job'[c].of
    BY <1>1, BaseNext DEF Sure, Base, JobsShaped, JobShaped
  <2>2. a \notin crowded \cup requeued \cup crowded' /\ i \in OpenItems(a)'
    <3>1. OpenItems(job[c].of)' = {j \in Items : item'[j].status \in OpenStatuses /\ item'[j].of = job'[c].of}
      BY DEF OpenItems, Open
    <3>2. OpenItems(a)' = {j \in Items : item'[j].status \in OpenStatuses /\ item'[j].of = a}
      BY DEF OpenItems, Open
    <3> QED BY <1>0, <1>1, <2>1, <3>1, <3>2
  <2>3. CASE i \in OpenItems(a)
    <3>1. CASE pc[c] = "create" /\ job'[c] = job[c]
      BY <2>1, <2>2, <2>3, <3>1 DEF Single, FoundNone
    <3>2. CASE \E b \in Approvals : job'[c].of = b /\ ~QueuedAlready(b)
      BY <2>1, <2>3, <3>2 DEF QueuedAlready
    <3> QED BY <1>1, <3>1, <3>2, CreatingHow
  <2>4. ASSUME NEW d \in Clients, Create(d), job[d].of = a PROVE FALSE
    <3>1. item' # item /\ pc[d] = "create"
      BY <2>4, <2>2 DEF Create, NewItem, Fresh, Sure, Base, TypeOK, OpenItems, Open, OpenStatuses
    <3>2. pc[c] = "create" /\ job'[c] = job[c] /\ d # c
      BY <1>1, <2>4, <3>1, CreatingHow
    <3> QED BY <2>1, <2>2, <2>4, <3>1, <3>2 DEF Single, CreatingAlone
  <2> QED BY <2>2, <2>3, <2>4, OpenedHow
<1>2. ASSUME NEW c \in Clients, NEW d \in Clients, c # d,
             pc'[c] = "create", pc'[d] = "create", job'[c].of = job'[d].of
      PROVE  job'[c].of \in requeued'
  <2>1. CASE pc[c] = "create" /\ job'[c] = job[c] /\ pc[d] = "create" /\ job'[d] = job[d]
    BY <1>0, <1>2, <2>1 DEF Single, CreatingAlone
  <2>2. ASSUME NEW a \in Approvals, NEW e \in {c, d}, job'[e].of = a,
               \A f \in Clients \ {e} : pc'[f] = pc[f] /\ job'[f] = job[f],
               (\E f \in Clients : pc[f] = "create" /\ job[f].of = a) => a \in requeued'
        PROVE  job'[c].of \in requeued'
    BY <1>2, <2>2
  <2> QED BY <1>2, <2>1, <2>2, CreatingHow
<1>3. ASSUME NEW a \in Approvals \ (crowded' \cup requeued'), NEW i \in OpenItems(a)', NEW k \in OpenItems(a)'
      PROVE  i = k
  <2>1. a \notin crowded \cup requeued
    BY <1>0
  <2>2. CASE i \in OpenItems(a) /\ k \in OpenItems(a)
    BY <2>1, <2>2 DEF Single, SingleOpen
  <2>3. ASSUME NEW e \in {i, k}, NEW c \in Clients, Create(c), job[c].of = a,
               \A j \in Items \ {e} : item'[j] = item[j], i # k
        PROVE  FALSE
    <3>1. OpenItems(a) = {}
      BY <2>1, <2>3 DEF Create, Single, FoundNone
    <3>2. \A j \in OpenItems(a)' : j = e
      BY <2>3, <3>1 DEF OpenItems, Open
    <3> QED BY <2>3, <3>2
  <2> QED BY <2>2, <2>3, OpenedHow
<1>4. FoundNone'
  <2>1. ASSUME NEW c \in Clients, pc'[c] = "create", job'[c].of \notin crowded' \cup requeued'
        PROVE  OpenItems(job[c].of)' = {}
    BY <1>1, <2>1
  <2> QED BY <2>1 DEF FoundNone
<1>5. CreatingAlone'
  BY <1>2 DEF CreatingAlone
<1>6. SingleOpen'
  BY <1>3 DEF SingleOpen
<1> QED BY <1>4, <1>5, <1>6 DEF Single

LEMMA SingleAlways == Spec => []Single
<1>1. Init => Single
  BY DEF Init, Single, FoundNone, CreatingAlone, SingleOpen, OpenItems, Open, OpenStatuses, NoItem
<1> QED BY <1>1, SingleNext, SureAlways, PTL DEF Spec

(* An approval has at most one open item, snoozed or not, unless two       *)
(* clients queued it at once or one queued it that had loaded it before it *)
(* was decided.                                                            *)
THEOREM AtMostOneOpenItem == Spec => []OneOpenItem
<1>1. Single => OneOpenItem
  <2> SUFFICES ASSUME Single, NEW a \in Approvals \ (crowded \cup requeued)
               PROVE  Cardinality(OpenItems(a)) <= 1
    BY DEF OneOpenItem
  <2>1. CASE OpenItems(a) = {}
    BY <2>1, FS_EmptySet
  <2>2. ASSUME NEW i \in OpenItems(a) PROVE Cardinality(OpenItems(a)) <= 1
    <3>1. OpenItems(a) = {i}
      BY DEF Single, SingleOpen
    <3>2. Cardinality({i}) = 1
      BY FS_Singleton
    <3> QED BY <3>1, <3>2
  <2> QED BY <2>1, <2>2
<1> QED BY <1>1, SingleAlways, PTL

-------------------------------------------------------------------------------
(* The queue tells what was decided.                                       *)

(* Why: only approvals that are there are queued and have items.           *)
Listed ==
  /\ \A c \in Clients : \A a \in todo[c] : approval[a] # "none"
  /\ \A c \in Clients : pc[c] = "create" => approval[job[c].of] # "none"
  /\ \A i \in Items : item[i].of \in Approvals => approval[item[i].of] # "none"

Final == {"REJECTED", "EXECUTED"}

(* Who decides an approval.                                                *)
Rules(c, a) == job[c].of = a /\ (Mark(c) \/ (Commit(c) /\ job[c].live))

LEMMA RuledBy ==
  ASSUME Sure, [Next]_vars, NEW a \in Approvals, approval'[a] # approval[a]
  PROVE  \/ approval[a] = "none" /\ approval'[a] = "PENDING"
         \/ \E c \in Clients : Rules(c, a) /\ approval'[a] = Verdict(job[c].op)
<1>0. approval \in [Approvals -> ApprovalStatuses]
  BY DEF Sure, Base, TypeOK
<1>1. ASSUME NEW c \in Clients, Step(c) PROVE Rules(c, a) /\ approval'[a] = Verdict(job[c].op)
  BY <1>0, <1>1 DEF Step, LookItem, LookApproval, Refused, Trade, Mark, Close, Commit, Die, rowVars, Rules
<1>2. ASSUME NEW c \in Clients, Decide(c) PROVE FALSE
  BY <1>2, DecideEffect DEF Taking, TakenUp, rowVars, Sure
<1>3. ASSUME NEW c \in Clients, Queueing(c) PROVE approval[a] = "none" /\ approval'[a] = "PENDING"
  BY <1>3, QueueingEffect DEF Sure
<1> QED BY <1>1, <1>2, <1>3 DEF Next, vars, rowVars, QueueDirect

LEMMA NeverNone ==
  ASSUME Sure, [Next]_vars, NEW a \in Approvals, approval[a] # "none"
  PROVE  approval'[a] # "none"
BY RuledBy DEF Verdict

(* A final status is final, and one that is not is ruled on while PENDING. *)
LEMMA RuledPending ==
  ASSUME Sure, NEW c \in Clients, NEW a \in Approvals \ crowded, Rules(c, a)
  PROVE  approval[a] = "PENDING"
<1>1. PendingFor(c)
  BY HeldParts DEF Sure, Held
<1> QED BY <1>1 DEF Rules, PendingFor, AtApproval, Mark, Commit

LEMMA FinalStays ==
  ASSUME Sure, [Next]_vars, NEW a \in Approvals \ crowded, approval[a] \in Final
  PROVE  approval'[a] = approval[a]
BY RuledBy, RuledPending DEF Final

LEMMA ListedNext == Sure /\ Listed /\ [Next]_vars => Listed'
<1> SUFFICES ASSUME Sure, Listed, [Next]_vars PROVE Listed'
  OBVIOUS
<1>0. /\ todo \in [Clients -> SUBSET Approvals] /\ Base /\ item \in [Items -> Item]
      /\ approval \in [Approvals -> ApprovalStatuses]
  BY DEF Sure, Base, TypeOK
<1>1. ASSUME NEW c \in Clients, NEW a \in todo'[c] PROVE approval'[a] # "none"
  <2>1. ASSUME NEW d \in Clients, Leave(d) PROVE a \in todo[c]
    BY <1>0, <1>1, <2>1 DEF Leave
  <2>2. ASSUME NEW d \in Clients, Step(d) PROVE a \in todo[c]
    BY <1>1, <2>1, <2>2 DEF Step, LookItem, LookApproval, Refused, Trade, Mark, Close, Commit, Die
  <2>3. ASSUME NEW d \in Clients, Decide(d) PROVE a \in todo[c]
    BY <1>0, <1>1, <2>3, DecideEffect DEF Taking, TakenUp
  <2>4. ASSUME NEW d \in Clients, NEW b, Queued(d, b) PROVE a \in todo[c]
    BY <1>0, <1>1, <2>1, <2>4 DEF Queued
  <2>5. ASSUME NEW d \in Clients, Rebuild(d) PROVE a \in todo[c] \/ (a \in Approvals /\ approval[a] = "PENDING")
    BY <1>0, <1>1, <2>5 DEF Rebuild
  <2>6. ASSUME NEW d \in Clients, NEW b \in Approvals, Escalate(d, b)
        PROVE  a \in todo[c] \/ (a \in Approvals /\ approval'[a] = "PENDING")
    BY <1>0, <1>1, <2>6 DEF Escalate
  <2>7. ASSUME NEW d \in Clients, NEW b \in Approvals, Ensure(d, b) PROVE a \in todo[c]
    BY <1>1, <2>4, <2>7 DEF Ensure
  <2>8. ASSUME NEW d \in Clients, Create(d) \/ SyncLoad(d) \/ SyncSave(d) PROVE a \in todo[c]
    BY <1>1, <2>1, <2>4, <2>8 DEF Create, SyncLoad, SyncSave
  <2>9. CASE UNCHANGED vars \/ \E s \in Proposals \cup Notices : QueueDirect(s)
    BY <1>1, <2>9, <1>0, NeverNone DEF vars, QueueDirect, Listed
  <2>10. a \in todo[c] => approval'[a] # "none"
    BY <1>0, NeverNone DEF Listed
  <2>11. a \in Approvals /\ approval[a] = "PENDING" => approval'[a] # "none"
    BY NeverNone
  <2> QED BY <2>2, <2>3, <2>5, <2>6, <2>7, <2>8, <2>9, <2>10, <2>11 DEF Next, Queueing
<1>2. ASSUME NEW c \in Clients, pc'[c] = "create" PROVE approval'[job'[c].of] # "none"
  <2>1. CASE pc[c] = "create" /\ job'[c] = job[c]
    <3>1. job[c].of \in Approvals /\ approval[job[c].of] # "none"
      BY <2>1 DEF Listed, Sure, Base, JobsShaped, JobShaped
    <3> QED BY <2>1, <3>1, NeverNone
  <2>2. ASSUME NEW a \in Approvals, job'[c].of = a, a \in todo[c] PROVE approval'[job'[c].of] # "none"
    BY <2>2, NeverNone DEF Listed
  <2> QED BY <1>2, <2>1, <2>2, CreatingHow
<1>3. ASSUME NEW i \in Items, item'[i].of \in Approvals PROVE approval'[item'[i].of] # "none"
  <2>1. CASE item'[i].of = item[i].of
    BY <1>3, <2>1, NeverNone DEF Listed
  <2>2. ASSUME NEW c \in Clients, Step(c) PROVE item'[i].of = item[i].of
    BY <2>2, Saving
  <2>3. ASSUME NEW c \in Clients, Queueing(c), item'[i].of # item[i].of PROVE approval'[item'[i].of] # "none"
    <3>1. Create(c)
      BY <2>3 DEF Queueing, Rebuild, SyncLoad, SyncSave, Escalate, Ensure, rowVars
    <3>2. item'[i].of = job[c].of /\ pc[c] = "create"
      BY <1>0, <2>3, <3>1 DEF Create, NewItem, Fresh
    <3> QED BY <1>3, <3>2, NeverNone DEF Listed
  <2>4. ASSUME NEW s \in Proposals \cup Notices, QueueDirect(s) PROVE item'[i].of = item[i].of
    BY <1>0, <1>3, <2>4, ApprovalsAssumption DEF QueueDirect, NewItem, Fresh
  <2>5. ASSUME NEW c \in Clients, Decide(c) PROVE item' = item
    BY <1>0, <2>5, DecideEffect DEF Taking, TakenUp, rowVars
  <2> QED BY <2>1, <2>2, <2>3, <2>4, <2>5 DEF Next, vars, rowVars
<1> QED BY <1>1, <1>2, <1>3 DEF Listed

unclear == spoiled \cup requeued \cup untold

(* Why: once an approval is decided its open item is about to be closed.   *)
ClosingFor(a) ==
  approval[a] \in Final =>
    /\ \A i \in OpenItems(a) : \E c \in Clients :
         pc[c] = "close" /\ job[c].item = i /\ job[c].op # "SNOOZE"
    /\ \A c \in Clients : pc[c] = "create" => job[c].of # a

RejectedFor(a) ==
  /\ \A i \in Items : item[i].of = a /\ item[i].status = "REJECTED" => approval[a] = "REJECTED"
  /\ \A c \in Clients : job[c].of = a /\ job[c].op = "REJECT" =>
       /\ pc[c] = "close" => approval[a] = "REJECTED"
       /\ pc[c] = "commit" => job[c].live

ThroughQueue(a) ==
  \A c \in Clients : job[c].of = a /\ pc[c] \in {"trade", "mark"} => job[c].item # None

Told == \A a \in Approvals \ unclear : ClosingFor(a) /\ RejectedFor(a) /\ ThroughQueue(a)

All == Sure /\ RowsTrue /\ Single /\ Listed

LEMMA UnclearGrows ==
  ASSUME Sure, [Next]_vars
  PROVE  unclear \subseteq unclear'
BY SpoiledGrows, HistoryGrows DEF unclear

(* What a ruling client has in hand is the approval's one open item.       *)
LEMMA RulesOpen ==
  ASSUME All, Told, NEW a \in Approvals \ unclear, NEW c \in Clients, Rules(c, a)
  PROVE  /\ job[c].item \in Items /\ OpenItems(a) = {job[c].item}
         /\ job[c].op \in {"APPROVE", "REJECT"}
<1>1. /\ JobShaped(pc[c], job[c]) /\ job[c] \in Job /\ OpenFor(c) /\ ThroughQueue(a)
      /\ a \notin crowded /\ a \notin requeued /\ job[c].of = a
  BY HeldParts DEF All, Sure, Held, Base, TypeOK, JobsShaped, Told, unclear, spoiled, Rules
<1>2. /\ pc[c] = "mark" \/ (pc[c] = "commit" /\ job[c].live)
      /\ job[c].op \in {"APPROVE", "REJECT"}
  BY <1>1 DEF Rules, Mark, Commit, JobShaped
<1>3. job[c].item # None /\ job[c].item \in Items
  BY <1>1, <1>2 DEF ThroughQueue, JobShaped, Job, Deciding
<1>4. job[c].item \in OpenItems(a)
  BY <1>1, <1>2, <1>3 DEF OpenFor, AtItem, OpenItems, JobShaped
<1>5. \A i, k \in OpenItems(a) : i = k
  BY <1>1 DEF All, Single, SingleOpen
<1> QED BY <1>2, <1>3, <1>4, <1>5

(* A decided approval is not found by a request that has an open item.     *)
LEMMA FoundUndecided ==
  ASSUME All, Told, NEW a \in Approvals \ unclear, NEW c \in Clients, LookApproval(c), job[c].of = a
  PROVE  approval[a] = "PENDING"
<1>1. /\ JobShaped(pc[c], job[c]) /\ job[c] \in Job /\ OpenFor(c) /\ ClosingFor(a)
      /\ a \notin crowded /\ pc[c] = "approval" /\ approval[a] \in ApprovalStatuses
  BY HeldParts DEF All, Sure, Held, Base, TypeOK, JobsShaped, Told, unclear, spoiled, LookApproval
<1>2. job[c].item \in OpenItems(a)
  BY <1>1 DEF JobShaped, Job, OpenFor, AtItem, OpenItems, Deciding
<1>3. approval[a] # "none"
  BY <1>2 DEF All, Listed, OpenItems
<1>4. ASSUME approval[a] \in Final PROVE FALSE
  <2>1. PICK d \in Clients : pc[d] = "close" /\ job[d].item = job[c].item
    BY <1>1, <1>2, <1>4 DEF ClosingFor
  <2>2. job[d].of = a /\ d # c
    BY <1>1, <1>2, <2>1, ApprovalsAssumption DEF All, Sure, Base, JobsShaped, JobShaped, OpenItems
  <2> QED BY <1>1, <2>1, <2>2 DEF All, Sure, Held, Alone, Deciding
<1> QED BY <1>1, <1>3, <1>4 DEF ApprovalStatuses, Final

LEMMA ThroughQueueNext ==
  ASSUME All, Told, [Next]_vars, NEW a \in Approvals \ unclear'
  PROVE  ThroughQueue(a)'
<1> SUFFICES ASSUME NEW c \in Clients, job'[c].of = a, pc'[c] \in {"trade", "mark"}
             PROVE  job'[c].item # None
  BY DEF ThroughQueue
<1>0. ThroughQueue(a) /\ Sure /\ JobShaped(pc[c], job[c])
  BY UnclearGrows DEF All, Told, Sure, Base, JobsShaped
<1>1. CASE pc'[c] = pc[c] /\ job'[c] = job[c]
  BY <1>0, <1>1 DEF ThroughQueue
<1>2. CASE Step(c)
  <2>1. pc[c] \in {"approval", "trade"} /\ job'[c].item = job[c].item /\ job'[c].of = job[c].of
    <3>1. Found(c) /\ Untouched(c)
      BY <1>0, <1>2, StepEffect DEF Sure
    <3>2. LookItem(c) \/ LookApproval(c) \/ Trade(c) \/ Leave(c) \/ GoTo(c, "close")
      BY <1>2 DEF Step, Refused, Mark, Close, Commit, Die
    <3>3. pc'[c] \notin {"idle", "close", "approval", "commit"}
      OBVIOUS
    <3>4. LookApproval(c) \/ Trade(c)
      <4>1. ~Leave(c)
        BY <1>0, <3>3, LeaveEffect DEF Sure, Base
      <4>2. \A point \in {"close", "approval", "commit"} : ~GoTo(c, point)
        BY <1>0, <3>3 DEF GoTo, Sure, Base, TypeOK
      <4> QED BY <3>2, <4>1, <4>2 DEF LookItem
    <3> QED BY <3>1, <3>4 DEF LookApproval, Trade, Found, Deciding
  <2> QED BY <1>0, <2>1 DEF ThroughQueue, JobShaped, Deciding
<1>3. CASE Decide(c)
  <2>1. PICK op \in Decisions, i \in Items \cup {None}, s \in Subjects, central \in BOOLEAN,
           point \in {"approval", "trade", "mark", "close", "request"} :
        Taking(c, op, i, s, central, point)
    BY <1>0, <1>3, DecideEffect DEF Sure
  <2>2. job'[c].of = s /\ job'[c].item = i
    BY <2>1 DEF Taking, TakenUp, NewJob
  <2> QED BY <2>1, <2>2 DEF Taking, unclear
<1>4. ASSUME NEW d \in Clients \ {c}, Step(d) \/ Decide(d) \/ Queueing(d)
      PROVE  pc'[c] = pc[c] /\ job'[c] = job[c]
  BY <1>0, <1>4, StepEffect, DecideEffect, QueueingEffect DEF Taking, TakenUp, Untouched, Sure
<1>5. CASE Queueing(c)
  BY <1>0, <1>5, QueueingEffect DEF Sure, Deciding
<1>6. CASE UNCHANGED vars \/ \E s \in Proposals \cup Notices : QueueDirect(s)
  BY <1>1, <1>6 DEF vars, QueueDirect
<1> QED BY <1>1, <1>2, <1>3, <1>4, <1>5, <1>6 DEF Next

LEMMA RejectedNext ==
  ASSUME All, Told, [Next]_vars, NEW a \in Approvals \ unclear'
  PROVE  RejectedFor(a)'
<1>0. /\ RejectedFor(a) /\ Sure /\ a \notin unclear /\ a \notin crowded
      /\ item \in [Items -> Item] /\ job \in [Clients -> Job] /\ pc \in [Clients -> Points]
      /\ approval \in [Approvals -> ApprovalStatuses]
  BY UnclearGrows DEF All, Told, Sure, Base, TypeOK, unclear, spoiled
<1>1. approval[a] = "REJECTED" => approval'[a] = "REJECTED"
  BY <1>0, FinalStays DEF Final
<1>2. ASSUME NEW i \in Items, item'[i].of = a, item'[i].status = "REJECTED"
      PROVE  approval'[a] = "REJECTED"
  <2>1. CASE item'[i] = item[i]
    BY <1>0, <1>1, <1>2, <2>1 DEF RejectedFor
  <2>2. ASSUME item'[i] # item[i], NEW c \in Clients, Step(c) PROVE approval'[a] = "REJECTED"
    <3>1. /\ job[c].of = a /\ pc[c] \in {"close", "commit"}
          /\ Closing(job[c].op, job[c].of) = "REJECTED" /\ (pc[c] = "commit" => Commit(c))
      BY <1>0, <1>2, <2>2, Saving
    <3>2. job[c].op = "REJECT"
      BY <3>1 DEF Closing
    <3>3. CASE pc[c] = "close"
      BY <1>0, <1>1, <3>1, <3>2, <3>3 DEF RejectedFor
    <3>4. CASE pc[c] = "commit"
      <4>1. job[c].live /\ Commit(c)
        BY <1>0, <3>1, <3>2, <3>4 DEF RejectedFor
      <4> QED BY <1>0, <3>1, <3>2, <4>1 DEF Commit, Verdict
    <3> QED BY <3>1, <3>3, <3>4
  <2>3. CASE item'[i] # item[i] /\ \A c \in Clients : ~Step(c)
    BY <1>0, <1>2, <2>3, OthersAdd
  <2> QED BY <2>1, <2>2, <2>3
<1>3. ASSUME NEW c \in Clients, job'[c].of = a, job'[c].op = "REJECT", pc'[c] \in {"close", "commit"}
      PROVE  /\ pc'[c] = "close" => approval'[a] = "REJECTED"
             /\ pc'[c] = "commit" => job'[c].live
  <2>1. CASE pc'[c] = pc[c] /\ job'[c] = job[c]
    BY <1>0, <1>1, <1>3, <2>1 DEF RejectedFor
  <2>2. CASE Step(c)
    <3>1. Found(c) /\ JobShaped(pc[c], job[c])
      BY <1>0, <2>2, StepEffect DEF Sure, Base, JobsShaped
    <3>2. job[c].of = a /\ job[c].op = "REJECT"
      BY <1>3, <3>1 DEF Found, Deciding
    <3>3. ~Leave(c)
      BY <1>0, <1>3, LeaveEffect DEF Sure, Base
    <3>4. ~GoTo(c, "approval") /\ ~GoTo(c, "mark")
      BY <1>0, <1>3 DEF GoTo
    <3>5. CASE LookItem(c)
      BY <3>2, <3>4, <3>5 DEF LookItem
    <3>6. CASE LookApproval(c)
      <4>1. approval[a] = "PENDING"
        BY <1>0, <3>2, <3>6, FoundUndecided
      <4>2. pc'[c] = NextPoint(job[c], TRUE) /\ job'[c].live = TRUE
        BY <1>0, <3>2, <3>6, <4>1 DEF LookApproval, GoTo, Job
      <4> QED BY <3>2, <4>2 DEF NextPoint
    <3>7. CASE Trade(c)
      BY <3>1, <3>2, <3>7 DEF Trade, JobShaped
    <3>8. CASE Mark(c)
      <4>1. pc'[c] = "close"
        BY <1>0, <3>3, <3>8 DEF Mark, GoTo
      <4>2. approval'[a] = "REJECTED"
        BY <1>0, <3>2, <3>8 DEF Mark, Verdict
      <4> QED BY <4>1, <4>2
    <3> QED BY <2>2, <3>3, <3>5, <3>6, <3>7, <3>8 DEF Step, Refused, Close, Commit, Die
  <2>3. CASE Decide(c)
    <3>1. PICK op \in Decisions, i \in Items \cup {None}, s \in Subjects, central \in BOOLEAN,
           point \in {"approval", "trade", "mark", "close", "request"} :
        Taking(c, op, i, s, central, point)
      BY <1>0, <2>3, DecideEffect DEF Sure
    <3>2. job'[c].of = s /\ job'[c].op = op /\ pc'[c] = point
      BY <3>1 DEF Taking, TakenUp, NewJob
    <3> QED BY <1>3, <3>1, <3>2 DEF Taking
  <2>4. ASSUME NEW d \in Clients \ {c}, Step(d) \/ Decide(d) \/ Queueing(d)
        PROVE  pc'[c] = pc[c] /\ job'[c] = job[c]
    BY <1>0, <2>4, StepEffect, DecideEffect, QueueingEffect DEF Taking, TakenUp, Untouched, Sure
  <2>5. CASE Queueing(c)
    BY <1>0, <1>3, <2>5, QueueingEffect DEF Sure, Deciding
  <2>6. CASE UNCHANGED vars \/ \E s \in Proposals \cup Notices : QueueDirect(s)
    BY <2>1, <2>6 DEF vars, QueueDirect
  <2> QED BY <2>1, <2>2, <2>3, <2>4, <2>5, <2>6 DEF Next
<1> QED BY <1>2, <1>3 DEF RejectedFor

(* A client that is closing an item closes it or dies.                     *)
LEMMA ClosingStays ==
  ASSUME Sure, [Next]_vars, NEW c \in Clients, pc[c] = "close"
  PROVE  \/ pc'[c] = pc[c] /\ job'[c] = job[c]
         \/ Close(c)
         \/ Die(c)
<1>1. CASE Step(c)
  BY <1>1 DEF Step, LookItem, LookApproval, Refused, Trade, Mark, Commit
<1>2. ~Decide(c) /\ ~Queueing(c)
  BY DecideEffect, QueueingEffect DEF Sure, Taking, Deciding
<1>3. ASSUME NEW d \in Clients \ {c}, Step(d) \/ Decide(d) \/ Queueing(d)
      PROVE  pc'[c] = pc[c] /\ job'[c] = job[c]
  BY <1>3, StepEffect, DecideEffect, QueueingEffect DEF Taking, TakenUp, Untouched, Sure
<1> QED BY <1>1, <1>2, <1>3 DEF Next, vars, QueueDirect

LEMMA ClosingNext ==
  ASSUME All, Told, [Next]_vars, NEW a \in Approvals \ unclear'
  PROVE  ClosingFor(a)'
<1>0. /\ ClosingFor(a) /\ Sure /\ Single /\ a \notin unclear /\ a \notin crowded /\ a \notin requeued
      /\ a \notin crowded' /\ a \notin requeued' /\ a \notin untold'
      /\ item \in [Items -> Item] /\ job \in [Clients -> Job] /\ pc \in [Clients -> Points]
      /\ approval \in [Approvals -> ApprovalStatuses]
  BY UnclearGrows DEF All, Told, Sure, Base, TypeOK, unclear, spoiled
<1> SUFFICES ASSUME approval'[a] \in Final PROVE ClosingFor(a)'
  BY DEF ClosingFor
<1>1. approval[a] \in Final \/ \E c \in Clients : Rules(c, a)
  BY <1>0, RuledBy DEF Final
<1>2. ASSUME NEW c \in Clients, pc'[c] = "create", job'[c].of = a PROVE FALSE
  <2>1. CASE pc[c] = "create" /\ job'[c] = job[c]
    <3>1. approval[a] \notin Final
      BY <1>0, <1>2, <2>1 DEF ClosingFor
    <3>2. PICK d \in Clients : Rules(d, a)
      BY <1>1, <3>1
    <3>3. OpenItems(a) # {}
      BY <1>0, <3>2, RulesOpen
    <3> QED BY <1>0, <1>2, <2>1, <3>3 DEF Single, FoundNone
  <2>2. ASSUME approval' = approval, approval[a] # "PENDING" => a \in requeued' PROVE FALSE
    BY <1>0, <2>2 DEF Final
  <2> QED BY <1>0, <1>2, <2>1, <2>2, CreatingHow
<1>3. ASSUME NEW i \in OpenItems(a)'
      PROVE  \E c \in Clients : pc'[c] = "close" /\ job'[c].item = i /\ job'[c].op # "SNOOZE"
  <2>1. CASE i \in OpenItems(a) /\ approval[a] \in Final
    <3>1. PICK c \in Clients : pc[c] = "close" /\ job[c].item = i /\ job[c].op # "SNOOZE"
      BY <1>0, <2>1 DEF ClosingFor
    <3>2. job[c].of = a /\ i \in Items
      BY <1>0, <2>1, <3>1, ApprovalsAssumption DEF OpenItems, Sure, Base, JobsShaped, JobShaped
    <3>3. ~Close(c)
      <4>1. ASSUME Close(c) PROVE FALSE
        <5>1. item'[i].status = Closing(job[c].op, job[c].of)
          BY <1>0, <3>1, <3>2, <4>1 DEF Close, Item
        <5>2. Closing(job[c].op, job[c].of) \notin OpenStatuses
          BY <3>1 DEF Closing, OpenStatuses
        <5> QED BY <5>1, <5>2 DEF OpenItems, Open
      <4> QED BY <4>1
    <3>4. ~Die(c)
      BY <1>0, <3>1, <3>2 DEF Die
    <3> QED BY <1>0, <3>1, <3>3, <3>4, ClosingStays
  <2>2. ASSUME i \in OpenItems(a), NEW c \in Clients, Rules(c, a)
        PROVE  pc'[c] = "close" /\ job'[c].item = i /\ job'[c].op # "SNOOZE"
    <3>1. job[c].item = i /\ job[c].op \in {"APPROVE", "REJECT"} /\ job[c].item \in Items
      BY <1>0, <2>2, RulesOpen
    <3>2. ~Commit(c)
      <4>1. ASSUME Commit(c) PROVE FALSE
        <5>1. item'[i].status = Closing(job[c].op, job[c].of)
          BY <1>0, <3>1, <4>1 DEF Commit, Item
        <5>2. Closing(job[c].op, job[c].of) \notin OpenStatuses
          BY <3>1 DEF Closing, OpenStatuses
        <5> QED BY <5>1, <5>2 DEF OpenItems, Open
      <4> QED BY <4>1
    <3>3. GoTo(c, "close") /\ job' = job
      BY <2>2, <3>1, <3>2, ApprovalsAssumption DEF Rules, Mark
    <3> QED BY <1>0, <3>1, <3>3 DEF GoTo
  <2>3. ASSUME NEW c \in Clients, Create(c), job[c].of = a PROVE FALSE
    <3>1. pc[c] = "create" /\ approval' = approval
      BY <2>3 DEF Create
    <3> QED BY <1>0, <2>3, <3>1 DEF ClosingFor
  <2> QED BY <1>0, <1>1, <2>1, <2>2, <2>3, OpenedHow
<1>4. /\ \A i \in OpenItems(a)' : \E c \in Clients :
           pc'[c] = "close" /\ job'[c].item = i /\ job'[c].op # "SNOOZE"
      /\ \A c \in Clients : pc'[c] = "create" => job'[c].of # a
  BY <1>2, <1>3
<1> QED BY <1>4 DEF ClosingFor

LEMMA ToldAlways == Spec => []All /\ []Told
<1>1. Init => Listed /\ Told
  <2>1. ASSUME Init PROVE Listed
    BY <2>1, ApprovalsAssumption DEF Init, Listed, NoItem, Subjects
  <2>2. ASSUME Init, NEW a \in Approvals PROVE ClosingFor(a) /\ RejectedFor(a) /\ ThroughQueue(a)
    BY <2>2 DEF Init, ClosingFor, RejectedFor, ThroughQueue, Final, NoItem, NoJob
  <2> QED BY <2>1, <2>2 DEF Told
<1>2. All /\ Told /\ [Next]_vars => Told'
  BY ClosingNext, RejectedNext, ThroughQueueNext DEF Told
<1>3. Sure /\ RowsTrue /\ Single /\ Listed => All
  BY DEF All
<1> QED BY <1>1, <1>2, <1>3, ListedNext, SureAlways, RowsTrueAlways, SingleAlways, PTL DEF Spec

(* An item shows REJECTED although the trade was made only if its subject  *)
(* was decided past the queue, a process died before it closed the item,   *)
(* or it was queued again at the wrong moment.                             *)
THEOREM QueueIsTrue == Spec => []QueueTellsTruth
<1>1. All /\ Told => QueueTellsTruth
  <2> SUFFICES ASSUME All, Told, NEW i \in Items, item[i].status = "REJECTED",
                      trades[item[i].of] > 0, item[i].of \notin unclear
               PROVE  FALSE
    BY DEF QueueTellsTruth, unclear
  <2>1. item[i].of \in Subjects
    BY OpenItemOf DEF All, Sure
  <2>2. PICK s \in Subjects : s = item[i].of
    BY <2>1
  <2>3. TrueFor(s) /\ s \notin crowded
    BY <2>2 DEF All, RowsTrue, unclear, spoiled
  <2>4. CASE s \in Approvals
    <3>1. approval[s] = "REJECTED"
      BY <2>2, <2>4 DEF Told, RejectedFor
    <3>2. PICK c \in Clients : About(c, "mark", s)
      BY <2>2, <2>3, <2>4, <3>1 DEF TrueFor, ApprovalTrue
    <3>3. PendingFor(c)
      BY HeldParts DEF All, Sure, Held
    <3> QED BY <2>3, <2>4, <3>1, <3>2, <3>3 DEF PendingFor, AtApproval, About
  <2>5. CASE s \in Proposals
    BY <2>2, <2>3, <2>5 DEF TrueFor, ProposalTrue
  <2>6. CASE s \in Notices
    BY <2>2, <2>3, <2>6 DEF TrueFor
  <2> QED BY <2>4, <2>5, <2>6 DEF Subjects
<1> QED BY <1>1, ToldAlways, PTL

===============================================================================
