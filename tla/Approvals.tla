------------------------------- MODULE Approvals -------------------------------
(***************************************************************************)
(* Human decisions on proposed trades, at three endpoints that share rows: *)
(* the pending approval itself, the operator queue's item for it, and the  *)
(* approval center's request for the item.  The first two save row by row, *)
(* each save committed at once (no request-wide transaction); the approval *)
(* center decides in one transaction.  No row is locked before it is read: *)
(* every status is tested on an object loaded at an earlier step.          *)
(***************************************************************************)
EXTENDS Naturals, FiniteSets

CONSTANTS
  Clients,    \* requests and runs at work at once
  Approvals,  \* PendingApproval rows
  Proposals,  \* proposals the supervisor queues to be traded on approval
  Notices,    \* queued for a look only: nothing to trade
  Items,      \* bound: ids of OperatorQueueItem rows
  None,       \* no item, no subject
  MaxTrades,  \* bound: trades on one subject
  MaxSubjects, \* bound: subjects brought up
  AfterCrowd  \* bound: is a crowded subject, out of every promise, decided again?

Subjects == Approvals \cup Proposals \cup Notices

ASSUME ApprovalsAssumption ==
  /\ Approvals \cap Proposals = {} /\ Approvals \cap Notices = {}
  /\ Proposals \cap Notices = {}
  /\ None \notin Items \cup Subjects
  /\ MaxTrades \in Nat /\ MaxSubjects \in Nat /\ AfterCrowd \in BOOLEAN

VARIABLES
  approval,   \* status of the PendingApproval rows, "none" before creation
  item,       \* OperatorQueueItem rows
  request,    \* status of the ApprovalRequest rows, one for each item
  trades,     \* PaperTrade rows made on behalf of each subject
  pc, job,    \* where each client is, and on what
  todo, seen, \* approvals still to be queued; statuses a sync has loaded
  crowded,    \* history: subjects that two decisions were under way on
  cut,        \* history: a process died between a trade and its record
  requeued,   \* history: approvals queued by two clients at once, or too late
  untold      \* history: approvals decided on without the item being closed

rowVars == <<approval, item, request, trades>>
history == <<crowded, cut, requeued, untold>>
vars == <<rowVars, pc, job, todo, seen, history>>

OpenStatuses == {"PENDING", "SNOOZED"}
ItemStatuses == OpenStatuses \cup {"none", "APPROVED", "REJECTED", "EXPIRED", "EXECUTED"}
ApprovalStatuses == {"none", "PENDING", "REJECTED", "EXECUTED"}
RequestStatuses == {"none", "PENDING", "APPROVED", "REJECTED", "EXPIRED", "ESCALATED"}
Decisions == {"APPROVE", "REJECT", "SNOOZE", "EXPIRE", "ESCALATE"}

Item == [status : ItemStatuses, of : Subjects \cup {None}]

(* central: through the approval center.  live: the approval was PENDING   *)
(* when it was looked at.                                                  *)
Job == [op : Decisions, item : Items \cup {None}, of : Subjects \cup {None},
        central : BOOLEAN, live : BOOLEAN]

Deciding == {"approval", "trade", "mark", "close", "request", "commit"}
Points == Deciding \cup {"idle", "seen", "ensure", "create"}

NoItem == [status |-> "none", of |-> None]
NoJob == [op |-> "APPROVE", item |-> None, of |-> None,
          central |-> FALSE, live |-> FALSE]

Init ==
  /\ approval = [a \in Approvals |-> "none"]
  /\ item = [i \in Items |-> NoItem] /\ request = [i \in Items |-> "none"]
  /\ trades = [s \in Subjects |-> 0]
  /\ pc = [c \in Clients |-> "idle"] /\ job = [c \in Clients |-> NoJob]
  /\ todo = [c \in Clients |-> {}]
  /\ seen = [c \in Clients |-> [i \in Items |-> "none"]]
  /\ crowded = {} /\ cut = {} /\ requeued = {} /\ untold = {}

Open(i) == item[i].status \in OpenStatuses
OpenItems(s) == {i \in Items : Open(i) /\ item[i].of = s}
Fresh == {i \in Items : item[i].status = "none"}
BroughtUp == {a \in Approvals : approval[a] # "none"} \cup {item[i].of : i \in Items \ Fresh}

(* Client c takes up a decision; two on one subject at once crowd it.      *)
Begin(c, op, i, s, central, point) ==
  /\ pc[c] = "idle" /\ (s \in crowded => AfterCrowd)
  /\ pc' = [pc EXCEPT ![c] = point]
  /\ job' = [job EXCEPT ![c] = [op |-> op, item |-> i, of |-> s,
                                central |-> central, live |-> FALSE]]
  /\ crowded' = IF \E d \in Clients : pc[d] \in Deciding /\ job[d].of = s
                THEN crowded \cup {s} ELSE crowded
  /\ UNCHANGED <<rowVars, todo, seen, cut, requeued>>

GoTo(c, point) == pc' = [pc EXCEPT ![c] = point]

(* The request ends; everything it held in memory is gone.                 *)
Leave(c) ==
  /\ pc' = [pc EXCEPT ![c] = "idle"]
  /\ job' = [job EXCEPT ![c] = NoJob]
  /\ todo' = [todo EXCEPT ![c] = {}]
  /\ seen' = [seen EXCEPT ![c] = [i \in Items |-> "none"]]

(* Mutant: a decided approval can be decided again.                        *)
OpenApprovalAlways(c, a, op) ==
  /\ approval[a] # "none"
  /\ Begin(c, op, None, a, FALSE, IF op = "APPROVE" THEN "trade" ELSE "mark")
  /\ untold' = untold \cup {a}

(* approve_ and reject_pending_approval at their own endpoint.             *)
OpenApproval(c, a, op) ==
  /\ approval[a] = "PENDING"
  /\ Begin(c, op, None, a, FALSE, IF op = "APPROVE" THEN "trade" ELSE "mark")
  /\ untold' = untold \cup {a}

(* Where a decision on an open item goes: an approval is loaded when it is *)
(* needed, a proposal is traded, and anything else only closes the item.   *)
FirstPoint(op, s) ==
  IF op # "SNOOZE" /\ s \in Approvals THEN "approval"
  ELSE IF op = "APPROVE" /\ s \in Proposals THEN "trade" ELSE "close"

(* Mutant: a closed item can be decided again.                             *)
OpenItemAlways(c, i, op) ==
  LET s == item[i].of IN
  /\ item[i].status # "none"
  /\ Begin(c, op, i, s, FALSE, FirstPoint(op, s))
  /\ UNCHANGED untold

(* approve_, reject_ and snooze_queue_item: the item is loaded and must be *)
(* open.                                                                   *)
OpenItem(c, i, op) ==
  LET s == item[i].of IN
  /\ Open(i)
  /\ Begin(c, op, i, s, FALSE, FirstPoint(op, s))
  /\ UNCHANGED untold

(* apply_decision: the request row is loaded and must be PENDING, except   *)
(* to escalate.                                                            *)
OpenRequest(c, i, op) ==
  /\ request[i] = "PENDING" \/ (op = "ESCALATE" /\ request[i] # "none")
  /\ Begin(c, op, i, item[i].of, TRUE, "request")
  /\ UNCHANGED untold

(* The center loads the item.  Only approve and reject test its status.    *)
LookItem(c) ==
  /\ pc[c] = "request"
  /\ \/ job[c].op \in {"EXPIRE", "ESCALATE"} /\ GoTo(c, "commit")
     \/ /\ job[c].op \in {"APPROVE", "REJECT"} /\ Open(job[c].item)
        /\ GoTo(c, IF job[c].of \in Approvals THEN "approval" ELSE "commit")
  /\ UNCHANGED <<rowVars, job, todo, seen, history>>

(* Where a decision goes once its approval is loaded.                      *)
NextPoint(j, live) ==
  IF j.central THEN "commit"
  ELSE IF j.op = "APPROVE" THEN "trade" ELSE IF live THEN "mark" ELSE "close"

(* Mutant: the approval's own status is not asked, the item's is enough.   *)
LookApprovalUntested(c) ==
  /\ pc[c] = "approval"
  /\ job' = [job EXCEPT ![c].live = TRUE]
  /\ GoTo(c, NextPoint(job[c], TRUE))
  /\ UNCHANGED <<rowVars, todo, seen, history>>

(* The item's approval is loaded.  An approve needs it PENDING; a reject   *)
(* passes over it when it is not and closes the item all the same.         *)
LookApproval(c) ==
  LET live == approval[job[c].of] = "PENDING" IN
  /\ pc[c] = "approval"
  /\ job[c].op = "APPROVE" => live
  /\ job' = [job EXCEPT ![c].live = live]
  /\ GoTo(c, NextPoint(job[c], live))
  /\ UNCHANGED <<rowVars, todo, seen, history>>

(* The status found does not allow the decision: the request raises.       *)
Refused(c) ==
  /\ \/ /\ pc[c] = "request" /\ job[c].op \in {"APPROVE", "REJECT"}
        /\ ~Open(job[c].item)
     \/ /\ pc[c] = "approval" /\ job[c].op = "APPROVE"
        /\ approval[job[c].of] # "PENDING"
  /\ Leave(c)
  /\ UNCHANGED <<rowVars, history>>

(* execute_paper_trade commits a transaction of its own.                   *)
Trade(c) ==
  LET s == job[c].of IN
  /\ pc[c] = "trade" /\ trades[s] < MaxTrades
  /\ trades' = [trades EXCEPT ![s] = @ + 1]
  /\ GoTo(c, IF s \in Approvals THEN "mark" ELSE "close")
  /\ UNCHANGED <<approval, item, request, job, todo, seen, history>>

Verdict(op) == IF op = "APPROVE" THEN "EXECUTED" ELSE "REJECTED"

(* The approval is saved, whatever its row says by now.                    *)
Mark(c) ==
  /\ pc[c] = "mark"
  /\ approval' = [approval EXCEPT ![job[c].of] = Verdict(job[c].op)]
  /\ IF job[c].item = None THEN Leave(c)
     ELSE GoTo(c, "close") /\ UNCHANGED <<job, todo, seen>>
  /\ UNCHANGED <<item, request, trades, history>>

(* Mutant: an expired item is saved as rejected.                           *)
ClosingExpired(op, s) ==
  CASE op = "SNOOZE" -> "SNOOZED"
    [] op \in {"REJECT", "EXPIRE"} -> "REJECTED"
    [] op = "APPROVE" /\ s \in Notices -> "APPROVED"
    [] OTHER -> "EXECUTED"

(* The status the item is saved with.                                      *)
Closing(op, s) ==
  CASE op = "SNOOZE" -> "SNOOZED"
    [] op = "REJECT" -> "REJECTED"
    [] op = "EXPIRE" -> "EXPIRED"
    [] op = "APPROVE" /\ s \in Notices -> "APPROVED"
    [] OTHER -> "EXECUTED"

(* The item is saved, and the decision logged.                             *)
Close(c) ==
  /\ pc[c] = "close"
  /\ item' = [item EXCEPT ![job[c].item].status = Closing(job[c].op, job[c].of)]
  /\ Leave(c)
  /\ UNCHANGED <<approval, request, trades, history>>

STATUS_BY_DECISION ==
  [APPROVE |-> "APPROVED", REJECT |-> "REJECTED", EXPIRE |-> "EXPIRED",
   ESCALATE |-> "ESCALATED"]

(* Mutant: the decision itself is saved as the request's status.           *)
ShownRaw(op) == op

Shown(op) == STATUS_BY_DECISION[op]

(* The center's transaction commits: trade, approval, item and request.    *)
Commit(c) ==
  LET j == job[c] IN
  /\ pc[c] = "commit"
  /\ j.op = "APPROVE" /\ j.of \notin Notices => trades[j.of] < MaxTrades
  /\ trades' = IF j.op = "APPROVE" /\ j.of \notin Notices
               THEN [trades EXCEPT ![j.of] = @ + 1] ELSE trades
  /\ approval' = IF j.live THEN [approval EXCEPT ![j.of] = Verdict(j.op)]
                 ELSE approval
  /\ item' = IF j.op = "ESCALATE" THEN item
             ELSE [item EXCEPT ![j.item].status = Closing(j.op, j.of)]
  /\ request' = [request EXCEPT ![j.item] = Shown(j.op)]
  /\ Leave(c)
  /\ UNCHANGED history

(* A request that ends early: the trade is refused, or the process dies.   *)
(* What it has committed by then stays.                                    *)
Die(c) ==
  LET s == job[c].of
      torn == /\ job[c].op = "APPROVE"
              /\ \/ pc[c] = "mark"
                 \/ pc[c] = "close" /\ s \in Proposals
  IN
  /\ pc[c] # "idle"
  /\ Leave(c)
  /\ cut' = IF torn THEN cut \cup {s} ELSE cut
  /\ untold' = IF pc[c] = "close" /\ s \in Approvals THEN untold \cup {s} ELSE untold
  /\ UNCHANGED <<rowVars, crowded, requeued>>

(* A run finds that a trade needs approval: it creates the PendingApproval *)
(* and then queues it.                                                     *)
Escalate(c, a) ==
  /\ pc[c] = "idle" /\ approval[a] = "none"
  /\ Cardinality(BroughtUp) < MaxSubjects
  /\ approval' = [approval EXCEPT ![a] = "PENDING"]
  /\ todo' = [todo EXCEPT ![c] = {a}]
  /\ GoTo(c, "ensure")
  /\ UNCHANGED <<item, request, trades, job, seen, history>>

(* rebuild_from_pending_approvals: loads the PENDING ones and queues each. *)
Rebuild(c) ==
  /\ pc[c] = "idle"
  /\ \E a \in Approvals : approval[a] = "PENDING"
  /\ todo' = [todo EXCEPT ![c] = {a \in Approvals : approval[a] = "PENDING"}]
  /\ GoTo(c, "ensure")
  /\ UNCHANGED <<rowVars, job, seen, history>>

(* The rest of the client's approvals, once a has been queued.             *)
Queued(c, a) ==
  IF todo[c] = {a} THEN Leave(c)
  ELSE /\ todo' = [todo EXCEPT ![c] = @ \ {a}]
       /\ GoTo(c, "ensure")
       /\ job' = [job EXCEPT ![c] = NoJob]
       /\ UNCHANGED seen

(* Mutant: a snoozed item does not count as queued.                        *)
QueuedAlreadyPending(a) == \E i \in Items : item[i].status = "PENDING" /\ item[i].of = a

QueuedAlready(a) == OpenItems(a) # {}

(* ensure_queue_item_for_pending_approval looks for an open item ...       *)
Ensure(c, a) ==
  /\ pc[c] = "ensure" /\ a \in todo[c]
  /\ IF QueuedAlready(a) THEN Queued(c, a) /\ UNCHANGED requeued
     ELSE /\ GoTo(c, "create")
          /\ job' = [job EXCEPT ![c].of = a]
          /\ requeued' = IF \/ approval[a] # "PENDING"
                            \/ \E d \in Clients : pc[d] = "create" /\ job[d].of = a
                         THEN requeued \cup {a} ELSE requeued
          /\ UNCHANGED <<todo, seen>>
  /\ UNCHANGED <<rowVars, crowded, cut, untold>>

NewItem(s) ==
  \E i \in Fresh : item' = [item EXCEPT ![i] = [status |-> "PENDING", of |-> s]]

(* ... and creates one if there was none.                                  *)
Create(c) ==
  /\ pc[c] = "create"
  /\ NewItem(job[c].of)
  /\ Queued(c, job[c].of)
  /\ UNCHANGED <<approval, request, trades, history>>

(* The supervisor queues a proposal, other components a notice: each is    *)
(* new, and its item is created in one statement.                          *)
QueueDirect(s) ==
  /\ s \notin BroughtUp /\ Cardinality(BroughtUp) < MaxSubjects
  /\ NewItem(s)
  /\ UNCHANGED <<approval, request, trades, pc, job, todo, seen, history>>

(* sync_approval_requests, on every GET of the approval center: loads the  *)
(* items that require approval ...                                         *)
SyncLoad(c) ==
  /\ pc[c] = "idle"
  /\ seen' = [seen EXCEPT ![c] =
                [i \in Items |-> IF item[i].of \in Notices THEN "none"
                                 ELSE item[i].status]]
  /\ GoTo(c, "seen")
  /\ UNCHANGED <<rowVars, job, todo, history>>

OPERATOR_STATUS_MAP ==
  [PENDING |-> "PENDING", SNOOZED |-> "PENDING", APPROVED |-> "APPROVED",
   EXECUTED |-> "APPROVED", REJECTED |-> "REJECTED", EXPIRED |-> "EXPIRED"]

(* ... and saves the request of each with the status loaded.               *)
SyncSave(c) ==
  /\ pc[c] = "seen"
  /\ request' = [i \in Items |-> IF seen[c][i] = "none" THEN request[i]
                                 ELSE OPERATOR_STATUS_MAP[seen[c][i]]]
  /\ Leave(c)
  /\ UNCHANGED <<approval, item, trades, history>>

Step(c) ==
  \/ LookItem(c) \/ LookApproval(c) \/ Refused(c) \/ Trade(c) \/ Mark(c)
  \/ Close(c) \/ Commit(c) \/ Die(c)

Queueing(c) ==
  \/ Rebuild(c) \/ Create(c) \/ SyncLoad(c) \/ SyncSave(c)
  \/ \E a \in Approvals : Escalate(c, a) \/ Ensure(c, a)

Decide(c) ==
  \/ \E a \in Approvals, op \in {"APPROVE", "REJECT"} : OpenApproval(c, a, op)
  \/ \E i \in Items, op \in Decisions \ {"EXPIRE", "ESCALATE"} : OpenItem(c, i, op)
  \/ \E i \in Items, op \in Decisions \ {"SNOOZE"} : OpenRequest(c, i, op)

Next ==
  \/ \E c \in Clients : Decide(c) \/ Step(c) \/ Queueing(c)
  \/ \E s \in Proposals \cup Notices : QueueDirect(s)

Spec == Init /\ [][Next]_vars

-------------------------------------------------------------------------------
(* Type invariant.                                                         *)
TypeOK ==
  /\ approval \in [Approvals -> ApprovalStatuses]
  /\ item \in [Items -> Item] /\ request \in [Items -> RequestStatuses]
  /\ trades \in [Subjects -> Nat]
  /\ pc \in [Clients -> Points] /\ job \in [Clients -> Job]
  /\ todo \in [Clients -> SUBSET Approvals]
  /\ seen \in [Clients -> [Items -> ItemStatuses]]
  /\ crowded \subseteq Subjects /\ cut \subseteq Subjects
  /\ requeued \subseteq Approvals /\ untold \subseteq Approvals

spoiled == crowded \cup cut

(* No trade is made twice, through whichever endpoints and however often   *)
(* it is queued again, and what the approval's row says is what happened,  *)
(* unless two decisions were under way at once or a process died right     *)
(* after its trade.                                                        *)
TradedOnce ==
  \A s \in Subjects \ spoiled :
    /\ trades[s] <= 1
    /\ s \in Approvals =>
         /\ approval[s] \in {"none", "REJECTED"} => trades[s] = 0
         /\ approval[s] = "EXECUTED" => trades[s] = 1

(* A closed item stays closed, although snooze saves it as open on the     *)
(* strength of an earlier look and the approval center expires it blindly. *)
ClosedStaysClosed ==
  [][ \A i \in Items :
        item[i].status \notin OpenStatuses \cup {"none"} /\ item[i].of \notin crowded =>
          item'[i].status \notin OpenStatuses \cup {"none"} ]_vars

(* The approval center may lag behind the queue, by a sync that saves what *)
(* it loaded long ago, but it never shows as decided what is still open.   *)
MirrorNeverAhead ==
  \A i \in Items :
    /\ request[i] \in {"APPROVED", "REJECTED", "EXPIRED"}
    /\ item[i].of \notin crowded
    => ~Open(i)

(* An approval has one open item at most: queueing it again finds the one  *)
(* there is, snoozed or not.                                               *)
OneOpenItem ==
  \A a \in Approvals \ (crowded \cup requeued) :
    Cardinality(OpenItems(a)) <= 1

(* An item shows REJECTED although the trade was made only when the        *)
(* approval was decided past the queue, at its own endpoint, a process     *)
(* died before it closed the item, or the approval was queued once more by *)
(* a client that had loaded it before it was decided.                      *)
QueueTellsTruth ==
  \A i \in Items :
    item[i].status = "REJECTED" /\ trades[item[i].of] > 0 =>
      item[i].of \in spoiled \cup requeued \cup untold

(* What has become of a subject, as OneDecision sees it.                   *)
Outcome ==
  [s \in Subjects |->
    IF trades[s] > 0 THEN "executed"
    ELSE IF s \in Approvals
    THEN IF approval[s] = "REJECTED" THEN "rejected" ELSE "open"
    ELSE IF \E i \in Items :
              item[i].of = s /\ item[i].status \in {"REJECTED", "EXPIRED"}
    THEN "rejected" ELSE "open"]

Abstract == INSTANCE OneDecision WITH outcome <- Outcome

(* The three endpoints together implement one final decision.              *)
DecidedOnce == Abstract!Spec
===============================================================================
