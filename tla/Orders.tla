--------------------------------- MODULE Orders ---------------------------------
(***************************************************************************)
(* The execution simulator: paper orders of one account, and lifecycle     *)
(* runs that fill, expire and cancel them.  A run is one transaction: it   *)
(* loads the orders, each with an account object of its own, and works     *)
(* through them in the order of their creation.  No order row is locked    *)
(* before it is read; the first row it writes makes it wait for whoever    *)
(* wrote that row before, so that its writes and its look at the position  *)
(* all happen, as it were, when it commits.                                *)
(***************************************************************************)
EXTENDS Allocation, FiniteSets, FiniteSetsExt

CONSTANTS
  NumOrders,    \* bound: orders ever created
  Runs,         \* lifecycle runs at work at once
  Supervised,   \* bound: those a supervisor's cycle may make
  Reviews,      \* bound: those that may be over all orders
  InitialCash,  \* the account's cash at first
  MaxQuantity,  \* bound: quantity of an order
  Quantity,     \* bound: the quantity asked for with each order
  MaxWaits,     \* bound: attempts on an order
  Dated,        \* orders with an expires_at
  Policy,       \* [max_wait, cancel_after] of each order's policy profile
  Market,       \* the market traded
  Prices,       \* what a contract may cost when an order is sized or filled
  Exposures     \* what the market's open positions may be worth, as marked

Orders == 1..NumOrders

ASSUME OrdersAssumption ==
  /\ NumOrders \in Nat /\ InitialCash \in Nat /\ MaxQuantity \in Nat
  /\ Quantity \in [Orders -> 1..MaxQuantity] /\ MaxWaits \in Nat
  /\ Policy \in [Orders -> [max_wait : Nat, cancel_after : Nat]]
  /\ Supervised \subseteq Runs /\ Reviews \subseteq Runs
  /\ Dated \subseteq Orders /\ Markets = {Market}
  /\ Prices \subseteq Nat /\ Exposures \subseteq Nat

VARIABLES
  order,   \* PaperOrder rows
  filled,  \* what the PaperFill rows of each order add up to
  due,     \* orders whose expires_at has passed
  cash,    \* the account's cash_balance
  held,    \* the position's quantity
  flow,    \* what the trades brought in less what they cost
  pc, mem, \* what each run is at, and has loaded
  crossed, \* history: orders saved by a run that another had overtaken
  lost     \* history: a trade was booked on an account object that missed one

rowVars == <<order, filled, due, cash, held, flow>>
vars == <<rowVars, pc, mem, crossed, lost>>

OpenStatuses == {"OPEN", "PARTIALLY_FILLED"}
Statuses == OpenStatuses \cup {"none", "FILLED", "CANCELLED", "EXPIRED"}

PaperOrder ==
  [status : Statuses, side : {"BUY", "SELL"}, requested : 0..MaxQuantity,
   remaining : 0..MaxQuantity, wait_cycles : 0..MaxWaits]

(* allotted: the quantity a proposal was allocated, at the reference price *)
(* ref, by the run's own caller; own: the order it has created for it in   *)
(* this transaction; list: the rows loaded; stale: those saved by other    *)
(* runs since then; behind: a trade was committed since then; outdated: or *)
(* since the allocation.                                                   *)
Memory ==
  [list : [Orders -> PaperOrder], loaded : SUBSET Orders, own : SUBSET Orders,
   cash : Int, allotted : Nat, ref : Nat,
   stale : SUBSET Orders, behind : BOOLEAN, outdated : BOOLEAN]

NoOrder == [status |-> "none", side |-> "BUY", requested |-> 0, remaining |-> 0,
            wait_cycles |-> 0]
Nothing == [list |-> [o \in Orders |-> NoOrder], loaded |-> {}, own |-> {},
            cash |-> 0, allotted |-> 0, ref |-> 0,
            stale |-> {}, behind |-> FALSE, outdated |-> FALSE]

Init ==
  /\ order = [o \in Orders |-> NoOrder] /\ filled = [o \in Orders |-> 0]
  /\ due = {} /\ cash = InitialCash /\ held = 0 /\ flow = 0
  /\ pc = [r \in Runs |-> "idle"] /\ mem = [r \in Runs |-> Nothing]
  /\ crossed = {} /\ lost = FALSE

Open(o) == order[o].status \in OpenStatuses

(* Ids are given out in the order of creation, also by a transaction that  *)
(* has not committed.                                                      *)
Used == {o \in Orders : order[o].status # "none"} \cup UNION {mem[r].own : r \in Runs}
NextOrder(o) == o \notin Used /\ \A p \in Orders : p < o => p \in Used

NewOrder(side, q) ==
  [status |-> "OPEN", side |-> side, requested |-> q, remaining |-> q, wait_cycles |-> 0]

(* create_order, by a request or the position manager.                     *)
CreateOrder(o, side) ==
  /\ NextOrder(o)
  /\ order' = [order EXCEPT ![o] = NewOrder(side, Quantity[o])]
  /\ UNCHANGED <<filled, due, cash, held, flow, pc, mem, crossed, lost>>

(* An order's expires_at passes.                                           *)
TimePasses(o) ==
  /\ o \in Dated \ due /\ Open(o) /\ due' = due \cup {o}
  /\ UNCHANGED <<order, filled, cash, held, flow, pc, mem, crossed, lost>>

(* Run r loads rows, and with each of them the account, as its transaction *)
(* sees them.                                                              *)
Load(r, rows, loaded, own) ==
  /\ \A o \in loaded : rows[o].wait_cycles < MaxWaits
  /\ pc' = [pc EXCEPT ![r] = "loaded"]
  /\ mem' = [mem EXCEPT ![r] =
               [@ EXCEPT !.list = rows, !.loaded = loaded, !.own = own,
                         !.cash = cash, !.allotted = 0]]
  /\ UNCHANGED <<rowVars, crossed, lost>>

ToRun(open_only) ==
  {o \in Orders : IF open_only THEN Open(o) ELSE order[o].status # "none"}

(* run_execution_lifecycle by itself: over the open orders, or, when its   *)
(* caller asks for it, over all.                                           *)
BeginRun(r, open_only) ==
  /\ pc[r] = "idle" /\ ToRun(open_only) # {}
  /\ Load(r, order, ToRun(open_only), {})

(* The supervisor's cycle, one transaction: a proposal is allocated a      *)
(* quantity for the cash there is, at the price it refers to.              *)
Sized(requested, ref, exposure) ==
  FinalQuantity(FirstShare(cash), [k \in Markets |-> exposure],
                [market |-> Market, requested |-> requested, price |-> ref,
                 policy_decision |-> "AUTO_APPROVE"])

Allocate(r, requested, ref, exposure) ==
  /\ pc[r] = "idle" /\ \E o \in Orders : NextOrder(o)
  /\ Sized(requested, ref, exposure) > 0
  /\ pc' = [pc EXCEPT ![r] = "allotted"]
  /\ mem' = [mem EXCEPT ![r] =
               [Nothing EXCEPT !.allotted = Sized(requested, ref, exposure),
                               !.ref = ref]]
  /\ UNCHANGED <<rowVars, crossed, lost>>

(* What the throttle leaves of the quantity is ordered, and a lifecycle    *)
(* run made; the account is read again.                                    *)
Supervise(r, o, q) ==
  /\ pc[r] = "allotted" /\ NextOrder(o) /\ q <= mem[r].allotted
  /\ Load(r, [order EXCEPT ![o] = NewOrder("BUY", q)], ToRun(TRUE) \cup {o}, {o})

(* The proposal is queued for a decision, or blocked.                      *)
PassOver(r) ==
  /\ pc[r] = "allotted"
  /\ pc' = [pc EXCEPT ![r] = "idle"] /\ mem' = [mem EXCEPT ![r] = Nothing]
  /\ UNCHANGED <<rowVars, crossed, lost>>

(* simulate_fill counts the attempt first; the policy may end the order.   *)
Waited(row) == [row EXCEPT !.wait_cycles = @ + 1]

(* Mutant: cancelled at the last attempt it may have, and at no later one. *)
CancelsAt(o, row) == Policy[o].cancel_after > 0 /\ row.wait_cycles = Policy[o].cancel_after

Cancels(o, row) == Policy[o].cancel_after > 0 /\ row.wait_cycles >= Policy[o].cancel_after

(* Mutant: only the date counts.                                           *)
ExpiresIfDue(o, row) == o \in due

Expires(o, row) == o \in due \/ row.wait_cycles > Policy[o].max_wait

(* Mutant: the order counts as filled by its first fill.                   *)
RestOfFirst(row, q) == [row EXCEPT !.remaining = @ - q, !.status = "FILLED"]

Rest(row, q) ==
  [row EXCEPT !.remaining = @ - q,
              !.status = IF q = row.remaining THEN "FILLED" ELSE "PARTIALLY_FILLED"]

Tried(r) ==
  {o \in mem[r].loaded : ~Cancels(o, Waited(mem[r].list[o])) /\ ~Expires(o, Waited(mem[r].list[o]))}

(* The row of order o as the run saves it, after a fill of q.              *)
Saved(r, o, q) ==
  LET row == Waited(mem[r].list[o]) IN
  CASE Cancels(o, row) -> [row EXCEPT !.status = "CANCELLED"]
    [] ~Cancels(o, row) /\ Expires(o, row) -> [row EXCEPT !.status = "EXPIRED"]
    [] o \in Tried(r) /\ q > 0 -> Rest(row, q)
    [] OTHER -> row

(* Mutant: the fill is a part of what was asked for, not of what is left.  *)
FillingsOfRequested(r) ==
  LET most == [o \in Orders |-> IF o \in Tried(r) THEN mem[r].list[o].requested ELSE 0]
  IN {fill \in [Orders -> 0..MaxQuantity] : \A o \in Orders : fill[o] <= most[o]}

(* The market's liquidity and spread decide how much of an order is filled *)
(* in this run: all of it, a part, or nothing.                             *)
Fillings(r) ==
  LET most == [o \in Orders |-> IF o \in Tried(r) THEN mem[r].list[o].remaining ELSE 0]
  IN {fill \in [Orders -> 0..MaxQuantity] : \A o \in Orders : fill[o] <= most[o]}
Fills(fill) == {o \in Orders : fill[o] > 0}

Signed(r, o, q) == IF mem[r].list[o].side = "BUY" THEN q ELSE -q
Gained(r, fill, S) == SumFunctionOnSet([o \in Orders |-> Signed(r, o, fill[o])], S)

(* The price of each fill is the market's, with slippage, and has nothing  *)
(* to do with the one the order was sized at.                              *)
Cost(r, fill, price, o) == Signed(r, o, Amount(fill[o], price[o]))
Spent(r, fill, price) ==
  SumFunctionOnSet([o \in Fills(fill) |-> Cost(r, fill, price, o)], Fills(fill))

(* execute_paper_trade: the cash is that of the order's account object,    *)
(* the position is the row, with what the run has traded by then.          *)
Executable(r, fill, price, o) ==
  IF mem[r].list[o].side = "BUY" THEN mem[r].cash >= Cost(r, fill, price, o)
  ELSE held + Gained(r, fill, {p \in Fills(fill) : p < o}) >= fill[o]

(* Mutant: proceeds are booked like costs.                                 *)
CashAfterUnsigned(r, fill, price) ==
  IF Fills(fill) = {} THEN cash
  ELSE LET last == Max(Fills(fill)) IN mem[r].cash - Amount(fill[last], price[last])

(* The cash as the last trade saved it: its own object's, less its cost.   *)
CashAfter(r, fill, price) ==
  IF Fills(fill) = {} THEN cash
  ELSE mem[r].cash - Cost(r, fill, price, Max(Fills(fill)))

(* What the other runs have loaded is out of date.                         *)
Overtake(r, fill) ==
  LET traded == Fills(fill) # {} IN
  [q \in Runs |->
    IF q = r THEN Nothing
    ELSE CASE pc[q] = "idle"     -> mem[q]
           [] pc[q] = "allotted" -> [mem[q] EXCEPT !.outdated = @ \/ traded]
           [] pc[q] = "loaded"   ->
                [mem[q] EXCEPT !.stale = @ \cup mem[r].loaded,
                               !.behind = @ \/ traded, !.outdated = @ \/ traded]]

(* The run has worked through its orders: what it commits.                 *)
Booked(r, fill, price) ==
  /\ \A o \in Fills(fill) : Executable(r, fill, price, o)
  /\ order' = [o \in Orders |-> IF o \in mem[r].loaded THEN Saved(r, o, fill[o]) ELSE order[o]]
  /\ filled' = [o \in Orders |-> filled[o] + fill[o]]
  /\ held' = held + Gained(r, fill, Fills(fill))
  /\ flow' = flow - Spent(r, fill, price)
  /\ cash' = CashAfter(r, fill, price)
  /\ crossed' = crossed \cup (mem[r].stale \cap mem[r].loaded)
  /\ lost' = (lost \/ Cardinality(Fills(fill)) > 1 \/ (mem[r].behind /\ Fills(fill) # {}))
  /\ mem' = Overtake(r, fill)
  /\ UNCHANGED due

(* A trade is refused, for cash or for the position, or the transaction    *)
(* ends otherwise: nothing the run did remains, not even its attempts.     *)
RollBack(r) ==
  /\ pc[r] # "idle"
  /\ pc' = [pc EXCEPT ![r] = "idle"] /\ mem' = [mem EXCEPT ![r] = Nothing]
  /\ UNCHANGED <<rowVars, crossed, lost>>

CommitRun(r) ==
  /\ pc[r] = "loaded" /\ pc' = [pc EXCEPT ![r] = "idle"]
  /\ \E fill \in Fillings(r) : \E price \in [Fills(fill) -> Prices] : Booked(r, fill, price)
Ordered(r) == \E o \in Orders, q \in 1..MaxQuantity : Supervise(r, o, q)
Ends(r) == RollBack(r) \/ PassOver(r) \/ CommitRun(r)

Next ==
  \/ \E r \in Runs : BeginRun(r, TRUE) \/ Ends(r)
  \/ \E r \in Reviews : BeginRun(r, FALSE)
  \/ \E o \in Orders : TimePasses(o) \/ \E side \in {"BUY", "SELL"} : CreateOrder(o, side)
  \/ \E r \in Supervised :
       \/ \E q \in 1..MaxQuantity, ref \in Prices \ {0}, exposure \in Exposures :
            Allocate(r, q, ref, exposure)
       \/ Ordered(r)

Spec == Init /\ [][Next]_vars

(* Runs are made again and again, by the mission control loop, that of the *)
(* supervisor's cycle once it is on its way; none stays where it is for    *)
(* good.                                                                   *)
FairSpec ==
  /\ Spec
  /\ \A r \in Runs : WF_vars(BeginRun(r, TRUE)) /\ WF_vars(Ends(r) \/ Ordered(r))

-------------------------------------------------------------------------------
(* Type invariant.                                                         *)
TypeOK ==
  /\ order \in [Orders -> PaperOrder] /\ filled \in [Orders -> Nat]
  /\ due \subseteq Orders /\ cash \in Int /\ held \in Int /\ flow \in Int
  /\ pc \in [Runs -> {"idle", "allotted", "loaded"}] /\ mem \in [Runs -> Memory]
  /\ crossed \subseteq Orders /\ lost \in BOOLEAN

(* Over partial fills, runs that fail and orders looked at again when they *)
(* are closed, an order's fills and the rest add up to what was asked for, *)
(* and its status says which of them there is, unless a run saved it that  *)
(* had loaded it before another run did.                                   *)
FillsAddUp ==
  \A o \in Orders \ crossed :
    LET row == order[o] IN
    /\ row.remaining + filled[o] = row.requested
    /\ row.status = "FILLED" => row.remaining = 0
    /\ row.status = "OPEN" => filled[o] = 0 /\ row.remaining > 0
    /\ row.status = "PARTIALLY_FILLED" => filled[o] > 0 /\ row.remaining > 0

(* The cash is what the trades leave of it only while each run makes one   *)
(* trade at most: a run's second trade starts from an account object       *)
(* loaded before the first one, and so does one of a run overtaken.        *)
CashExactUnlessLost == ~lost => cash = InitialCash + flow

(* An order that was cancelled, expired or filled is neither filled nor    *)
(* opened again, although a run over all orders looks at it once more.     *)
ClosedStaysClosed ==
  [][ \A o \in Orders :
        order[o].status \notin OpenStatuses \cup {"none"} /\ o \notin crossed' =>
          filled'[o] = filled[o] /\ order'[o].status \notin OpenStatuses ]_vars

(* A supervisor's order is sized at a reference price and filled at the    *)
(* market's.  Filled at once, in a run that fills nothing else and with no *)
(* trade since the allocation, it leaves the reserve in the account, but   *)
(* for what the fill costs above the reference price.                      *)
SupervisorKeepsReserve ==
  [][ \A r \in Runs, o \in Orders :
        /\ mem[r].own = {o} /\ filled'[o] > filled[o] /\ ~mem[r].outdated
        /\ \A p \in Orders \ {o} : filled'[p] = filled[p]
        => LET cost == flow - flow'
               sized == Amount(filled'[o] - filled[o], mem[r].ref)
           IN cash' >= ReserveCash - (cost - sized) ]_vars

(* Every order is filled, cancelled or expired in the end, unless runs     *)
(* fail again and again: a trade that is refused takes back the attempts   *)
(* of all orders of its run, so that not even its own order expires.       *)
OrdersSettle ==
  \/ \A o \in Orders : Open(o) ~> ~Open(o)
  \/ []<><<\E r \in Runs : RollBack(r)>>_vars
===============================================================================
