------------------------------ MODULE PaperTrading ------------------------------
(***************************************************************************)
(* One paper account under concurrent requests.  A trade                   *)
(* (execute_paper_trade) and a revaluation (revalue_account) are each one  *)
(* transaction on PostgreSQL at READ COMMITTED, and an action is a         *)
(* statement of one that can wait for a row lock, or the code between two  *)
(* such statements.  Only the position row is locked before it is read;    *)
(* the account object is whatever the caller loaded, often long before.    *)
(***************************************************************************)
EXTENDS PaperLedger, FiniteSets, Functions

CONSTANTS
  Workers,        \* requests and runs that trade or revalue at once
  Positions,      \* the (market, side) pairs
  InitialBalance, \* initial_balance
  Quantities,     \* quantities asked for
  Prices,         \* execution prices of trades
  Marks,          \* mark prices positions are valued at
  MaxTrades,      \* bound: trades after which no new one starts
  Free            \* no worker

ASSUME TradingAssumption ==
  /\ InitialBalance \in Nat /\ Quantities \subseteq Nat \ {0}
  /\ Prices \subseteq Nat /\ Marks \subseteq Nat /\ MaxTrades \in Nat
  /\ Free \notin Workers \cup Positions /\ IsFiniteSet(Positions)

VARIABLES
  account,   \* the PaperAccount row
  rows,      \* the PaperPosition rows; NewPosition while there is none
  known,     \* the positions that have a row
  lock,      \* the transaction that holds a position row
  acct,      \* the transaction that holds the account row
  pc, mem,   \* where each worker is and what it holds in memory
  book,      \* the PaperTrade rows, summed up
  lost       \* history: a trade was committed over somebody else's

vars == <<account, rows, known, lock, acct, pc, mem, book, lost>>

Account == [cash : Int, equity : Int, realized : Int]

(* net[p]: quantity bought less quantity sold; flow: what the trades       *)
(* brought in less what they cost.                                         *)
Book == [net : [Positions -> Int], flow : Int, count : Nat]

(* cash is the loaded account's; target, signed size and cash flow are     *)
(* those of the trade at hand; list is the loaded positions, todo those    *)
(* still to be revalued; stale: somebody's trade was committed since the   *)
(* account was loaded (history).                                           *)
Memory == [cash : Int, target : Positions \cup {Free}, size : Int, flow : Int,
           list : [Positions -> Position], todo : SUBSET Positions,
           stale : BOOLEAN]

Points == {"idle", "ready", "priced", "rows"}

Empty == [cash |-> 0, target |-> Free, size |-> 0, flow |-> 0,
          list |-> [p \in Positions |-> NewPosition], todo |-> {},
          stale |-> FALSE]

Init ==
  /\ account = [cash |-> InitialBalance, equity |-> InitialBalance,
                realized |-> 0]
  /\ rows = [p \in Positions |-> NewPosition]
  /\ known = {}
  /\ lock = [p \in Positions |-> Free] /\ acct = Free
  /\ pc = [w \in Workers |-> "idle"] /\ mem = [w \in Workers |-> Empty]
  /\ book = [net |-> [p \in Positions |-> 0], flow |-> 0, count |-> 0]
  /\ lost = FALSE

Trading(w) == mem[w].target # Free
Locked(w) == {p \in Positions : lock[p] = w}
Total(list, field) == SumFunction([p \in Positions |-> list[p][field]])

(* The end of a transaction: its row locks go.                             *)
Unlock(w) ==
  /\ lock' = [p \in Positions |-> IF lock[p] = w THEN Free ELSE lock[p]]
  /\ acct' = IF acct = w THEN Free ELSE acct

(* get_active_account, by a request or once for a whole run of trades.     *)
LoadAccount(w) ==
  /\ pc[w] = "idle"
  /\ pc' = [pc EXCEPT ![w] = "ready"]
  /\ mem' = [mem EXCEPT ![w] = [Empty EXCEPT !.cash = account.cash]]
  /\ UNCHANGED <<account, rows, known, lock, acct, book, lost>>

Release(w) ==
  /\ pc[w] = "ready"
  /\ pc' = [pc EXCEPT ![w] = "idle"]
  /\ mem' = [mem EXCEPT ![w] = Empty]
  /\ UNCHANGED <<account, rows, known, lock, acct, book, lost>>

(* Mutant: the position is read without select_for_update.                 *)
CanLockAlways(w, p) == pc[w] = "ready" \/ lock[p] \in {Free, w}

CanLock(w, p) == lock[p] \in {Free, w}

(* A trade up to position.save(): the position row is locked, and created  *)
(* when there is none; the tests on cash and quantity decide.  A rejected  *)
(* trade rolls back and leaves nothing but the caller's account object.    *)
Priced(w, p, row, size, flow) ==
  /\ pc[w] = "ready" /\ book.count < MaxTrades
  /\ CanLock(w, p)
  /\ lock' = [lock EXCEPT ![p] = w]
  /\ pc' = [pc EXCEPT ![w] = "priced"]
  /\ mem' = [mem EXCEPT ![w].cash = @ + flow, ![w].target = p,
                        ![w].size = size, ![w].flow = flow,
                        ![w].list = [mem[w].list EXCEPT ![p] = row]]
  /\ UNCHANGED <<account, rows, known, acct, book, lost>>

Affordable(w, cost) == mem[w].cash >= cost

Buy(w, p, q, price) ==
  /\ Affordable(w, Amount(q, price))
  /\ Priced(w, p, Bought(rows[p], q, price), q, -Amount(q, price))

(* Mutant: no test on the quantity.                                        *)
SellShort(w, p, q, price) ==
  Priced(w, p, Sold(rows[p], q, price), -q, Amount(q, price))

Sell(w, p, q, price) ==
  /\ rows[p].qty >= q
  /\ Priced(w, p, Sold(rows[p], q, price), -q, Amount(q, price))

(* Mutant: the account row is saved at the end, after the revaluation.     *)
SaveCashLater(w) ==
  LET p == mem[w].target IN
  /\ pc[w] = "priced"
  /\ pc' = [pc EXCEPT ![w] = "rows"]
  /\ mem' = [mem EXCEPT ![w].list = [rows EXCEPT ![p] = mem[w].list[p]],
                        ![w].todo = known \cup {p}]
  /\ UNCHANGED <<account, rows, known, lock, acct, book, lost>>

(* account.save(cash_balance) waits for the account row, then the trade    *)
(* revalues the account: it loads the positions, its own row as it just    *)
(* saved it.  Nobody commits in between: every commit needs the account.   *)
SaveCash(w) ==
  LET p == mem[w].target IN
  /\ pc[w] = "priced" /\ acct = Free
  /\ acct' = w
  /\ pc' = [pc EXCEPT ![w] = "rows"]
  /\ mem' = [mem EXCEPT ![w].list = [rows EXCEPT ![p] = mem[w].list[p]],
                        ![w].todo = known \cup {p}]
  /\ UNCHANGED <<account, rows, known, lock, book, lost>>

(* Mutant: the account row is locked before the positions.                 *)
BeginRevalueLocking(w) ==
  /\ pc[w] = "ready" /\ acct = Free
  /\ acct' = w
  /\ pc' = [pc EXCEPT ![w] = "rows"]
  /\ mem' = [mem EXCEPT ![w].list = rows, ![w].todo = known]
  /\ UNCHANGED <<account, rows, known, lock, book, lost>>

(* revalue_account as a request of its own: it starts with the positions.  *)
BeginRevalue(w) ==
  /\ pc[w] = "ready"
  /\ pc' = [pc EXCEPT ![w] = "rows"]
  /\ mem' = [mem EXCEPT ![w].list = rows, ![w].todo = known]
  /\ UNCHANGED <<account, rows, known, lock, acct, book, lost>>

(* One position of the loop in revalue_account: its row is saved, which    *)
(* waits for the row's lock, with values computed from the loaded list.    *)
(* The rows come in the order of -updated_at, which is any order here.     *)
RevalueRow(w, p, mark) ==
  /\ pc[w] = "rows" /\ p \in mem[w].todo
  /\ CanLock(w, p)
  /\ lock' = [lock EXCEPT ![p] = w]
  /\ mem' = [mem EXCEPT ![w].list[p] = Marked(@, mark), ![w].todo = @ \ {p}]
  /\ UNCHANGED <<account, rows, known, acct, pc, book, lost>>

(* A position whose market has no price keeps its valuation, unsaved.      *)
SkipRow(w, p) ==
  /\ pc[w] = "rows" /\ p \in mem[w].todo /\ p # mem[w].target
  /\ mem' = [mem EXCEPT ![w].todo = @ \ {p}]
  /\ UNCHANGED <<account, rows, known, lock, acct, pc, book, lost>>

(* What a revaluation saves of a row: the value and the status.            *)
Revalued(row, loaded) ==
  [row EXCEPT !.value = loaded.value, !.open = loaded.open]

Valued(cash, list) ==
  [cash     |-> cash,
   equity   |-> cash + Total(list, "value"),
   realized |-> Total(list, "realized")]

(* The trade saves account and PaperTrade, and commits.                    *)
CommitTrade(w) ==
  LET m == mem[w] IN
  /\ pc[w] = "rows" /\ m.todo = {} /\ Trading(w)
  /\ account' = Valued(m.cash, m.list)
  /\ rows' = [p \in Positions |->
                IF p = m.target THEN m.list[p]
                ELSE IF p \in Locked(w) THEN Revalued(rows[p], m.list[p])
                ELSE rows[p]]
  /\ known' = known \cup {m.target}
  /\ book' = [net   |-> [book.net EXCEPT ![m.target] = @ + m.size],
              flow  |-> book.flow + m.flow,
              count |-> book.count + 1]
  /\ lost' = (lost \/ m.stale)
  /\ pc' = [pc EXCEPT ![w] = "ready"]
  /\ mem' = [v \in Workers |->
               IF v = w THEN [Empty EXCEPT !.cash = m.cash, !.stale = m.stale]
               ELSE IF pc[v] = "idle" THEN mem[v]
               ELSE [mem[v] EXCEPT !.stale = TRUE]]
  /\ Unlock(w)

(* The revaluation saves the account row, except its cash, and commits.    *)
CommitRevalue(w) ==
  LET m == mem[w] IN
  /\ pc[w] = "rows" /\ m.todo = {} /\ ~Trading(w) /\ acct = Free
  /\ account' = [Valued(m.cash, m.list) EXCEPT !.cash = account.cash]
  /\ rows' = [p \in Positions |->
                IF p \in Locked(w) THEN Revalued(rows[p], m.list[p])
                ELSE rows[p]]
  /\ pc' = [pc EXCEPT ![w] = "idle"]
  /\ mem' = [mem EXCEPT ![w] = Empty]
  /\ Unlock(w)
  /\ UNCHANGED <<known, book, lost>>

(* The workers w waits for, at a statement that cannot proceed.            *)
Holders(w) ==
  CASE pc[w] = "priced" -> {acct} \ {Free}
    [] pc[w] = "rows" /\ mem[w].todo # {} ->
         IF \A p \in mem[w].todo : ~CanLock(w, p)
         THEN {lock[p] : p \in mem[w].todo} ELSE {}
    [] pc[w] = "rows" /\ mem[w].todo = {} /\ ~Trading(w) -> {acct} \ {Free}
    [] OTHER -> {}

(* PostgreSQL finds a circular wait and aborts one of the transactions.    *)
Deadlocked(w) ==
  \E S \in SUBSET Workers :
    w \in S /\ \A v \in S : Holders(v) # {} /\ Holders(v) \subseteq S

(* Mutant: the caller goes on with the object the aborted trade changed.   *)
AbortKeepingObject(w) ==
  /\ Deadlocked(w)
  /\ pc' = [pc EXCEPT ![w] = "ready"]
  /\ mem' = [mem EXCEPT ![w] = [Empty EXCEPT !.cash = mem[w].cash,
                                             !.stale = mem[w].stale]]
  /\ Unlock(w)
  /\ UNCHANGED <<account, rows, known, book, lost>>

AbortDeadlocked(w) ==
  /\ Deadlocked(w)
  /\ pc' = [pc EXCEPT ![w] = "idle"]
  /\ mem' = [mem EXCEPT ![w] = Empty]
  /\ Unlock(w)
  /\ UNCHANGED <<account, rows, known, book, lost>>

Step(w) ==
  \/ SaveCash(w) \/ CommitTrade(w) \/ CommitRevalue(w) \/ AbortDeadlocked(w)
  \/ \E p \in Positions : SkipRow(w, p) \/ \E x \in Marks : RevalueRow(w, p, x)

Next ==
  \E w \in Workers :
    \/ LoadAccount(w) \/ Release(w) \/ BeginRevalue(w) \/ Step(w)
    \/ \E p \in Positions, q \in Quantities, x \in Prices :
         Buy(w, p, q, x) \/ Sell(w, p, q, x)

Spec == Init /\ [][Next]_vars

-------------------------------------------------------------------------------
(* Type invariant.                                                         *)
LedgerTyped ==
  /\ account.cash \in Int /\ rows \in [Positions -> Position]
  /\ known \in SUBSET Positions
  /\ lock \in [Positions -> Workers \cup {Free}]
  /\ acct \in Workers \cup {Free}
  /\ pc \in [Workers -> Points] /\ mem \in [Workers -> Memory]
  /\ book \in Book /\ lost \in BOOLEAN

TypeOK == LedgerTyped /\ account \in Account

(* No trade on a position is lost and none is sold short, however requests *)
(* overlap and whatever revaluations save: a row's quantity is what its    *)
(* trades add up to.                                                       *)
QuantityIsTraded == \A p \in Positions : rows[p].qty = book.net[p]

(* Why: who is about to write a row holds its lock, and has in memory the  *)
(* quantity of the row and of its own trade.                               *)
LocksKept ==
  \A w \in Workers :
    /\ Trading(w) => /\ lock[mem[w].target] = w
                     /\ mem[w].list[mem[w].target].qty
                          = rows[mem[w].target].qty + mem[w].size
    /\ pc[w] \in {"idle", "ready"} => ~Trading(w)
    /\ pc[w] = "priced" => Trading(w)

(* The cash is exact as long as no trade used an account object loaded     *)
(* before somebody else's trade was committed: a rejected or aborted trade *)
(* leaves no trace, a run of trades on one object counts each once.        *)
CashExactUnlessStale == ~lost => account.cash = InitialBalance + book.flow

(* Why: an object nobody has overtaken holds the cash of the row and the   *)
(* trade at hand, and no object ever holds a debt.                         *)
CashInMemory ==
  \A w \in Workers :
    /\ pc[w] # "idle" /\ ~mem[w].stale =>
         mem[w].cash = account.cash + mem[w].flow
    /\ mem[w].cash >= 0
    /\ pc[w] \in {"idle", "ready"} => mem[w].flow = 0

(* The cash column never shows a debt, not even when it is wrong.          *)
NoDebt == account.cash >= 0

(* A trade leaves equity and realized profit that agree with the rows it   *)
(* leaves, although others hold rows and wait to write them: who waits for *)
(* the account row cannot have committed what this trade did not read.     *)
TradeClosesBooks ==
  [][ \A w \in Workers : CommitTrade(w) =>
        /\ account'.equity = account'.cash + Total(rows', "value")
        /\ account'.realized = Total(rows', "realized") ]_vars

(* Why: from its SaveCash on, a trade holds the account, so that nobody    *)
(* else commits, and the rows it does not hold are as it loaded them.      *)
BooksClosable ==
  \A w \in Workers :
    pc[w] = "rows" /\ Trading(w) =>
      /\ acct = w
      /\ \A p \in Positions \ {mem[w].target} :
           /\ mem[w].list[p].realized = rows[p].realized
           /\ lock[p] # w => mem[w].list[p] = rows[p]

(* Rounding: initial balance plus profit, realized and not, follows cash   *)
(* plus positions.  A trade moves the difference by at most half a price   *)
(* unit for each unit held (the average entry price is rounded) and a      *)
(* money unit and a half.                                                  *)
Drift == account.cash - InitialBalance
         + SumFunction([p \in Positions |-> CostBasis(rows[p]) - rows[p].realized])
Moved(x, y) == IF x < y THEN y - x ELSE x - y
DriftIsRounding ==
  [][ \A w \in Workers : CommitTrade(w) /\ ~lost' =>
        2 * Scale * Moved(Drift, Drift')
          <= rows'[mem[w].target].qty + 3 * Scale ]_vars

(* While trades and revaluations touch a single position they never wait  *)
(* in a circle; it takes two positions, each locked by a transaction that  *)
(* will revalue the other.                                                 *)
DeadlockNeedsTwoPositions ==
  \A w \in Workers : Deadlocked(w) => Cardinality({p \in Positions : lock[p] # Free}) > 1

(* README, "keep account-level cash, equity, and PnL values consistent":   *)
(* the cash is the initial balance and the trades.                         *)
CashIsLedger == account.cash = InitialBalance + book.flow
===============================================================================
