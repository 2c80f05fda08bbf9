---------------------------- MODULE EntryBudget -----------------------------
(***************************************************************************)
(* The two budgets a live entry must pass, and the entries that race for   *)
(* them.  CashGuard keeps a cash_budget_days row and one cash reservation  *)
(* per trade; RiskManager.reserve_sized_entry keeps one risk reservation   *)
(* per trade and counts the open rows of the trade book and today's        *)
(* realized loss beside them.  Entries of different symbols run in         *)
(* different workers of one process: every await is a place where another  *)
(* entry, the reconciliation pass or a crash comes in between, and only    *)
(* two asyncio locks order the steps.                                      *)
(*                                                                         *)
(* Each trade is one entry attempt of plan_entry and _reprice_live_entry:  *)
(* cash, intent row, sized risk, placement, registration, fill or death.   *)
(* What happens to one order in detail (partial fills, racing cancels,     *)
(* holds) is EntryLifecycle; here an order works, fills or dies.           *)
(***************************************************************************)
EXTENDS Integers, FiniteSets, Sums

CONSTANTS
    Own,            \* the entries attempted today
    Foreign,        \* positions of earlier days, without a cash reservation of today
    Cost,           \* Cost[t]: premium of the whole position
    Loss,           \* Loss[t]: what t loses when its planned stop fills
    Cluster,        \* Cluster[t]: its correlation cluster
    Settings,       \* the environments to start in: settled cash, cluster cap (0: none),
                    \* whether intents are stored, whether Rail A is on, what is still held,
                    \* and the bound on failed calls, positions missed and restarts together
    LossDivisor,    \* the daily loss budget is this fraction of the usable cash
    Reprices,       \* bound on the replacements of one trade's BUY
    NoDay,          \* there is no cash_budget_days row
    NoTrade         \* nobody: a lock that is free, a prefetch without a position

Trades == Own \cup Foreign

ASSUME BudgetAssumption ==
    /\ IsFiniteSet(Trades)
    /\ Own \cap Foreign = {}
    /\ NoTrade \notin Trades
    /\ Cost \in [Trades -> Nat] /\ Loss \in [Trades -> Nat]
    /\ \A t \in Trades : Loss[t] <= Cost[t]
    /\ LossDivisor \in Nat \ {0} /\ Reprices \in Nat
    /\ \A s \in Settings :
        /\ s.funds \in Nat /\ s.cap \in Nat /\ s.mishaps \in Nat /\ NoDay \notin 0..s.funds
        /\ s.intents \in BOOLEAN /\ s.railA \in BOOLEAN
        /\ s.held \subseteq Foreign

VARIABLES
    env,        \* the setting chosen at the start
    day,        \* usable_budget of the stored day row, or NoDay
    cash,       \* status of each trade's cash_budget_reservations row
    risk,       \* status of each trade's entry_risk_reservations row
    aged,       \* the trades whose risk reservation is past expires_at
    row,        \* the trade book: each trade's trade_sessions row
    order,      \* external: the BUY order at the broker, until its position is sold
    pnl,        \* today's realized result
    halted,     \* RiskManager._session_halted
    pc,         \* where the entry of each trade is
    usable,     \* the day row as reserve_entry holds it
    book,       \* the rows as reserve_sized_entry holds them
    counted,    \* the planned loss reserve_sized_entry has counted
    cashLock,   \* CashGuard._reservation_lock
    riskLock,   \* RiskManager._sized_entry_lock
    sync,       \* the pass in CashGuard.sync_positions, or the startup prefetch
    tries,      \* replacements of each trade's BUY
    mishaps,    \* failed calls, positions missed and restarts so far
    overlooked  \* history: trades that neither rows nor reservations stood for at some
                \* time: the reservation expired without a row, or the row was closed
                \* with no exit price

durable == <<env, day, cash, risk, aged, row, order, pnl>>
locals == <<usable, book, counted>>
locks == <<cashLock, riskLock>>
bounds == <<tries, mishaps, overlooked>>
vars == <<env, day, cash, risk, aged, row, order, pnl, halted, pc, usable, book,
          counted, cashLock, riskLock, sync, tries, mishaps, overlooked>>

-----------------------------------------------------------------------------
CashStatus == {"none", "reserved", "consumed", "released"}
RiskStatus == {"none", "reserved", "committed", "released", "expired"}
RowStatus == {"none", "pending", "bare", "open", "closed"}
OrderStatus == {"none", "working", "filled", "dead", "sold"}
Places == {"idle", "cash", "seed", "store", "totals", "reserve", "intent", "risk",
           "reservations", "limits", "approve", "place", "register", "working",
           "record", "commit", "held", "unwind", "unrisk", "clear", "refused",
           "sold", "lost"}

Max0(n) == IF n < 0 THEN 0 ELSE n

Active(t) == cash[t] \in {"reserved", "consumed"}

\* External: cashOnlyBuyingPower falls with every BUY that works or filled today; the
\* proceeds of a sale are unsettled.
BuyingPower == env.funds - Sum(Cost, {t \in Own : order[t] \in {"working", "filled", "sold"}})

\* halt_threshold of _compute_rail_a_status.
HaltBudget(funds) == funds \div LossDivisor

\* Tier one of Rail A, for a day row that exists.
Breached == env.railA /\ day # NoDay /\ pnl <= -HaltBudget(day)

Go(t, there) == pc' = [pc EXCEPT ![t] = there]
Fail == mishaps < env.mishaps /\ mishaps' = mishaps + 1

Init ==
    /\ env \in Settings
    /\ day = NoDay
    /\ cash = [t \in Trades |-> "none"]
    /\ risk = [t \in Trades |-> "none"]
    /\ aged = {}
    /\ row = [t \in Trades |-> IF t \in Own THEN "none" ELSE IF t \in env.held THEN "open" ELSE "closed"]
    /\ order = [t \in Trades |-> IF t \in Own THEN "none" ELSE IF t \in env.held THEN "filled" ELSE "sold"]
    /\ pnl = 0
    /\ halted = FALSE
    /\ pc = [t \in Trades |-> IF t \in Own THEN "idle" ELSE IF t \in env.held THEN "held" ELSE "sold"]
    /\ usable = [t \in Trades |-> 0]
    /\ book = [t \in Trades |-> [u \in Trades |-> "none"]]
    /\ counted = [t \in Trades |-> 0]
    /\ cashLock = NoTrade /\ riskLock = NoTrade
    /\ sync = [at |-> "prefetch", trade |-> NoTrade, usable |-> 0]
    /\ tries = [t \in Trades |-> 0]
    /\ mishaps = 0
    /\ overlooked = {}

-----------------------------------------------------------------------------
\* Planning an entry: allow_entry, then CashGuard.reserve_entry.

\* The startup prefetch ends before the bar loop begins.
Booting == sync.trade = NoTrade /\ sync.at # "idle"

\* allow_entry lets the signal through: no halt, and with Rail A a day row to compare with.
AllowEntry(t) ==
    /\ pc[t] = "idle" /\ ~Booting
    /\ halted' = (halted \/ Breached) /\ ~halted'
    /\ env.railA => day # NoDay
    /\ Go(t, "cash")
    /\ UNCHANGED <<durable, locals, locks, sync, bounds>>

\* Mutant of CashFree: the reservation lock is never waited for.
CashFree_Unlocked == TRUE

\* The lock is taken and the day row read.
CashFree == cashLock = NoTrade
ReadDay(t) ==
    /\ pc[t] = "cash" /\ CashFree
    /\ cashLock' = t
    /\ usable' = [usable EXCEPT ![t] = IF day = NoDay THEN 0 ELSE day]
    /\ Go(t, IF day = NoDay THEN "seed" ELSE "totals")
    /\ UNCHANGED <<durable, halted, book, counted, riskLock, sync, bounds>>

\* Mutant of FetchBudget: the margin buying power, twice the cash, is taken for the cash.
FetchBudget_Margin(t) ==
    /\ pc[t] = "seed"
    /\ usable' = [usable EXCEPT ![t] = 2 * Max0(BuyingPower)]
    /\ Go(t, "store")
    /\ UNCHANGED <<durable, halted, book, counted, locks, sync, bounds>>

\* The first entry of a day without a row asks the broker ...
FetchBudget(t) ==
    /\ pc[t] = "seed"
    /\ usable' = [usable EXCEPT ![t] = Max0(BuyingPower)]
    /\ Go(t, "store")
    /\ UNCHANGED <<durable, halted, book, counted, locks, sync, bounds>>

\* ... is refused when the broker does not answer ...
FetchFails(t) ==
    /\ pc[t] = "seed" /\ Fail
    /\ cashLock' = NoTrade
    /\ Go(t, "unrisk")
    /\ UNCHANGED <<durable, halted, locals, riskLock, sync, tries, overlooked>>

\* ... and stores the row.
StoreDay(t) ==
    /\ pc[t] = "store"
    /\ day' = usable[t]
    /\ Go(t, "totals")
    /\ UNCHANGED <<env, cash, risk, aged, row, order, pnl, halted, locals, locks, sync, bounds>>

\* What is left of the day row t holds: reserved and consumed cash is gone.
Remaining(t) == Max0(usable[t] - Sum(Cost, {u \in Trades : Active(u)}))

\* The totals decide: a refusal ends a first attempt, and in a reprice gives up the risk too.
ReadTotals(t) ==
    /\ pc[t] = "totals"
    /\ IF Cost[t] > Remaining(t)
       THEN cashLock' = NoTrade /\ Go(t, "unrisk")
       ELSE UNCHANGED cashLock /\ Go(t, "reserve")
    /\ UNCHANGED <<durable, halted, locals, riskLock, sync, bounds>>

WriteCash(t) ==
    /\ pc[t] = "reserve"
    /\ cash' = [cash EXCEPT ![t] = "reserved"]
    /\ cashLock' = NoTrade
    /\ usable' = [usable EXCEPT ![t] = 0]
    /\ Go(t, "intent")
    /\ UNCHANGED <<env, day, risk, aged, row, order, pnl, halted, book, counted, riskLock,
                   sync, bounds>>

\* The durable intent, which a planner without entry_intent_repository does not write before
\* the first order; a failed write gives everything back.
PersistIntent(t) ==
    /\ pc[t] = "intent"
    /\ \/ /\ row' = [row EXCEPT ![t] = IF env.intents \/ tries[t] > 0 THEN "pending" ELSE @]
          /\ Go(t, "risk")
          /\ UNCHANGED mishaps
       \/ Fail /\ Go(t, "unwind") /\ UNCHANGED row
    /\ UNCHANGED <<env, day, cash, risk, aged, order, pnl, halted, locals, locks, sync,
                   tries, overlooked>>

-----------------------------------------------------------------------------
\* RiskManager.reserve_sized_entry.

\* The lock is taken and the open trades read.
RiskFree == riskLock = NoTrade
ReadBook(t) ==
    /\ pc[t] = "risk" /\ RiskFree
    /\ riskLock' = t
    /\ book' = [book EXCEPT ![t] = row]
    /\ Go(t, "reservations")
    /\ UNCHANGED <<durable, halted, usable, counted, cashLock, sync, bounds>>

\* Mutant of PlannedLoss: a row without a stop has no planned loss to count.
PlannedLoss_StopOnly(t, status) == IF status = "open" THEN Loss[t] ELSE 0

\* A row without a stop counts its whole premium.
PlannedLoss(t, status) == IF status = "open" THEN Loss[t] ELSE Cost[t]

\* The query leaves out closed trades; the reader expires what is past its time.
ActiveReservations == {u \in Trades : risk[u] = "reserved" /\ row[u] # "closed"}
OtherReservations(t) == (ActiveReservations \ aged) \ {t}
OtherRows(t) == {u \in Trades \ (OtherReservations(t) \cup {t}) : book[t][u] \notin {"none", "closed"}}

CountedLoss(t) == Sum(Loss, OtherReservations(t))
                  + Sum([u \in Trades |-> PlannedLoss(u, book[t][u])], OtherRows(t))

\* The other reservations are read, expired ones marked, and the cluster cap tested.
ReadReservations(t) ==
    /\ pc[t] = "reservations"
    /\ LET expired == ActiveReservations \cap aged
           rivals == {u \in OtherReservations(t) \cup OtherRows(t) : Cluster[u] = Cluster[t]}
       IN /\ risk' = [u \in Trades |-> IF u \in expired THEN "expired" ELSE risk[u]]
          /\ aged' = aged \ expired
          /\ overlooked' = overlooked \cup
                {u \in expired : row[u] = "none" /\ order[u] \in {"working", "filled"}}
          /\ IF env.cap > 0 /\ Cardinality(rivals) >= env.cap
             THEN riskLock' = NoTrade /\ Go(t, "unwind") /\ UNCHANGED counted
             ELSE /\ UNCHANGED riskLock
                  /\ Go(t, "limits")
                  /\ counted' = [counted EXCEPT ![t] = CountedLoss(t)]
    /\ book' = [book EXCEPT ![t] = [u \in Trades |-> "none"]]
    /\ UNCHANGED <<env, day, cash, row, order, pnl, halted, usable, cashLock, sync, tries,
                   mishaps>>

\* Realized, open, reserved and proposed loss against the daily budget.
Headroom(t) ==
    \/ ~env.railA
    \/ /\ day # NoDay
       /\ Max0(-pnl) + counted[t] + Loss[t] <= HaltBudget(day)

\* Rail A is computed last, from the day row and today's realized result.
TestLimits(t) ==
    /\ pc[t] = "limits"
    /\ halted' = (halted \/ Breached)
    /\ IF halted' \/ ~Headroom(t)
       THEN riskLock' = NoTrade /\ Go(t, "unwind")
       ELSE UNCHANGED riskLock /\ Go(t, "approve")
    /\ counted' = [counted EXCEPT ![t] = 0]
    /\ UNCHANGED <<durable, usable, book, cashLock, sync, bounds>>

\* The reservation is written with a fresh expiry; the event written after it may fail, and
\* the caller then gives everything back.
WriteRisk(t) ==
    /\ pc[t] = "approve"
    /\ risk' = [risk EXCEPT ![t] = "reserved"]
    /\ aged' = aged \ {t}
    /\ riskLock' = NoTrade
    /\ \/ Go(t, "place") /\ UNCHANGED mishaps
       \/ Go(t, "unwind") /\ Fail
    /\ UNCHANGED <<env, day, cash, row, order, pnl, halted, locals, cashLock, sync, tries,
                   overlooked>>

-----------------------------------------------------------------------------
\* From the placement to the position.

\* The BUY is accepted, or its answer is lost and it may not be there at all.
Place(t) ==
    /\ pc[t] = "place"
    /\ \/ order' = [order EXCEPT ![t] = "working"] /\ UNCHANGED mishaps
       \/ UNCHANGED order /\ Fail
    /\ Go(t, "register")
    /\ UNCHANGED <<env, day, cash, risk, aged, row, pnl, halted, locals, locks, sync, tries,
                   overlooked>>

\* A guard or the broker refuses: the unsubmitted intent is cleared first.
PlaceRefused(t) ==
    /\ pc[t] = "place" /\ Fail
    /\ row' = [row EXCEPT ![t] = IF @ = "none" THEN @ ELSE "closed"]
    /\ Go(t, "unwind")
    /\ UNCHANGED <<env, day, cash, risk, aged, order, pnl, halted, locals, locks, sync, tries,
                   overlooked>>

Register(t) ==
    /\ pc[t] = "register"
    /\ row' = [row EXCEPT ![t] = "pending"]
    /\ Go(t, "working")
    /\ UNCHANGED <<env, day, cash, risk, aged, order, pnl, halted, locals, locks, sync, bounds>>

\* External: a working BUY fills or dies.
BrokerResolves(t) ==
    /\ t \in Own /\ order[t] = "working"
    /\ \E result \in {"filled", "dead"} : order' = [order EXCEPT ![t] = result]
    /\ UNCHANGED <<env, day, cash, risk, aged, row, pnl, halted, pc, locals, locks, sync, bounds>>

\* finalize_entry: whatever the reservation's status, a fill has used the cash.
Consumed(t) == IF cash[t] = "none" THEN "none" ELSE "consumed"

\* The fill is seen: by the entry itself, or after a restart by the pass that reads its row.
FinalizeCash(t) ==
    /\ order[t] = "filled"
    /\ \/ pc[t] = "working"
       \/ pc[t] = "lost" /\ row[t] \notin {"none", "closed"}
    /\ cash' = [cash EXCEPT ![t] = Consumed(t)]
    /\ Go(t, "record")
    /\ UNCHANGED <<env, day, risk, aged, row, order, pnl, halted, locals, locks, sync, bounds>>

\* The open row, with or without a stop.
RecordOpen(t) ==
    /\ pc[t] = "record"
    /\ \E status \in {"bare", "open"} : row' = [row EXCEPT ![t] = status]
    /\ Go(t, "commit")
    /\ UNCHANGED <<env, day, cash, risk, aged, order, pnl, halted, locals, locks, sync, bounds>>

\* commit_sized_entry: from here on the row alone stands for the risk.
CommitRisk(t) ==
    /\ pc[t] = "commit" /\ RiskFree
    /\ risk' = [risk EXCEPT ![t] = IF @ = "none" THEN @ ELSE "committed"]
    /\ aged' = aged \ {t}
    /\ Go(t, "held")
    /\ UNCHANGED <<env, day, cash, row, order, pnl, halted, locals, locks, sync, bounds>>

\* The BUY died without a fill: the entry, or the pass after a restart, unwinds.
NoFill(t) ==
    /\ order[t] = "dead"
    /\ \/ pc[t] = "working"
       \/ pc[t] = "lost" /\ row[t] \notin {"none", "closed"}
    /\ Go(t, "unwind")
    /\ UNCHANGED <<durable, halted, locals, locks, sync, bounds>>

\* Or it is replaced: the cash is given back and asked for again, the risk is kept.
Reprice(t) ==
    /\ pc[t] = "working" /\ order[t] = "dead" /\ tries[t] < Reprices
    /\ cash' = [cash EXCEPT ![t] = "released"]
    /\ tries' = [tries EXCEPT ![t] = @ + 1]
    /\ Go(t, "cash")
    /\ UNCHANGED <<env, day, risk, aged, row, order, pnl, halted, locals, locks, sync, mishaps,
                   overlooked>>

\* Mutant of ReleaseCash: the cash is given back and the risk reservation forgotten.
ReleaseCash_KeepsRisk(t) ==
    /\ pc[t] = "unwind"
    /\ cash' = [cash EXCEPT ![t] = IF @ = "none" THEN @ ELSE "released"]
    /\ Go(t, "clear")
    /\ UNCHANGED <<env, day, risk, aged, row, order, pnl, halted, locals, locks, sync, bounds>>

\* release_entry, ...
ReleaseCash(t) ==
    /\ pc[t] = "unwind"
    /\ cash' = [cash EXCEPT ![t] = IF @ = "none" THEN @ ELSE "released"]
    /\ Go(t, "unrisk")
    /\ UNCHANGED <<env, day, risk, aged, row, order, pnl, halted, locals, locks, sync, bounds>>

\* ... release_sized_entry under its lock ...
ReleaseRisk(t) ==
    /\ pc[t] = "unrisk" /\ RiskFree
    /\ risk' = [risk EXCEPT ![t] = IF @ = "none" THEN @ ELSE "released"]
    /\ aged' = aged \ {t}
    /\ Go(t, "clear")
    /\ UNCHANGED <<env, day, cash, row, order, pnl, halted, locals, locks, sync, bounds>>

\* ... and the row is closed.
CloseRow(t) ==
    /\ pc[t] = "clear"
    /\ row' = [row EXCEPT ![t] = IF @ = "none" THEN @ ELSE "closed"]
    /\ Go(t, "refused")
    /\ UNCHANGED <<env, day, cash, risk, aged, order, pnl, halted, locals, locks, sync, bounds>>

-----------------------------------------------------------------------------
\* The rest of the session.

\* The sweep arms the stop of a bare position.
Protect(t) ==
    /\ pc[t] = "held" /\ row[t] = "bare" /\ order[t] = "filled"
    /\ row' = [row EXCEPT ![t] = "open"]
    /\ UNCHANGED <<env, day, cash, risk, aged, order, pnl, halted, pc, locals, locks, sync, bounds>>

\* External: the position is sold.
BrokerSells(t) ==
    /\ pc[t] = "held" /\ order[t] = "filled"
    /\ order' = [order EXCEPT ![t] = "sold"]
    /\ UNCHANGED <<env, day, cash, risk, aged, row, pnl, halted, pc, locals, locks, sync, bounds>>

\* The fill of the exit is read back and its price is written with the close of the row, or
\* by a later pass into the closed row: from here on _realized_live_pnl_today adds it up.
RecordExit(t) ==
    /\ pc[t] = "held" /\ order[t] = "sold"
    /\ \E result \in {1, -Loss[t]} : pnl' = pnl + result
    /\ row' = [row EXCEPT ![t] = "closed"]
    /\ Go(t, "sold")
    /\ UNCHANGED <<env, day, cash, risk, aged, order, halted, locals, locks, sync, bounds>>

\* sync_lifecycle misses the position in the snapshot and finds no filled exit order: the
\* row is closed without a price.  The position is sold and its fill not yet published, or
\* it is held and the snapshot stale.
Disappears(t) ==
    /\ pc[t] \in {"commit", "held"} /\ row[t] # "closed" /\ Fail
    /\ row' = [row EXCEPT ![t] = "closed"]
    /\ overlooked' = overlooked \cup {t}
    /\ UNCHANGED <<env, day, cash, risk, aged, order, pnl, halted, pc, locals, locks, sync,
                   tries>>

\* A later snapshot shows it again and the row is written anew.
Reappears(t) ==
    /\ pc[t] = "held" /\ row[t] = "closed"
    /\ \E status \in {"bare", "open"} : row' = [row EXCEPT ![t] = status]
    /\ UNCHANGED <<env, day, cash, risk, aged, order, pnl, halted, pc, locals, locks, sync, bounds>>

\* book_actions latches the halt on any bar.
BookActions ==
    /\ Breached /\ ~halted
    /\ halted' = TRUE
    /\ UNCHANGED <<durable, pc, locals, locks, sync, bounds>>

\* Thirty minutes pass over a reservation nobody is working on, and inside no consult.
Age(t) ==
    /\ riskLock = NoTrade
    /\ risk[t] = "reserved" /\ t \notin aged
    /\ pc[t] \in {"working", "lost", "held"}
    /\ aged' = aged \cup {t}
    /\ UNCHANGED <<env, day, cash, risk, row, order, pnl, halted, pc, locals, locks, sync, bounds>>

\* sync_positions finds a held position without a reservation, or the runtime starts and
\* prefetches: ensure_day reads the row, ...  (The code books on the trade date of the
\* position's entry_timestamp; here every position counts against today's row, which is
\* never the looser choice.  Its second loop, over pending rows without a reservation, is
\* left out.)
SyncPosition(t) ==
    /\ sync.at = "idle" /\ pc[t] = "held" /\ cash[t] = "none"
    /\ sync' = [sync EXCEPT !.at = IF day = NoDay THEN "fetch" ELSE "write", !.trade = t]
    /\ UNCHANGED <<durable, halted, pc, locals, locks, bounds>>

Prefetch ==
    /\ sync.at = "prefetch"
    /\ sync' = [sync EXCEPT !.at = IF day = NoDay THEN "boot" ELSE "idle"]
    /\ UNCHANGED <<durable, halted, pc, locals, locks, bounds>>

\* ... asks the broker, which may fail without failing the caller, ...
EnsureDay ==
    /\ sync.at \in {"fetch", "boot"}
    /\ \/ /\ sync' = [sync EXCEPT !.at = "store", !.usable = Max0(BuyingPower)]
          /\ UNCHANGED mishaps
       \/ /\ Fail
          /\ sync' = [sync EXCEPT !.at = IF sync.trade = NoTrade THEN "idle" ELSE "write"]
    /\ UNCHANGED <<durable, halted, pc, locals, locks, tries, overlooked>>

\* ... stores the row, over whatever another caller stored meanwhile, ...
EnsureStores ==
    /\ sync.at = "store"
    /\ day' = sync.usable
    /\ sync' = [sync EXCEPT !.at = IF sync.trade = NoTrade THEN "idle" ELSE "write", !.usable = 0]
    /\ UNCHANGED <<env, cash, risk, aged, row, order, pnl, halted, pc, locals, locks, bounds>>

\* ... and the position's cash is booked as consumed, whatever the budget says.
SyncWrites ==
    /\ sync.at = "write"
    /\ cash' = [cash EXCEPT ![sync.trade] = "consumed"]
    /\ sync' = [sync EXCEPT !.at = "idle", !.trade = NoTrade]
    /\ UNCHANGED <<env, day, risk, aged, row, order, pnl, halted, pc, locals, locks, bounds>>

\* The process dies and starts again: locks, latch and locals are gone, the tables stay.
Crash ==
    /\ Fail
    /\ halted' = FALSE
    /\ pc' = [t \in Trades |-> IF pc[t] \in {"idle", "held", "refused", "sold"} THEN pc[t]
                               ELSE IF pc[t] = "commit" THEN "held"
                               ELSE IF order[t] = "none" /\ cash[t] = "none" THEN "idle"
                               ELSE "lost"]
    /\ usable' = [t \in Trades |-> 0]
    /\ book' = [t \in Trades |-> [u \in Trades |-> "none"]]
    /\ counted' = [t \in Trades |-> 0]
    /\ cashLock' = NoTrade /\ riskLock' = NoTrade
    /\ sync' = [at |-> "prefetch", trade |-> NoTrade, usable |-> 0]
    /\ UNCHANGED <<durable, tries, overlooked>>

-----------------------------------------------------------------------------
\* The steps of the process itself: what an entry does once it has been let through.
Entry(t) ==
    \/ ReadDay(t) \/ FetchBudget(t) \/ FetchFails(t) \/ StoreDay(t) \/ ReadTotals(t)
    \/ WriteCash(t) \/ PersistIntent(t) \/ ReadBook(t) \/ ReadReservations(t)
    \/ TestLimits(t) \/ WriteRisk(t) \/ Place(t) \/ PlaceRefused(t) \/ Register(t)
    \/ FinalizeCash(t) \/ RecordOpen(t) \/ CommitRisk(t) \/ NoFill(t) \/ Reprice(t)
    \/ ReleaseCash(t) \/ ReleaseRisk(t) \/ CloseRow(t)

Next ==
    \/ \E t \in Trades : Entry(t) \/ AllowEntry(t) \/ BrokerResolves(t) \/ Protect(t)
                         \/ BrokerSells(t) \/ RecordExit(t) \/ Disappears(t) \/ Reappears(t)
                         \/ Age(t) \/ SyncPosition(t)
    \/ BookActions \/ Prefetch \/ EnsureDay \/ EnsureStores \/ SyncWrites \/ Crash

Spec == Init /\ [][Next]_vars

-----------------------------------------------------------------------------
\* Properties.

TypeOK ==
    /\ env \in Settings
    /\ day \in {NoDay} \cup 0..env.funds
    /\ cash \in [Trades -> CashStatus]
    /\ risk \in [Trades -> RiskStatus]
    /\ aged \subseteq {t \in Trades : risk[t] = "reserved"}
    /\ row \in [Trades -> RowStatus]
    /\ order \in [Trades -> OrderStatus]
    /\ pnl \in Int
    /\ halted \in BOOLEAN
    /\ pc \in [Trades -> Places]
    /\ usable \in [Trades -> 0..env.funds]
    /\ book \in [Trades -> [Trades -> RowStatus]]
    /\ counted \in [Trades -> Nat]
    /\ cashLock \in Own \cup {NoTrade} /\ riskLock \in Own \cup {NoTrade}
    /\ sync \in [at : {"prefetch", "boot", "idle", "fetch", "store", "write"},
                trade : Trades \cup {NoTrade}, usable : 0..env.funds]
    /\ tries \in [Trades -> 0..Reprices]
    /\ mishaps \in 0..env.mishaps
    /\ overlooked \subseteq Trades

\* The BUYs that can still lose money today.
Live == {t \in Trades : order[t] \in {"working", "filled"}}

Committed == {t \in Own : Active(t)}
Bought == {t \in Own : order[t] \in {"working", "filled", "sold"}}

Ledger == INSTANCE BudgetLedger WITH Trades <- Own, funds <- env.funds,
                                     committed <- Committed, bought <- Bought

\* reserve_entry, release_entry and finalize_entry keep the promise of BudgetLedger: however
\* entries, the pass and restarts interleave, no more cash is set aside than the day began
\* with, nothing is bought without it and none is given back under a BUY that can fill.
SettledCashOnly == Ledger!Spec

\* The trades whose loss is still to come into the day's result: a BUY that works, a
\* position that is held, a sale whose exit is not recorded yet.
AtRisk == {t \in Trades : t \in Live \/ (order[t] = "sold" /\ pc[t] # "sold")}

\* Realized loss plus the planned loss still to come exceeds the daily budget at most by the
\* planned loss of the trades that were overlooked: reserve_sized_entry never approves on a
\* view of the book in which a rival, a fill that is being recorded or a position that is
\* just being sold is counted nowhere.  Two windows of the code are excepted: a reservation
\* that expires without a row, which docs/prospective_entry_risk.md concedes, and a row that
\* sync_lifecycle closes with no exit price, for a sale or for a position still held, until
\* the price is found or the position is seen again.  Nor do the live BUYs of one correlation
\* cluster outgrow the cap, overlooked ones apart.
BookWithinLimits ==
    /\ env.railA => Max0(-pnl) + Sum(Loss, AtRisk)
                        <= HaltBudget(env.funds) + Sum(Loss, overlooked)
    /\ env.cap > 0 =>
        \A t \in Trades :
            Cardinality({u \in Live \ overlooked : Cluster[u] = Cluster[t]}) <= env.cap

\* An attempt that ended without a position keeps nothing: no cash, no risk, no open row,
\* also when the exception came after the reservation had been written.
RefusedKeepsNothing ==
    \A t \in Own : pc[t] = "refused" =>
        /\ cash[t] # "reserved" /\ risk[t] # "reserved"
        /\ row[t] \in {"none", "closed"}
        /\ t \notin Live

=============================================================================
