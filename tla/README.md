# TLA+ verification of bhiksha's live execution core

Bhiksha is an options-trading runtime: it reads market bars, decides entries and
exits, and drives one broker (Public.com) over HTTP while SQLite remembers what it
did. What can hurt is not the arithmetic but the protocol: orders whose answer never
arrives, cancels that lose to fills, a process that dies between the broker's yes
and SQLite's commit, two coroutines that read before an `await` and write after it.
This directory models that protocol from the source, checks it with TLC on small
instances and proves the parts that hold for every size with TLAPS.

All paths below are relative to `src/src/bhiksha/` unless they start with `docs/` or
`README.md` (the repository's own).

## 1. Inventory

| Component | State | Operations | Talks to |
|---|---|---|---|
| `app/execution_dispatcher.py` | per symbol: FIFO queue, pending keys, identities, worker task | `start`, `stop`, `submit`, worker loop | bar handler and sweeps submit, the supervisor's handlers run inside |
| `persistence/exit_state.py` | `trade_exit_runtime_state` row, `exit_action_intents`, rollback latch | `transition_runtime_state`, `prepare`/`bind`/`update_handoff`/`resolve` intent | every profile exit coroutine |
| `execution/supervisor.py`, profile exits | `_durable_exit_states`, `_symbol_locks`, degraded trades | hydrate, reconcile open intents, peak tracking, ratchet, partial scale, breakeven, degrade | exit state repository, order manager, tracker |
| `execution/supervisor.py`, stop handoff and protection | the tracker's stop id and price | ratchet handoff, recovery by stage, restore missing protection, prepare forced flat | broker, exit state repository, tracker |
| `execution/supervisor.py`, pending exits | tracker's exit order, mode, reprice count | submit exit, poll, reprice, market fallback, finalise | broker, tracker, `trade_sessions`, `trade_partial_fills` |
| `execution/order_manager.py`, `execution/brokers/` | none | submit, cancel with readback, status, portfolio | broker over HTTP |
| `state/reconciliation.py`, `app/runtime.py` refresh | snapshot in flight | fetch portfolio, read trades, rebuild positions, merge, `sync_lifecycle` | broker, SQLite, tracker |
| `state/position_tracker.py`, `state/lifecycle.py` | positions, counters, lifecycle states | open, close, replace, mark | everyone |
| entry path (`planner.py`, `supervisor.py`, `entry_retry.py`) | reservations, pending entries | plan, submit, wait, reprice, cancel, protect | risk manager, cash guard, broker |
| `risk/risk_manager.py`, `risk/cash_guard.py` | daily budget and reservations, loss headroom | check, reserve, release, finalise, sync | planner, supervisor, SQLite |
| `execution/profile_exit.py`, `thesis_exit.py` | `ProfileExitState` | pure decision functions | supervisor |
| `active_plan/` | active plan files | compile, activate, roll back | runtime start |
| strategies, market data, packets, experiments, reports, tools | none that orders depend on | computation, evidence, I/O | not modelled |

What is hard here:

* **Concurrency.** One asyncio loop. Per-symbol workers serialise handlers, symbol
  locks serialise management, but reconciliation, lifecycle sync and the forced flats
  take no symbol lock, so any `await` of theirs can fall between two `await`s of a
  handler.
* **Unreliable broker.** A POST can be refused, or accepted with its answer lost; a
  DELETE is asynchronous; a status read can fail, lag (404) or omit
  `filledQuantity`; fills race everything.
* **Crash and restart.** SQLite and the broker survive, the tracker and every local
  do not; recovery continues from the durable stage of an intent.
* **Timeouts and retries.** Pending exits are polled and repriced, a hard flat falls
  back to MARKET after ten seconds, ambiguous handoffs are read again for ever.

What makes each part correct: the dispatcher runs every accepted task once, in order,
and never two of one key; the durable row never goes back and memory is never ahead
of it; a trade has at most one open intent, and what the intent is resolved to is
true; the account never has more contracts for sale than it holds; a working SELL is
always known to the tracker; a closed trade accounts for every fill; a position
without protection gets it back; an exit gets flat.

`PROJECT.json` lists every component with its status and every hazard at the line
where it bites.

## 2. Modules

| Module | Models | Checked by |
|---|---|---|
| `Dispatcher` | `SymbolExecutionDispatcher` | `dispatcher`, under `Session` |
| `Session` | the runtime over its dispatcher: bar handler, intrabar loop, runners, daily-loss rail, operator halt, reconciliation, shutdown | `dispatcher` |
| `Session_proof` | theorems about both | TLAPS |
| `ExitStateStore` | the accept/refuse rules and effects of `SQLiteExitStateRepository` (operators, no state) | used by `DurableExitState`, `StopRatchet` and `PartialScale` |
| `DurableExitState` | the coroutines that read and write the durable exit state of one trade | `durable` |
| `DurableExitState_proof` | theorems about it | TLAPS |
| `PendingExit` | a submitted exit until the broker-proved fill, with reconciliation | `pending`, `pending_unusual`, one violation |
| `PendingExit_proof` | theorems about it | TLAPS |
| `StopRatchet` | a protective-stop ratchet at the broker, its recovery, missing protection, the forced flat's takeover | `ratchet`, one violation |
| `StopRatchet_proof` | theorems about it | TLAPS |
| `PartialScale` | the target-1 partial and the breakeven stop at the broker, their recovery and quarantine, the residual's protection | `partial`, one violation |
| `PartialScale_proof` | theorems about it: types, the books, the ladder, selling | TLAPS |
| `EntryLifecycle` | one deployment's live entries, from the lifecycle gate to the first stop, with reconciliation and restarts | `entry`, one violation |
| `EntryLifecycle_proof` | theorems about it: types, buying and the lane; then the records beside it | TLAPS |
| `EntryBudget` | the cash guard and the sized-entry consult of the risk manager, and the entries that race for them | `budget` |
| `EntryBudget_proof` | theorems about it, the refinement of `BudgetLedger` included | TLAPS |
| `BudgetLedger` | abstract: what the cash guard promises | implemented by `EntryBudget` |
| `Sums`, `Sums_proof` | the sum of a function over a finite set, and what the proofs need to know of it | used by `PendingExit`, `EntryBudget`, `BudgetLedger`, `PartialScale` |
| `MC*` | constants for TLC | |

`ExitStateStore` is the seam: `DurableExitState` composes it with interleaved
coroutines and leaves the broker abstract (`fate`), `StopRatchet` and `PartialScale`
compose its statuses with a detailed broker and one serial handler, `PendingExit`
starts where `StopRatchet` ends (the close order is placed). `EntryLifecycle` ends
where they begin (the position is open and under its first stop); `EntryBudget` looks
at the same entries across symbols, with the order reduced to working, filled or dead.
`Session` extends `Dispatcher` with what is queued and what the runners do when their
turn comes; the life of each order, which the other modules have in detail, is there
reduced to placed and filled.

### Dispatcher
`queue[s]`, `running[s]`, `workers`, `exited` are `_queues`, the awaited runner,
`_workers` and the returned ones; `pendingKeys` and `identity` the two bookkeeping maps.
`Start`, `Stop`, `SubmitAccepted`, `WorkerTakes`, `WorkerExits`, `WorkerFinishes`
are the methods; a refused `submit` changes nothing. The loop is single threaded,
so code between awaits is one step.

### Session
`at[s]` is the await of `_handle_bar_event` for symbol `s` and `view[s]` its
`tracker_positions`; `known` is the snapshot of the last reconciliation, `pos` the
tracker, `carried` the position a queued manage or exit closes over, `step` where the
running runner is. A bar is split at its awaits: controls and book actions, the read
of the snapshot, then one submission after another, each of which may coalesce; an
exception ends it anywhere. Signals, exit decisions and the hard-flat clock are free
choices. Realised loss has three grades and is chosen anew whenever the rail looks at it
(trades of every symbol move it, either way); `halted` and `flatten` are the two
latches, `halt` the operator's flag, reloaded by every bar.
The forced flats read the tracker; exit and manage do not, and `stale` remembers where
that made a difference. Each symbol has one deployment and one contract. Left out: the
quote tasks of the exit-edge lab, the protection's own life, which is StopRatchet's,
and profile exits inside manage, which are DurableExitState's.

### ExitStateStore and DurableExitState
Each write of the repository runs under SQLite's write lock: one operation, one
step. The row keeps the executable columns (peak, floor, committed stop, banked
quantity, breakeven mark, status, version); premiums and prices are levels, ordered
like the floats they stand for. `copy` is `_durable_exit_states[trade]`, `local[c]`
the `durable` local a coroutine carries across awaits, `pc[c]` the await it is at.
Managers hold the symbol lock; Syncers (`_enrich_pending_partial_fills`) do not.
`Crash` wipes memory between any two steps. The broker is reduced to what the readbacks
tell apart: `fate` and `sold` of the order under an intent's key, which sells any quantity
up to `MaxQuantity` before it is filled or dead, and `otherSold`, the ratchets whose prior
or restored stop sold. A ratchet is resolved as confirmed when its replacement works and
the row has been advanced, or, with the row left alone, when any stop of its handoff sold
(`ConfirmedBySale`). Nothing in the handlers keeps a second partial from being asked for,
so the model does not either.

### PendingExit
`orders` and `held` are the broker, `pos` the tracker entry, `trade` the
`trade_sessions` row, `legs`/`booked` the partial-fill rows, `look` the position the
coroutine captured, `job` the close it is about to send, `snap` a reconciliation
pass in flight (portfolio first, trades read second, merge last). One poll of
`_manage_pending_exit_locked` is split at its awaits; the two guard ladders and the
residual quantity are operators. `Unusual` switches on four events separately
(market fallback, lost answer, unparseable fill, stale snapshot) because each of
them alone breaks `NeverOversold`.

### StopRatchet
`at` is the await the one handler is at, `rec` whether it runs the recovery twin,
`who` whether manager or flat. The handoff: prepare intent, DELETE the prior stop,
read it back, submit the replacement under the intent key, classify it as working,
filled, dead with zero fill or ambiguous, and commit, close, restore, or leave it
unproved. Live and recovered handoffs share the steps and differ exactly where the
code does: live resolves before it persists the position, forgets the stop and
latches the deployment when unproved; recovery reads the prior stop first, adopts
before it resolves, and does not latch. The canary requires quantity 1, so an order
is filled or it is not. A reconciliation pass is one step here.

### PartialScale
`orders` and `held` are the broker; `pos` the tracker entry; `intents`, `row` and `legs`
the durable action intents, the trade's runtime state (banked contracts, breakeven mark,
committed stop) and its partial-fill rows; `ladder` the `ProfileExitState` in
`_profile_exit_states`, absent after a restart. The manager runs under the symbol lock:
`at` is the await it is at, `mode` whether it hydrates, retains degraded protection or
acts live, `upd` its updated position, `prior` the stop price it would restore. One pass
is: look at the open intent and ask the broker for its order (`LookupPartial`,
`LookupBreakeven`, `LookupFails`), bank and confirm what is proved, settle; a degraded
trade keeps or restores its protection (`Retain`, `Defer`, `Restore`), a validated one
gets missing protection (`FindsProtection`, `FindsNone`, `Arm`) and evaluates the ladder
(`Hold`, `Target1`, `StopToBreakeven`). An action then prepares its intent, cancels the
stop and reads it back, posts, binds, reads back, quarantines what still works, records
the leg and protects the residual. Whether the premium reaches target 1 is a free
choice; the live gate is open and nothing runs dry. A reconciliation pass is one step;
orders of the same account that bhiksha did not place are left out.

### EntryLifecycle
`pc` is the await the entry coroutine is at (`plan_entry`, `handle_signal`,
`_protect_live_entry`, `_reprice_live_entry`, serialised by `_entry_lock`), `plan` its
trade plan; `rpc`, `snap`, `kept`, `todo` the reconciliation pass, which takes no lock
and is split where it awaits: portfolio, merge, status of the holds, upserts, sweep.
`row` is the trade's `trade_sessions` row (`hold` stands for
`pending_entry_reconcile` and for the durable intent, which the code writes with the
same status), `cash` and `risk` its reservations, `life` the deployment's state in
`TradeLifecycleStore`, `tracker` the position. An order is submitted with a quantity,
fills contract by contract and dies with what it has bought. A trade has two orders:
`_entry_reprice_checkpoints` allows one replacement. Three steps are coarser than the
code: reading a held row with its order's status, one sweep of one position, and a
refusal with everything it unwinds. `SlowPass` says whether a pass that read its
records before a placement may still be writing when the wait for the fill ends.

### EntryBudget and BudgetLedger
`day`, `cash`, `risk`, `row` are the tables, `cashLock` and `riskLock` the two asyncio
locks, `usable`, `book`, `counted` what an entry carries across the awaits inside
them. Between the locks entries interleave freely with the lock-free writers:
`sync_positions`, the startup prefetch, sales, registrations, releases. `sync` writes
its row over whatever another caller stored meanwhile, as `ensure_day` does. A trade
restarted in the middle is `lost`: only what its row says is picked up again.
A sale, the close of its row and the day's result are three things: the broker sells
(`BrokerSells`), the fill is read back and recorded with its price (`RecordExit`), and in
between, or while the position is still held, a snapshot without the position lets
`sync_lifecycle` close the row with no price (`Disappears`), which
`_realized_live_pnl_today` skips until the price is found (`RecordExit`) or the position
is seen again (`Reappears`). `overlooked` remembers the trades for which this, or the
expiry of a reservation without a row, opened a window in which nothing stood for them.
Assumed: a position is sold at worst at its planned stop; thirty minutes do not pass
inside one consult; sales do not free settled cash on the same day; a replacement costs
what the first order did; an order is dead before its cash is released (how that is
proved is EntryLifecycle's subject). Left out: previews, synthetic reservations, Rail B
and the governor (both only keep `AllowEntry` from happening), the second loop of
`sync_positions` (pending rows without a reservation), and a snapshot so old that it
shows a position whose exit was already priced. Positions are booked on today's row, also
when their entry is of an earlier day.

`BudgetLedger` has three variables, `funds`, `committed` and `bought`; the mapping
takes for `committed` the trades with an active cash reservation and for `bought`
those with a working or filled BUY. `SettledCashOnly` is the refinement.

## 3. Runs

| Run | Expect | States | Shows |
|---|---|---|---|
| `dispatcher` | pass | 210,590 | a key is outstanding at most once; pending keys and identities match queued or running tasks; every task runs once, in order, also when the session ends; after the rail's flatten nothing is bought again; only a task with a stale position sells twice |
| `durable` | pass | 2,182,858 | memory never ahead of the table, one open intent, a confirmed stop is committed unless a stop of its handoff sold, the banked quantity is one partial's sale, the row never regresses, an outcome is final |
| `pending` | pass | 59,546 | never oversold, no forgotten working sell, closed trades account for every fill |
| `pending_unusual` | pass | 679,977 | with all unusual events an emergency exit still gets flat |
| `ratchet` | pass | 469,683 | never two competing sells, the committed stop was at the broker, resolved outcomes are true, protection comes back unless the handoff is unprovable |
| `partial` | pass | 705,591 | target 1 and breakeven never put more up for sale than is held, the row has banked what was sold, a leg is what its partial sold and only a fault inside the live handler loses one, a dead partial is forgotten by the ladder, protection comes back, actions resolve |
| `entry` | pass | 177,547 | the lane stays guarded, nothing is bought twice, released means unfilled, holds keep their quantity and resolve, what was bought ends up protected |
| `budget` | pass | 379,994 | `EntryBudget` implements `BudgetLedger`; loss budget and cluster cap are exceeded at most by the trades that were overlooked; a refused entry keeps nothing |
| `entry_restart` | violation | | a restart frees the lane of a working BUY |
| `pending_fallback` | violation | | the market fallback sells over a working limit order |
| `ratchet_wedge` | violation | | a refused replacement leaves the position bare for ever |
| `partial_twice` | violation | | after a crash target 1 is sold a second time |

**Bounds.** Dispatcher: one symbol, started flat or with a position, five
kinds of task, three of them: a hard flat, a manage and an exit of one bar, an entry
behind a flat and a flat behind an entry. Queues, locks and positions are per symbol;
another symbol shows only through the loss and the flags, and the loss moves freely.
Four tasks were explored once without the liveness property (1.04 million states) with
the same result. Durable: two managers (one waits for
the lock, one holds it), one syncer, two intents (prior and next), versions up to 4
(a stale version needs two), levels up to 2, orders that sell up to two contracts (so
that two partials differ and one can die half filled); managers and keys are only
compared, which makes their symmetry sound. Pending: two contracts (the smallest
partial fill), four order numbers (reused once nobody names them, so histories are
not bounded by them), three unusual moves; one contract short stops further
submissions, after the violation would have shown. Pending_unusual keeps one unusual
move and three live orders to fit liveness. Ratchet: two handoffs (a second one on
top of a committed first), three levels, two faults (for instance a dead replacement
and a lost restore, or a crash and a failed read) and four stop numbers outside
handoffs, reused when dead and unnamed: as many as lost answers can pin (one per
fault) and two more, so that a stop can always be armed. One handoff with three faults gives the same
result. Entry: one trade of two contracts (a partial fill) with its replacement, one
lost or refused request and one restart; two trades, with one contract each, in
`entry_restart`. An instance with two trades of two contracts that excludes the finding
was explored once (5.5 million states) with the same result. Budget: two racing entries,
an older position, one replacement and four settings: in three another budget is short
(loss, cash, cluster) and one thing goes wrong, in the fourth there is no cash and two
go wrong, so that a fetch can fail after the prefetch did. A position that a snapshot
misses counts as something that goes wrong. Partial: three contracts (a partial, a residual and a fill inside
each), an old stop below or above breakeven, two durable actions (a partial and its
successor), three stop numbers, reused when dead and unnamed (a fourth gives the same
states), and one fault. With two faults the safety properties were explored once
(8.6 million states) with the same result. Symmetry is used in `durable` only: liveness is checked in the other runs where it would help.

**Fairness.** Dispatcher: every worker and the runner it awaits get their next step;
broker and SQLite awaits time out. No bar, price, fill or shutdown has to come. PendingExit: the poll loop, restarts and reconciliation go on; MARKET
orders fill, accepted cancels take effect; LIMIT orders may rest for ever.
StopRatchet: a started handler goes on and the manager runs with every bar;
reconciliation goes on; a requested cancel takes effect or is overtaken by a fill.
PartialScale: the same, and nothing has to reach target 1.
EntryLifecycle: the coroutine's awaits return (every request has a timeout) and the
reconciliation loop goes on; no order has to fill or die, no signal has to come.
Nothing forces a forced flat to start, a stop to fill or a read to succeed; faults
are finite because the budget is.

**Deadlock checking** is off for the dispatcher (it stops) and for pending exits (a
closed trade is the end), `partial` (a flat account is) and `budget` (all attempts are over); it is on for `durable`,
`ratchet` and `entry`.

**Mutants.** Each property of a passing run has a mutated definition next to the
original (`<Name>_<Mistake>`) that breaks it: a guard dropped, an acknowledgement
trusted, a lookup skipped, a worker's mark kept.

## 4. Findings

* **Market fallback over a working limit order** (`supervisor.py:7444`,
  `pending_fallback`). Ten seconds into a repriced hard flat a MARKET order for the
  whole quantity is sent while the limit order still works; the ladder that guards
  every other resubmission is skipped.
* **A refused replacement stop wedges the position** (`supervisor.py:1035`,
  `ratchet_wedge`). No order has the intent's id, so every readback is ambiguous; the
  open intent defers missing protection and blocks hard flat and emergency flat.
  `README.md` says the stop "always rests at the broker regardless" and a crash costs
  "never an unprotected position".

* **A restart forgets the lane** (`supervisor.py:8007`, `entry_restart`). The block on
  a deployment whose BUY works or is uncertain lives in memory; after a restart the
  portfolio does not show an unfilled order, `sync_lifecycle` keeps the row but never
  marks the store, and the next signal buys again.
  `docs/entry_reconciliation_autonomy.md` says the deployment stays fail-closed and no
  duplicate entry will be placed.

* **Target 1 twice** (`supervisor.py:658`, `partial_twice`). The process dies while a
  partial is unproved. The first hydration after the restart is degraded and makes a
  fresh ladder; when the fill is proved and banked, that ladder is kept
  (`supervisor.py:681`) instead of being seeded from the row, and target 1 sells again
  from the residual. `_confirm_partial_action_intent` then banks
  `max(banked, filled)` (`supervisor.py:8305`), so a second partial of the same size is
  not counted. The docstring of `get_or_create_profile_exit_state` says banked partials
  persist.

Seen on the entry path, kept in the model or listed as hazards:

* a portfolio read before the fill drops the position and closes row and lane; the next
  pass brings it back (`HeldGetsProtected`), in between the lane is free;
* the emergency flat of an entry whose replacement was lost cancels the first order and
  closes the row that names the second;
* a hold on an intent that never reached the broker stays for ever, with its cash
  reserved for the day: fail-closed;
* a rival's intent row counts as an open position of its whole premium, so two entries,
  each of which would fit, can both be refused;
* with Rail A on and a failed startup prefetch `allow_entry` refuses every entry before
  the code that would create the day row, although the docstring of
  `prefetch_cash_budget_day` expects entries to recover;
* the governor's total position limit reads the tracker long before the entry registers
  in it; entries of two symbols can both pass;
* a queued exit task acts on the position it was queued with (`supervisor.py:4531`). On
  the bar of the cutoff the hard flat and an `eod` thesis exit are queued together: the
  second sells again and stores STRATEGY over HARD_FLAT. A manage task with a target to
  arm stores its position as open again the same way (`supervisor.py:3773`).
  `OneCloseUnlessStale` shows that, as far as queued tasks go, there is no other way to
  sell twice. The other ways are inside one handler and belong to the other modules: the
  market fallback and the lost answers of `PendingExit`, the armed stop with a lost
  answer of `StopRatchet`, the second partial of `PartialScale`;
* the operator's halt stops entries of bars, not of intrabar prices (`runtime.py:1567`),
  so a symbol can be bought and flattened again with every bar; the rail's latch stops
  both, because the runner consults it (`FlattenedStaysFlat`).

Seen on the partial path; the properties of `partial` name each as an exception:

* recovery fails a partial that died unfilled (`supervisor.py:866`) without the rollback
  the live path does ("Undo evaluator-only T1 mutation when no partial broker effect
  occurred"), so an evaluator that survived goes on believing target 1 was banked
  (`LadderBanked`);
* a crash between the proved cancel of the stop and the POST leaves an open intent whose
  order the broker does not know; the readback stays ambiguous and protection is
  deferred (`ProtectedAgain`), the partial's version of `ratchet_wedge`;
* a crash between confirming the intent and `record_partial_fill` loses the leg, not the
  banked contracts (`LegsAreSales` says that nothing else loses one);
* `seed_quantity - banked_quantity` does not know what a stop sold before it died half
  filled; the quantity is then unexplained and protection deferred, or, while the
  tracker is behind, a stop for more than is held is sent (`NeverOversold`);
* a breakeven stop below the committed stop is refused as a regression and its intent
  stays open (`IntentResolves`);
* after a restart `stop_at_breakeven` is seeded from the durable breakeven mark
  (`supervisor.py:685`), so a breakeven that was armed and not yet emitted is not
  emitted again.

Seen in pending exits, kept in the model:

* all submissions of one exit share `exit_submitted_at`, so a snapshot whose trades read
  preceded a reprice counts as new enough and reinstates the dead order
  (`runtime.py:2404`); the docstring there says it must not erase the pending exit;
* a hard flat whose cancel lands after its readback is resubmitted as a limit order
  without counting as a reprice, so the branch with the market fallback need not be
  reached (`supervisor.py:7343`); `docs/agent.md` promises a market close at the cutoff.

Seen on the ratchet path, not turned into runs: recovery never writes the rollback latch
although `docs/EXIT_ENGINE_V2_INCREMENT_2.md` says any unproved handoff does;
`cancel_order` takes a missing `filledQuantity` for zero where that document asks for
"explicit zero fill"; missing protection is armed at the entry's stop percentage even
below a committed ratchet (the model keeps all three behaviours).

`AtMostOneSell` excludes one case on purpose: a stop armed outside a handoff whose
answer was lost. Its uuid is not persisted, so if it fills, or if the portfolio
cannot be fetched, the next pass arms another one.

## 5. Proofs

Every theorem is proved for all values of the constants the modules' named `ASSUME`s
allow. The inductive invariants were checked by TLC on the instances of section 3
before they were proved.

**DurableExitState_proof**, for any number of managers, syncers, intents, hashes,
levels and versions:

* `TypeCorrect`: `Spec => []TypeOK`.
* `RowMonotone`: no step lowers a ratcheted field, and every write advances the
  version by one.
* `MemoryNeverAhead`: neither the shared copy nor a local is ahead of the row's version
  or above the row in a ratcheted field.
* `OneIntentAtATime`: at most one intent of the trade is open.
* `OutcomesAreFinal`: what an intent was resolved to stands.
* `ConfirmedStopsAreDurable` (`ConfirmedStopIsCommitted`): a confirmed stop move is in
  the row, or it is a ratchet of whose handoff some stop sold contracts.
* `PartialBankedOnce` (`BankedIsOneFill`): for any quantities the broker sells, the banked
  quantity is what one partial sold and covers every confirmed one.

`TypeOK` is not inductive: that a coroutine at a committing step has a row to commit
depends on how it got there. `IInv` adds `Positions`: who is past the start holds the
lock (managers), is at a step its kind can be at (syncers), and has the local and the
intent that step uses. `TypeStep` and `PositionsStep` go through the actions one by
one. `RowGrows` follows from the store's acceptance rule alone; `MemorySources` says
a remembered row after a step is one remembered before, or the row itself, so
`MemoryIsPast` follows from growth. `OneOpenIntent` needs one more fact,
`CleanMeansNone`: a manager that has looked and holds the lock still sees none open,
because only managers prepare and only the lock holder is past the look. The outcome
theorems need `InHand`: what a coroutine is about to resolve it has itself proved and
committed, and no other writer takes that back (`IntentMoves` lists the ways a step
may move an intent).

**Session_proof**, for any number of symbols, tasks, bars and trades:

* `SessionImplementsDispatcher`: `SessionSpec => Init /\ [][Next]_vars`; every step of
  the session is a method of the dispatcher or leaves it alone.
* `DispatcherTyped`, `TasksAccounted`: the dispatcher's type invariant and
  `TasksAccountedFor`, the conjunction of `KeyOutstandingOnce`,
  `PendingIffOutstanding` and `IdentityOnlyWhilePending`.
* `TasksRunInOrder`: `FifoExactlyOnce`, every accepted task once and in order.
* `SessionTyped`, `FlatStaysFlat`, `OneClose`: the session's type invariant,
  `FlattenedStaysFlat` and `OneCloseUnlessStale`.

The three parts of `TasksAccountedFor` need each other (a key is released when its task
finishes, so it must have been outstanding once) and `Unstarted`: a symbol without a
worker has nothing outstanding, so `start` may create its queue empty. `Orderly` is
the invariant of one symbol; a step of one symbol leaves the others' alone, and
`QueuedAppend` and `QueuedTail` say what a step does to the queue. `Serial` is
`FifoExactlyOnce` for one symbol: the number of a queued task is the number taken
plus its rank among what is queued; `TailCounts` says that taking the head lowers every
rank by one and that passing the sentinel, which `submit` may have queued behind, lowers
none.

The session's invariant `SInv` adds to the properties: `Numbered`, every remembered
position is of a trade there was; `Tracked`, what is held is in the tracker, and for
sale if exiting; `Latched`, `flatten` implies `halted` and no runner of a flattened
symbol is past `allow_entry`; `Closing`, a pending exit carries an open position, which
is where `PendingIffOutstanding` is used; `SoldOnce`, without a stale task tracker and
broker agree on what is for sale. `BarStep`, `RunStep`, `WorldStep` and `DispatchStep`
are the actions by what they touch.

**EntryLifecycle_proof**, for any number of trades, contracts, faults and restarts:
`TypeCorrect`; `EntryNeverOverbuys` (`NeverOverbought`); `LaneIsGuarded`
(`LaneGuarded`); `OneBuyUnlessForgotten`: while nothing has freed the lane of a live
BUY, at most one trade of the deployment has one. `IInv` is `TypeOK` with the broker's
`Ledger` (a trade's contracts are the fills of its two orders, and the replacement
stands only beside a first order that died unfilled), `Attempt` (where the coroutine is
in the life of those orders), `Identity` (what may fill is on record under a number)
and `Snapshot` (a portfolio is no newer than the account). The lane needs `NoFill`, an
entry about to be closed as unfilled is so, and `Lane`, who remembers the slot between
two awaits.

Its second half has `HoldsKeepQuantity` and `ReleasesAreSafe` (of the sized-risk
reservation) under `~SlowPass`: with a pass that outlasts the wait for a fill they are
false. `Moves` first reduces the actions to what they do to the records of
one trade; the invariant then follows the numbers: `Numbers`, `FirstOnly` and
`Recorded` say which of the two orders row and tracker may name and when, the three
`...Size` invariants carry the quantity from the plan through the pass to the row.

**StopRatchet_proof**, for any number of intents, stops, levels and faults:
`TypeCorrect`; `ResolutionsAreTrue` (`ResolvedOutcomeIsTrue`); `SellsNeverCompete`
(`AtMostOneSell`, which excepts the armed stop whose answer was lost). `Handler` ties
the await to the durable stage of the intent. `Truth` adds `Book`, what each stage says
of the replacement at the broker, and `Settled`, what is proved one step before it is
resolved. `Sole` has the broker's side (`Lone`: one live order, and the contract is
sold when it fills) and the program's (`Aware`: whichever record the next step goes by,
intent, tracker or local copy, names that order). This is the fact the whole handoff is
about: the tracker alone is not enough while an intent is open or a copy unsaved.

**PendingExit_proof**, for any quantity and number of orders: `TypeCorrect` with any
`Unusual`; `ExitsNeverOversell`, `SellsAreKnown` and `ClosedTradesAddUp` with
`Unusual = {}`, since each of the four events breaks the first
(`pending_fallback` is one). `Sure` fixes one `Current` order and says of it: only it
works and what it has left is held (`One`); the legs and it are all that was sold
(`Books`); tracker, row and snapshot in flight name it, with a quantity that is right
until it fills something (`Copies`); what is about to be sent is what is held
(`Sending`).

**PartialScale_proof**, for any quantity and any number of actions, stops, faults and
crashes: `TypeCorrect`; `BankedContractsWereSold` (`BankedIsSold`, of the row);
`ConfirmedPartialsAreRecorded` (`LegsAreSales`, also of a second partial);
`LadderTellsTruth` (`LadderBanked`); `PartialNeverOversells` (`NeverOversold`, with the exceptions the
property states). `Steps` sorts the actions by what they do to orders and intents, and
the `...Moves` lemmas reduce each group to that. The invariant is built in layers:

* `IInv`: types; what an order can have filled (`Amounts`); an action's order exists for
  an action of its kind, and only the newest action is open (`Known`); what the handler
  may rely on at each await (`Handler`).
* `Books`: a confirmed partial is over and banked, a failed one sold nothing if every
  answer came, a leg is what its order sold. `Honest` is the same for the ladder.
* `Recorded`: a confirmed partial without a leg was confirmed live, and either its handler
  is about to record it or a fault has happened; one that recovery confirms has its leg
  first.
* `Conserved`, `Enough`, `Exact`, `Quarantined`: no contract is sold twice; tracker and
  handler never believe in fewer contracts than the account holds (and the handler of a
  live action in none fewer than before its partial); a live partial goes on only with
  its exact fill.
* `Good => Safe`, where `Good` is the hypothesis of `NeverOversold`, which once lost does
  not come back (`GoodBefore`). `Safe`: one SELL works at a time (`Single`) and, if it is
  a stop, for exactly what is held (`Fitting`); the tracker, the handler's copy or the
  open intent names it (`Covers`); the handler's quantity leaves room for what was sold
  (`Room`). `NeverOversold` alone is not inductive: a second stop is held back only
  because whoever would place it can name the first, and the size of the next one is
  right only because `seed_quantity - banked_quantity` is.

**EntryBudget_proof**, for any finite set of trades and any settings:

* `TypeCorrect`, `RefusalsKeepNothing`;
* `GuardImplementsLedger`: `Spec => SettledCashOnly`, the refinement of `BudgetLedger`,
  initial states and every step;
* `BookStaysWithinLimits`: `[]BookWithinLimits`, if the positions held over from
  earlier days fit the limits (`HeldFits`; nothing the code does could make up for it).

`IInv` has, per trade, who is inside which lock, when cash is set aside, and what
order, row and reservation can be at each await. `Room` is what the cash lock is for: an
entry that has passed the totals still fits, because nobody else commits meanwhile. For
the limits, `Claims` are the trades whose loss is still to come, the entry that is
approved and not yet placed included, and `Exposed` those of them that were never
overlooked; `Seen` says that whoever is counting has every exposed rival in a reservation or in the
book as it was read, although the two reads are at different times and rivals move from
one to the other in between; `Counts` carries this to the sum.

**Sums_proof**: `Sum` folds over a set in an order nobody knows. The lemmas say that the
function behind the fold exists (`FoldExists`), that all such functions agree, and from
that how adding, removing, joining and enlarging change a sum. The induction over the
set is done by hand from well-foundedness (`Induction`, `SetInduction` with a set in
place of the predicate), which is as far as induction over data goes with these provers.

Two proofs failed for a reason in the model: `WriteTracked` of `EntryLifecycle` had
overlapping guards where the code has if / elif, and a stop number of `StopRatchet`
could be armed again while the program still named it (`FreeArms`). Both were corrected
against the source.

**Assumptions**: the named `ASSUME`s (managers and syncers are disjoint, absent values
are outside their types, keys are order ids, an exit's key is no other task's, trades
are finite, a planned loss is at most the cost, bounds are naturals), which TLC
evaluates in the runs, and the three hypotheses stated in theorems: `~SlowPass`,
`Unusual = {}` and `HeldFits`. Each of the three holds in the runs that check the
property. One assumption about the broker is in an action: `StopFits` of
`EntryLifecycle` lets it refuse a closing order for contracts that another one has
committed. The only hint in the source is the event reason
`single_resting_exit_order_broker` (`supervisor.py:8900-8908`), and the brokers of the other modules accept such orders;
`HeldGetsProtected` rests on it.

**What the properties do not reach.** `FlattenedStaysFlat`: an entry buys and fills in one
step, so the branches of `halt_and_flatten` for pending entries
(`supervisor.py:7788-7873`) are not exercised. `WorkingSellIsKnown` excludes lost answers
and stale snapshots, `AtMostOneSell` the overlap of flat and manager and the lost answer
of an armed stop. `EmergencyGetsFlat` says nothing of the hard flat.
`ReleasedMeansUnfilled` is about the sized-risk reservation only, and
`HoldKeepsSubmittedQuantity` needs `~SlowPass`. `OneCloseUnlessStale`, `ProtectedAgain`,
`LegsAreSales` and `BookWithinLimits` name the states the code can be in and should not;
they show that there are no others.

**Only model-checked**: liveness, that is everything with fairness (`EveryTaskRuns`,
`EmergencyGetsFlat`, both `ProtectedAgain`, `HeldGetsProtected`, `EntryHoldsResolve`,
`IntentResolves`): TLAPS 1.4.5 proves neither fairness nor ENABLED steps.
Every safety property of a passing run is stated by a theorem. No module declares a
RECURSIVE operator.

## 6. Not modelled

Strategies, indicators, market data, playbook packets, experiments, reports and
operator tools: no order depends on state they share with a handler. HTTP, price
increments and event payloads: formatting and evidence. Several positions of one
contract, synthetic trades and identity matching in reconciliation, and everything
listed `not_modelled` in `PROJECT.json`. Most of the repository's lines are there; the
models cover the part that places orders, about a tenth of the implementation. `active_plan/runtime.py` is an older copy of
`app/runtime.py` that nothing imports.

## 7. Plan

1. `StopRatchet_proof` takes `MinIsMember` from `Sums_proof`.
2. **Overlap**: StopRatchet with two handlers (flat without the symbol lock against
   the reprotection sweep) and a reconciliation pass that spans steps, handing over to
   PendingExit.
3. **ProfileExit**: `evaluate` of `profile_exit.py` and the safety-stack floor as
   functions, against a reference definition over bounded inputs.
