-------------------------- MODULE EntryLifecycle --------------------------
(***************************************************************************)
(* The live entries of one deployment: the entry coroutine                 *)
(* (handle_signal, plan_entry, _protect_live_entry) from the lifecycle     *)
(* gate over reservations, durable intent, BUY, wait, one reprice, cancel  *)
(* races and holds to the first stop; the reconciliation pass              *)
(* (_refresh_reconciliation with sync_lifecycle and the reprotection       *)
(* sweep) that rebuilds tracker and lifecycle meanwhile without any lock   *)
(* the entry takes; the broker; and restarts.                              *)
(*                                                                         *)
(* Every trade buys a contract of its own, with at most two BUY orders:    *)
(* the first (1) and its repriced replacement (2).  Exits are in           *)
(* PendingExit and StopRatchet: here contracts, once held, stay.           *)
(***************************************************************************)
EXTENDS Integers

CONSTANTS MaxTrades,   \* bound: trades the deployment starts, numbered in their order
          Quantity,    \* contracts a signal asks for
          Budget,      \* bound: lost or refused requests, failed reads, restarts
          Crashes,     \* bound: restarts
          SlowPass,    \* may a pass outlast the wait for a fill (30 s by default)
          NoPosition, NoSnapshot

ASSUME SizesAssumption == {MaxTrades, Quantity} \subseteq Nat \ {0} /\ {Budget, Crashes} \subseteq Nat
ASSUME SlowPassAssumption == SlowPass \in BOOLEAN

VARIABLES orders,   \* the broker's BUY orders of each trade
          held,     \* contracts the account holds of each trade
          stops,    \* contracts under the working stop of each trade
          row,      \* trade_sessions
          cash,     \* cash_budget_reservations: status per trade
          risk,     \* entry risk reservations: status per trade
          tracker,  \* PositionTracker
          life,     \* the deployment's TradeLifecycleStore state
          pc, plan, \* the entry coroutine under _entry_lock, and its TradePlan
          rpc, snap, kept, todo,  \* the reconciliation pass: its portfolio, the
                    \* holds it keeps (with their quantity), its sweep
          synced,   \* a reconciliation has succeeded since startup
          lost,     \* history: a restart or an old snapshot forgot a live slot
          faults, crashes  \* what is left of Budget and Crashes

broker == <<orders, held, stops>>
disk == <<row, cash, risk>>
entry == <<pc, plan>>
pass == <<rpc, snap, kept, todo, synced>>
bounds == <<lost, faults, crashes>>
vars == <<broker, disk, tracker, life, entry, pass, bounds>>

Trades == 1..MaxTrades
OrderNumbers == {1, 2}
NoOrder == [st |-> "none", qty |-> 0, filled |-> 0, cxl |-> FALSE]
NoPlan == [trade |-> 0, ord |-> 1, qty |-> 0]
NoRow == [status |-> "none", ord |-> 0, qty |-> 0]

Order == [st : {"none", "working", "filled", "dead"}, qty : 0..Quantity,
          filled : 0..Quantity, cxl : BOOLEAN]
Row == [status : {"none", "hold", "pending", "open", "closed"}, ord : 0..2, qty : 0..Quantity]
Position == [src : {"live_pending", "live_open", "hold", "sync"}, qty : 1..Quantity, ord : OrderNumbers,
             stop : BOOLEAN]
Reservation == {"none", "reserved", "consumed", "released"}

Init ==
    /\ orders = [t \in Trades |-> [k \in OrderNumbers |-> NoOrder]]
    /\ held = [t \in Trades |-> 0]
    /\ stops = [t \in Trades |-> 0]
    /\ row = [t \in Trades |-> NoRow]
    /\ cash = [t \in Trades |-> "none"]
    /\ risk = [t \in Trades |-> "none"]
    /\ tracker = [t \in Trades |-> NoPosition]
    /\ life = "none"
    /\ pc = "idle" /\ plan = NoPlan
    /\ rpc = "idle" /\ snap = NoSnapshot /\ kept = [t \in Trades |-> 0] /\ todo = {} /\ synced = FALSE
    /\ lost = FALSE /\ faults = Budget /\ crashes = Crashes

MayFill(t, k) == orders[t][k].st = "working"
Busy(t) == held[t] > 0 \/ \E k \in OrderNumbers : MayFill(t, k)

\* A fault of the broker or of the connection, or its absence.
Faulty(is) == IF is THEN faults > 0 /\ faults' = faults - 1 ELSE UNCHANGED faults

-----------------------------------------------------------------------------
(* The broker                                                              *)

\* One contract of a working BUY trades.
Fills(t, k) ==
    /\ MayFill(t, k)
    /\ held' = [held EXCEPT ![t] = @ + 1]
    /\ orders' = [orders EXCEPT ![t][k].filled = @ + 1,
                                ![t][k].st = IF orders[t][k].filled + 1 = orders[t][k].qty
                                             THEN "filled" ELSE @]
    /\ UNCHANGED <<stops, disk, tracker, life, entry, pass, bounds>>

\* A requested cancel takes effect, or the order is rejected or expires;
\* contracts it bought before stay bought.
Dies(t, k) ==
    /\ MayFill(t, k)
    /\ Faulty(~orders[t][k].cxl)
    /\ orders' = [orders EXCEPT ![t][k].st = "dead"]
    /\ UNCHANGED <<held, stops, disk, tracker, life, entry, pass, lost, crashes>>

\* The broker accepts a closing order only for contracts that are held and
\* not yet committed to another one.
StopFits(t, q) == stops[t] + q <= held[t]

\* _EntryCancelResult over a status readback.
Terminal(t, k) == orders[t][k].st \in {"filled", "dead"}
ConfirmedFill(t, k) == Terminal(t, k) /\ orders[t][k].filled > 0

\* Mutants of SafeToReplaceOrClose: an accepted cancel request is as good as a
\* dead order; a dead order's fills are not looked at.
SafeToReplaceOrClose_TrustsCancel(t, k) ==
    orders[t][k].filled = 0 /\ (orders[t][k].st = "dead" \/ orders[t][k].cxl)
SafeToReplaceOrClose_IgnoresFills(t, k) == orders[t][k].st = "dead"

SafeToReplaceOrClose(t, k) == orders[t][k].st = "dead" /\ orders[t][k].filled = 0

-----------------------------------------------------------------------------
(* The entry coroutine                                                     *)

T == plan.trade
K == plan.ord

\* Mutant of CanSubmitEntry: a reconciliation hold does not block the lane.
CanSubmitEntry_DespiteHold == life \in {"none", "closed", "hold"}

CanSubmitEntry == life \in {"none", "closed"}

\* The lifecycle gate, the staleness block and the position limits.
LaneIsFree == CanSubmitEntry /\ synced /\ \A t \in Trades : tracker[t] = NoPosition

\* The signal passes them and cash is reserved.
Begin(t) ==
    /\ pc = "idle" /\ \A u \in Trades : (cash[u] = "none") = (u >= t)
    /\ LaneIsFree
    /\ pc' = "intent"
    /\ plan' = [trade |-> t, ord |-> 1, qty |-> Quantity]
    /\ cash' = [cash EXCEPT ![t] = "reserved"]
    /\ UNCHANGED <<broker, row, risk, tracker, life, pass, bounds>>

\* The identity of the BUY is durable before any broker I/O.
PersistIntent ==
    /\ pc = "intent"
    /\ row' = [row EXCEPT ![T] = [status |-> "hold", ord |-> K, qty |-> plan.qty]]
    /\ pc' = "risk"
    /\ UNCHANGED <<broker, cash, risk, tracker, life, plan, pass, bounds>>

\* What follows a BUY that was certainly not submitted: its intent is cleared
\* (plan_entry has none to clear when the write itself failed); nothing to track
\* for a first order, the no-fill close for a replacement.
Unsubmitted ==
    /\ row' = IF pc = "intent" /\ K = 1 THEN row
              ELSE [row EXCEPT ![T] = [status |-> "closed", ord |-> 0, qty |-> 0]]
    /\ cash' = [cash EXCEPT ![T] = "released"]
    /\ risk' = [risk EXCEPT ![T] = "released"]
    /\ IF K = 1 THEN pc' = "idle" /\ plan' = NoPlan
                ELSE pc' = "no_fill" /\ plan' = [plan EXCEPT !.ord = 1]

ReserveRisk ==
    /\ pc = "risk"
    /\ risk' = [risk EXCEPT ![T] = "reserved"]
    /\ pc' = "place"
    /\ UNCHANGED <<broker, row, cash, tracker, life, plan, pass, bounds>>

\* The intent cannot be written, or sized risk, the submission guard or the
\* broker refuses the order.
Refused ==
    /\ pc \in {"intent", "risk", "place"}
    /\ Faulty(TRUE)
    /\ Unsubmitted
    /\ UNCHANGED <<broker, tracker, life, pass, lost, crashes>>

\* place_entry_order: accepted, or uncertain (the order arrived or did not,
\* the answer is lost).  An uncertain first order is waited for like an
\* accepted one; an uncertain replacement goes to the hold.
Place(uncertain) ==
    /\ pc = "place"
    /\ Faulty(uncertain)
    /\ \E arrives \in IF uncertain THEN BOOLEAN ELSE {TRUE} :
          orders' = IF arrives
                    THEN [orders EXCEPT ![T][K] = [st |-> "working", qty |-> plan.qty,
                                                   filled |-> 0, cxl |-> FALSE]]
                    ELSE orders
    /\ IF uncertain /\ K = 2
       THEN pc' = "hold" /\ UNCHANGED tracker
       ELSE /\ pc' = "placed"
            /\ tracker' = [tracker EXCEPT ![T] =
                  [src |-> "live_pending", qty |-> plan.qty, ord |-> K, stop |-> FALSE]]
    /\ UNCHANGED <<held, stops, disk, life, plan, pass, lost, crashes>>

Register ==
    /\ pc = "placed"
    /\ row' = [row EXCEPT ![T] = [status |-> "pending", ord |-> K, qty |-> plan.qty]]
    /\ life' = "pending"
    /\ pc' = "wait"
    /\ UNCHANGED <<broker, cash, risk, tracker, plan, pass, bounds>>

\* A status read that finds the order filled, or dead with or without a fill.
FoundFilled ==
    /\ ConfirmedFill(T, K)
    /\ plan' = [plan EXCEPT !.qty = orders[T][K].filled]
    /\ pc' = "filled"

WaitFindsFill ==
    /\ pc = "wait" /\ FoundFilled
    /\ UNCHANGED <<broker, disk, tracker, life, pass, bounds>>

WaitFindsDead ==
    /\ pc = "wait" /\ SafeToReplaceOrClose(T, K)
    /\ pc' = "no_fill"
    /\ UNCHANGED <<broker, disk, tracker, life, plan, pass, bounds>>

\* The wait ends without a terminal status: the reprice checkpoint (a
\* replacement is never repriced again), the deadline or a closed window, or,
\* without repricing, the hold.  Unless SlowPass, a pass that read the records
\* before the order was placed has written by then.
WaitTimesOut ==
    /\ pc = "wait" /\ ~Terminal(T, K)
    /\ SlowPass \/ rpc \notin {"merged", "resolved"}
    /\ pc' \in {"reprice", "cancel", "hold"}
    /\ pc' = "reprice" => K = 1
    /\ UNCHANGED <<broker, disk, tracker, life, plan, pass, bounds>>

\* DELETE asks for a cancellation; the request may not arrive.
RequestCancel ==
    /\ pc \in {"reprice", "cancel"}
    /\ pc' = IF pc = "reprice" THEN "reprice_readback" ELSE "cancel_readback"
    /\ \E arrives \in BOOLEAN :
          /\ Faulty(~arrives)
          /\ orders' = IF arrives THEN [orders EXCEPT ![T][K].cxl = MayFill(T, K)] ELSE orders
    /\ UNCHANGED <<held, stops, disk, tracker, life, plan, pass, lost, crashes>>

ReadbackFindsFill ==
    /\ pc \in {"reprice_readback", "cancel_readback"} /\ FoundFilled
    /\ UNCHANGED <<broker, disk, tracker, life, pass, bounds>>

\* Confirmed dead without a fill: the entry is over, or cash is released and
\* reserved again for a replacement of at most the same size.
ReadbackFindsDead ==
    /\ pc \in {"reprice_readback", "cancel_readback"}
    /\ SafeToReplaceOrClose(T, K)
    /\ \/ pc = "cancel_readback" /\ pc' = "no_fill" /\ UNCHANGED <<plan, cash>>
       \/ /\ pc = "reprice_readback" /\ pc' = "intent"
          /\ \E q \in 1..plan.qty : plan' = [plan EXCEPT !.ord = 2, !.qty = q]
          /\ cash' = [cash EXCEPT ![T] = "reserved"]
    /\ UNCHANGED <<broker, row, risk, tracker, life, pass, bounds>>

\* The new cash requirement does not fit.
ReplacementUnfunded ==
    /\ pc = "reprice_readback" /\ SafeToReplaceOrClose(T, K)
    /\ cash' = [cash EXCEPT ![T] = "released"]
    /\ risk' = [risk EXCEPT ![T] = "released"]
    /\ pc' = "no_fill"
    /\ UNCHANGED <<broker, row, tracker, life, plan, pass, bounds>>

\* Still working, not indexed, or the read failed: the cancel is unconfirmed.
ReadbackUnconfirmed ==
    /\ pc \in {"reprice_readback", "cancel_readback"}
    /\ Faulty(Terminal(T, K))
    /\ pc' = "hold"
    /\ UNCHANGED <<broker, disk, tracker, life, plan, pass, lost, crashes>>

\* pending_entry_reconcile: reservations stay, reconciliation takes over.
Hold ==
    /\ pc = "hold"
    /\ row' = [row EXCEPT ![T] = [status |-> "hold", ord |-> K, qty |-> plan.qty]]
    /\ life' = "hold"
    /\ pc' = "idle" /\ plan' = NoPlan
    /\ UNCHANGED <<broker, cash, risk, tracker, pass, bounds>>

CloseNoFill ==
    /\ pc = "no_fill"
    /\ cash' = [cash EXCEPT ![T] = "released"]
    /\ risk' = [risk EXCEPT ![T] = "released"]
    /\ tracker' = [tracker EXCEPT ![T] = IF @ # NoPosition /\ @.ord = K THEN NoPosition ELSE @]
    /\ row' = [row EXCEPT ![T].status = "closed"]
    /\ life' = "closed"
    /\ pc' = "idle" /\ plan' = NoPlan
    /\ UNCHANGED <<broker, pass, bounds>>

\* The reservation is consumed and the first stop submitted.
ArmFirstStop(accepted) ==
    /\ pc = "filled"
    /\ cash' = [cash EXCEPT ![T] = "consumed"]
    /\ accepted => StopFits(T, plan.qty)
    /\ Faulty(~accepted /\ StopFits(T, plan.qty))
    /\ stops' = IF accepted THEN [stops EXCEPT ![T] = @ + plan.qty] ELSE stops
    /\ tracker' = [tracker EXCEPT ![T] =
          [src |-> "live_open", qty |-> plan.qty, ord |-> K, stop |-> accepted]]
    /\ pc' = "armed"
    /\ UNCHANGED <<orders, held, row, risk, life, plan, pass, lost, crashes>>

RecordOpen ==
    /\ pc = "armed"
    /\ row' = [row EXCEPT ![T] = [status |-> "open", ord |-> K, qty |-> plan.qty]]
    /\ risk' = [risk EXCEPT ![T] = "consumed"]
    /\ life' = "open"
    /\ pc' = "idle" /\ plan' = NoPlan
    /\ UNCHANGED <<broker, cash, tracker, pass, bounds>>


-----------------------------------------------------------------------------
(* One reconciliation pass                                                 *)

\* The portfolio, or three failed attempts at it.
Fetch(fails) ==
    /\ rpc = "idle" /\ Faulty(fails)
    /\ IF fails THEN UNCHANGED <<rpc, snap>>
                ELSE rpc' = "fetched" /\ snap' = [held |-> held, stops |-> stops]
    /\ UNCHANGED <<broker, disk, tracker, life, entry, kept, todo, synced, lost, crashes>>

\* Mutants of Reconciled: a resting stop of any size is attached; a position
\* that is gone keeps its entry.
Reconciled_AnyStop(t) ==
    IF snap.held[t] = 0 THEN NoPosition
    ELSE [src |-> IF row[t].status = "hold" THEN "hold" ELSE "live_open",
          qty |-> snap.held[t], ord |-> row[t].ord, stop |-> snap.stops[t] > 0]
Reconciled_KeepsEmpty(t) ==
    IF row[t].ord = 0 THEN NoPosition
    ELSE [src |-> "live_open", qty |-> snap.held[t], ord |-> row[t].ord,
          stop |-> snap.stops[t] = snap.held[t]]

\* reconcile_public_positions: what the portfolio holds, under the identity of
\* the trade record; a stop of another size stays unattached.
Reconciled(t) ==
    IF snap.held[t] = 0 THEN NoPosition
    ELSE [src |-> CASE row[t].status = "hold"   -> "hold"
                    [] row[t].status = "closed" -> "sync"
                    [] OTHER                    -> "live_open",
          qty |-> snap.held[t],
          ord |-> row[t].ord,
          stop |-> snap.stops[t] = snap.held[t]]

\* replace_positions and sync_from_positions.
Merge ==
    /\ rpc = "fetched" /\ rpc' = "merged"
    /\ tracker' = [t \in Trades |-> Reconciled(t)]
    /\ life' = IF \E t \in Trades : snap.held[t] > 0 THEN "open"
               ELSE IF life = "open" THEN "closed" ELSE life
    /\ lost' = (lost \/ (life' = "closed" /\ \E t \in Trades : Busy(t)))
    /\ snap' = NoSnapshot
    /\ UNCHANGED <<broker, disk, entry, kept, todo, synced, faults, crashes>>

\* Mutant of Recovers: only a completely filled order is recovered.
Recovers_CompleteOnly(t) ==
    row[t].status = "hold" /\ row[t].ord # 0 /\ orders[t][row[t].ord].st = "filled"

\* _reconcile_pending_entry_release of a held row, by its order's status.
Recovers(t) == row[t].status = "hold" /\ row[t].ord # 0 /\ ConfirmedFill(t, row[t].ord)
Releases(t) == /\ row[t].status = "hold" /\ row[t].ord # 0
               /\ SafeToReplaceOrClose(t, row[t].ord)
               /\ tracker[t] = NoPosition

\* sync_lifecycle over the trade records: `unread` are the holds whose status
\* request fails.  A row that is open without a position has disappeared.
Resolve(unread) ==
    LET recovered == {t \in Trades \ unread : Recovers(t)}
        released == {t \in Trades \ unread : Releases(t)}
        gone == {t \in Trades : row[t].status = "open" /\ tracker[t] = NoPosition}
    IN  /\ rpc = "merged" /\ rpc' = "resolved"
        /\ unread \subseteq {t \in Trades : row[t].status = "hold"}
        /\ Faulty(unread # {})
        /\ kept' = [t \in Trades |-> IF row[t].status = "hold" /\ t \notin recovered \cup released
                                     THEN row[t].qty ELSE 0]
        /\ tracker' = [t \in Trades |->
              IF t \in recovered
              THEN [src |-> "live_open", qty |-> orders[t][row[t].ord].filled, ord |-> row[t].ord,
                    stop |-> tracker[t] # NoPosition /\ tracker[t].stop]
              ELSE tracker[t]]
        /\ life' = IF recovered # {} THEN "open" ELSE IF released # {} THEN "closed" ELSE life
        /\ cash' = [t \in Trades |-> IF t \in released THEN "released" ELSE cash[t]]
        /\ risk' = [t \in Trades |-> CASE t \in recovered -> "consumed"
                                       [] t \in released  -> "released"
                                       [] OTHER           -> risk[t]]
        /\ row' = [t \in Trades |-> IF t \in released \cup gone
                                    THEN [row[t] EXCEPT !.status = "closed"] ELSE row[t]]
        /\ lost' = (lost \/ (life' = "closed" /\ \E t \in Trades : Busy(t)))
        /\ UNCHANGED <<broker, entry, snap, todo, synced, crashes>>

\* Mutant of WriteTracked: a held row takes the quantity of the portfolio.
WriteTracked_Shrinks ==
    /\ rpc = "resolved" /\ rpc' = "sweep"
    /\ row' = [t \in Trades |->
          IF tracker[t] = NoPosition THEN row[t]
          ELSE [status |-> IF kept[t] > 0 THEN "hold" ELSE "open",
                ord |-> tracker[t].ord, qty |-> tracker[t].qty]]
    /\ todo' = {t \in Trades : tracker[t] # NoPosition /\ ~tracker[t].stop}
    /\ kept' = [t \in Trades |-> 0]
    /\ synced' = TRUE
    /\ UNCHANGED <<broker, cash, risk, tracker, life, entry, snap, bounds>>

\* The tracked positions go to the trade records and the cash ledger; the
\* positions without a stop are listed for the sweep.
WriteTracked ==
    /\ rpc = "resolved" /\ rpc' = "sweep"
    /\ row' = [t \in Trades |->
          IF tracker[t] = NoPosition THEN row[t]
          ELSE IF kept[t] > 0
          THEN [status |-> "hold", ord |-> tracker[t].ord, qty |-> kept[t]]
          ELSE [status |-> "open", ord |-> tracker[t].ord, qty |-> tracker[t].qty]]
    /\ cash' = [t \in Trades |-> IF tracker[t] # NoPosition /\ cash[t] = "reserved"
                                 THEN "consumed" ELSE cash[t]]
    /\ todo' = {t \in Trades : tracker[t] # NoPosition /\ ~tracker[t].stop}
    /\ kept' = [t \in Trades |-> 0]
    /\ synced' = TRUE
    /\ UNCHANGED <<broker, risk, tracker, life, entry, snap, bounds>>

\* The outcome of protecting a position: a stop of another size is canceled
\* first (and adopted when the cancel stays unconfirmed), then one is placed.
Protected(t, q, canceled, accepted) ==
    LET mismatch == stops[t] > 0 /\ stops[t] # q
        left == IF mismatch /\ canceled THEN 0 ELSE stops[t]
        fits == left + q <= held[t]
    IN  /\ accepted => fits
        /\ Faulty(IF left > 0 THEN mismatch ELSE fits /\ ~accepted)
        /\ stops' = [stops EXCEPT ![t] = IF left = 0 /\ accepted THEN q ELSE left]
        /\ tracker' = [tracker EXCEPT ![t].stop = left > 0 \/ accepted]
        /\ IF left > 0 \/ accepted
           THEN /\ life' = "open"
                /\ row' = IF tracker[t].src = "hold" THEN row
                          ELSE [row EXCEPT ![t] = [status |-> "open", ord |-> tracker[t].ord,
                                                   qty |-> tracker[t].qty]]
           ELSE UNCHANGED <<life, row>>

\* A pending entry has no entry price until its replacement is placed, and is
\* passed over until then.
Skipped(t) ==
    \/ tracker[t] = NoPosition \/ tracker[t].stop
    \/ tracker[t].src = "live_pending" /\ tracker[t].ord = 1

Sweep(t) ==
    /\ rpc = "sweep" /\ t \in todo /\ todo' = todo \ {t}
    /\ IF Skipped(t)
       THEN UNCHANGED <<stops, tracker, life, row, faults>>
       ELSE \E canceled, accepted \in BOOLEAN : Protected(t, tracker[t].qty, canceled, accepted)
    /\ UNCHANGED <<orders, held, cash, risk, entry, rpc, snap, kept, synced, lost, crashes>>

PassEnds ==
    /\ rpc = "sweep" /\ todo = {} /\ rpc' = "idle"
    /\ UNCHANGED <<broker, disk, tracker, life, entry, snap, kept, todo, synced, bounds>>

-----------------------------------------------------------------------------
(* Forced flats, restarts, the specification                               *)

\* The emergency or hard flat of an entry that is not known to be filled, in
\* the symbol's worker and so never during the entry coroutine: the tracked
\* order is canceled; only a pending entry whose order reads dead and unfilled
\* is closed.  Contracts are sold as in PendingExit.
ForcedFlat(t) ==
    /\ T # t /\ tracker[t] # NoPosition /\ tracker[t].src \in {"hold", "live_pending"}
    /\ \/ /\ MayFill(t, tracker[t].ord)
          /\ orders' = [orders EXCEPT ![t][tracker[t].ord].cxl = TRUE]
          /\ UNCHANGED <<tracker, row, life, lost>>
       \/ /\ tracker[t].src = "live_pending" /\ SafeToReplaceOrClose(t, tracker[t].ord)
          /\ tracker' = [tracker EXCEPT ![t] = NoPosition]
          /\ row' = [row EXCEPT ![t].status = "closed"]
          /\ life' = "closed"
          /\ lost' = (lost \/ \E u \in Trades : Busy(u))
          /\ UNCHANGED orders
    /\ UNCHANGED <<held, stops, cash, risk, entry, pass, faults, crashes>>

\* The tracker and the lifecycle store live in memory.
Crash ==
    /\ crashes > 0 /\ crashes' = crashes - 1
    /\ lost' = (lost \/ \E t \in Trades : Busy(t))
    /\ tracker' = [t \in Trades |-> NoPosition]
    /\ life' = "none"
    /\ pc' = "idle" /\ plan' = NoPlan
    /\ rpc' = "idle" /\ snap' = NoSnapshot /\ kept' = [t \in Trades |-> 0] /\ todo' = {}
    /\ synced' = FALSE
    /\ UNCHANGED <<broker, disk, faults>>

Broker == \E t \in Trades, k \in OrderNumbers : Fills(t, k) \/ Dies(t, k)
Entry ==
    \/ PersistIntent \/ ReserveRisk \/ Refused \/ \E u \in BOOLEAN : Place(u)
    \/ Register \/ WaitFindsFill \/ WaitFindsDead \/ WaitTimesOut \/ RequestCancel
    \/ ReadbackFindsFill \/ ReadbackFindsDead \/ ReplacementUnfunded \/ ReadbackUnconfirmed
    \/ Hold \/ CloseNoFill \/ (\E a \in BOOLEAN : ArmFirstStop(a)) \/ RecordOpen
Reconcile ==
    \/ \E f \in BOOLEAN : Fetch(f)
    \/ Merge
    \/ \E unread \in SUBSET Trades : Resolve(unread)
    \/ WriteTracked
    \/ \E t \in Trades : Sweep(t)
    \/ PassEnds

Next == Broker \/ (\E t \in Trades : Begin(t)) \/ Entry \/ Reconcile \/ Crash
        \/ \E t \in Trades : ForcedFlat(t)

\* The coroutine's awaits return (every request has a timeout) and the
\* reconciliation loop never ends while the session runs.
Fairness == WF_vars(Entry) /\ WF_vars(Reconcile)

Spec == Init /\ [][Next]_vars /\ Fairness

-----------------------------------------------------------------------------
(* Properties                                                              *)

\* Every variable keeps its type.
TypeOK ==
    /\ orders \in [Trades -> [OrderNumbers -> Order]]
    /\ held \in [Trades -> Nat] /\ stops \in [Trades -> Nat]
    /\ row \in [Trades -> Row]
    /\ cash \in [Trades -> Reservation] /\ risk \in [Trades -> Reservation]
    /\ tracker \in [Trades -> Position \cup {NoPosition}]
    /\ life \in {"none", "pending", "hold", "open", "closed"}
    /\ pc \in {"idle", "intent", "risk", "place", "placed", "wait", "reprice", "cancel",
               "reprice_readback", "cancel_readback", "hold", "no_fill", "filled", "armed"}
    /\ plan \in [trade : 0..MaxTrades, ord : OrderNumbers, qty : 0..Quantity]
    /\ rpc \in {"idle", "fetched", "merged", "resolved", "sweep"}
    /\ snap = NoSnapshot \/ snap \in [held : [Trades -> Nat], stops : [Trades -> Nat]]
    /\ kept \in [Trades -> 0..Quantity]
    /\ todo \subseteq Trades /\ synced \in BOOLEAN /\ lost \in BOOLEAN
    /\ faults \in 0..Budget /\ crashes \in 0..Crashes

\* While the deployment has contracts or a BUY that may still fill, a new
\* signal does not get past the gate (can_submit_entry, the staleness block
\* and the position limits): not after an uncertain submission, a cancel that
\* was lost, a timeout, nor between the steps of a reconciliation pass.  The
\* exceptions: a restart, a portfolio older than the entry's record, or an
\* emergency flat of the order a lost replacement had replaced made the
\* lifecycle store forget the slot.
LaneGuarded == (\E t \in Trades : Busy(t)) /\ pc = "idle" /\ LaneIsFree => lost

\* "No duplicate entry": two trades of one deployment never have contracts or
\* a working BUY at once.
OneBuyPerLane == \A t, u \in Trades : Busy(t) /\ Busy(u) => t = u

\* A trade never holds more contracts than its signal asked for: a replacement
\* is placed only once the first order is dead without a fill
\* (_cancel_entry_order_and_check_fill, _EntryCancelResult).
NeverOverbought == \A t \in Trades : held[t] <= Quantity

\* A sized-risk reservation is given back only when no BUY of its trade works
\* and none bought anything, whoever gives it back: plan_entry, the reprice,
\* the no-fill close or _reconcile_pending_entry_release.
ReleasedMeansUnfilled ==
    \A t \in Trades : risk[t] = "released" => ~Busy(t)

\* A held record never shows fewer contracts than its order was submitted for,
\* so that a later, larger terminal fill is not taken for a corrupt one
\* (sync_lifecycle's "Preserve the submitted order quantity").
HoldKeepsSubmittedQuantity ==
    \A t \in Trades, k \in OrderNumbers :
        row[t].status = "hold" /\ row[t].ord = k /\ orders[t][k].st # "none"
            => row[t].qty >= orders[t][k].qty

\* What an entry bought ends up tracked and under a stop of its size, whatever
\* was lost on the way: a fill seen only by a portfolio, a stop refused or
\* sized for a partial fill, a position dropped by an old snapshot, a restart.
HeldGetsProtected ==
    \A t \in Trades :
        held[t] > 0 ~> (stops[t] = held[t] /\ tracker[t] # NoPosition /\ tracker[t].stop)

\* A hold on an order that is over does not last: the fill is recovered or the
\* entry released (or a replacement takes its place).
EntryHoldsResolve ==
    \A t \in Trades, k \in OrderNumbers :
        (row[t].status = "hold" /\ row[t].ord = k /\ Terminal(t, k))
            ~> ~(row[t].status = "hold" /\ row[t].ord = k)
=============================================================================
