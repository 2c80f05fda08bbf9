---------------------------- MODULE PendingExit ----------------------------
(***************************************************************************)
(* A submitted exit of one live position, from the first close order to    *)
(* the broker-proved fill: the pending-exit poller                         *)
(* (_manage_pending_exit_locked) with its two guard ladders, the tracker   *)
(* and trade row it updates, the broker that fills and kills orders, and   *)
(* the reconciliation pass that rebuilds the tracker from a portfolio      *)
(* snapshot without taking the symbol lock.                                *)
(*                                                                         *)
(* Every submission of one exit carries the exit_submitted_at of the first *)
(* one, so that field is not modelled: a row that is exit_pending and a    *)
(* tracker entry that is pending always compare as equally new.  Resting   *)
(* stops and targets are gone before the first close order is placed.      *)
(***************************************************************************)
EXTENDS Integers, FiniteSets, Sums

CONSTANTS Quantity,    \* contracts held when the exit starts
          MaxOrders,   \* bound: close orders anyone still refers to
          Budget,      \* bound: price moves, faults, crashes and snapshots
          MaxShort,    \* bound: contracts short before submissions stop
          Modes,       \* the ExitModes in use
          Unusual,     \* which of UnusualEvents may happen
          NoPosition, NoSnapshot

ASSUME SizesAssumption == Quantity \in Nat \ {0} /\ {MaxOrders, Budget, MaxShort} \subseteq Nat

\* "fallback": a hard flat is still unfilled ten seconds after it started;
\* "lost": the broker accepts an order and its answer never arrives;
\* "unparseable": a dead order's filledQuantity is not a number;
\* "stale": the exit moves on while a reconciliation snapshot is in flight.
UnusualEvents == {"fallback", "lost", "unparseable", "stale"}

ASSUME UnusualAssumption == Unusual \subseteq UnusualEvents
ASSUME ModesAssumption == Modes \subseteq {"STRATEGY", "HARD_FLAT", "EMERGENCY"}

VARIABLES orders,  \* the broker's close orders
          held,    \* contracts the account holds (negative: short)
          pos,     \* the tracker's entry
          trade,   \* its trade_sessions row
          legs,    \* orders with a trade_partial_fills row
          booked,  \* contracts those rows add up to, over the whole exit
          pc,      \* where the exit coroutine is
          look,    \* the position it captured
          job,     \* the close order it is about to submit
          snap,    \* reconciliation's portfolio snapshot and trades read
          due,     \* _hard_flat_market_fallback_due
          budget   \* what is left of Budget

broker == <<orders, held>>
memory == <<pos, pc, look, job, snap>>
fills == <<legs, booked>>
vars == <<broker, memory, trade, fills, due, budget>>

OrderNumbers == 1..MaxOrders
None == 0                        \* exit_order_id is None
NoMode == "none"                 \* exit_mode is None

Order == [qty : 0..Quantity, filled : 0..Quantity, limit : BOOLEAN,
          st : {"none", "working", "filled", "dead"}, cxl : BOOLEAN, odd : BOOLEAN]
Position == [qty : 1..Quantity, order : 0..MaxOrders, mode : Modes \cup {NoMode},
             reprices : 0..1]
Row == [status : {"open", "exit_pending", "closed"}, order : 0..MaxOrders,
        mode : Modes \cup {NoMode}]
Job == [qty : 0..Quantity, mode : Modes \cup {NoMode}, forced : BOOLEAN, bump : 0..1,
        sent : 0..MaxOrders]
Snapshot == [qty : Int, indexed : 0..MaxOrders, row : Row, read : BOOLEAN]
NoOrder == [qty |-> 0, filled |-> 0, limit |-> FALSE, st |-> "none", cxl |-> FALSE,
            odd |-> FALSE]
NoJob == [qty |-> 0, mode |-> NoMode, forced |-> FALSE, bump |-> 0, sent |-> None]

ASSUME SentinelsAssumption == NoPosition \notin Position /\ NoSnapshot \notin Snapshot

Init ==
    /\ orders = [o \in OrderNumbers |-> NoOrder]
    /\ held = Quantity
    /\ pos = [qty |-> Quantity, order |-> None, mode |-> NoMode, reprices |-> 0]
    /\ trade = [status |-> "open", order |-> None, mode |-> NoMode]
    /\ legs = {}
    /\ booked = 0
    /\ pc = "idle"
    /\ look = NoPosition
    /\ job = NoJob
    /\ snap = NoSnapshot
    /\ due = FALSE
    /\ budget = Budget

Spends == budget > 0 /\ budget' = budget - 1

\* A step after which a snapshot in flight is out of date.
Outdates ==
    /\ snap = NoSnapshot \/ "stale" \in Unusual
    /\ UNCHANGED snap

\* Order ids are fresh uuids: a number is reused only when its old order is
\* over and no variable names it any more.
Named ==
    {job.sent, trade.order}
    \cup {p.order : p \in {pos, look} \ {NoPosition}}
    \cup (IF snap = NoSnapshot THEN {} ELSE {snap.indexed, snap.row.order})
Free == {o \in OrderNumbers : orders[o].st # "working" /\ o \notin Named}

-----------------------------------------------------------------------------
(* The broker                                                              *)

Remaining(o) == IF orders[o].st = "working" THEN orders[o].qty - orders[o].filled ELSE 0

\* One contract of a working order trades; a completed order usually reads
\* FILLED, but may also be reported dead with its whole quantity filled.
Fill(o) ==
    /\ orders[o].st = "working"
    /\ held' = held - 1
    /\ \E last \in {"filled", "dead"} :
          orders' = [orders EXCEPT ![o].filled = @ + 1,
                                   ![o].st = IF Remaining(o) = 1 THEN last ELSE @]
    /\ UNCHANGED <<memory, trade, fills, due, budget>>

\* A requested cancel takes effect; or the order is rejected or expires.
\* A dead order's filledQuantity may come back as text that does not parse.
Dies(o) ==
    /\ orders[o].st = "working"
    /\ \E odd \in BOOLEAN :
          /\ odd => "unparseable" \in Unusual
          /\ IF odd \/ ~orders[o].cxl THEN Spends ELSE UNCHANGED budget
          /\ orders' = [orders EXCEPT ![o].st = "dead", ![o].odd = odd]
    /\ UNCHANGED <<held, memory, trade, fills, due>>

\* Ten seconds pass after exit_submitted_at.
TimePasses ==
    /\ "fallback" \in Unusual
    /\ ~due /\ trade.status = "exit_pending" /\ trade.mode = "HARD_FLAT"
    /\ due' = TRUE
    /\ UNCHANGED <<broker, memory, trade, fills, budget>>

-----------------------------------------------------------------------------
(* Starting an exit and one poll of it                                     *)

\* handle_exit / close_due_positions / halt_and_flatten_positions, past their
\* guards: no exit is pending.
StartExit(mode) ==
    /\ pc = "idle" /\ pos # NoPosition
    /\ pos.mode = NoMode /\ pos.order = None
    /\ pc' = "place"
    /\ look' = pos
    /\ job' = [NoJob EXCEPT !.qty = pos.qty, !.mode = mode, !.forced = (mode = "EMERGENCY")]
    /\ UNCHANGED <<broker, pos, snap, trade, fills, due, budget>>

\* manage_pending_exits lists the tracker's positions before it waits for
\* the symbol lock.
BeginPoll ==
    /\ pc = "idle" /\ pos # NoPosition
    /\ pos.mode # NoMode
    /\ pc' = "poll"
    /\ look' = pos
    /\ UNCHANGED <<broker, pos, job, snap, trade, fills, due, budget>>

Return ==
    /\ pc' = "idle"
    /\ look' = NoPosition
    /\ job' = NoJob

\* The handler goes on to submit qty contracts.
Resubmit(qty, forced, bump) ==
    /\ pc' = "place"
    /\ job' = [qty |-> qty, mode |-> look.mode, forced |-> forced, bump |-> bump, sent |-> None]
    /\ UNCHANGED <<look, pos, snap>>

\* _finalize_pending_exit_fill
Finalize ==
    /\ Return
    /\ pos' = NoPosition
    /\ trade' = [trade EXCEPT !.status = "closed", !.order = look.order]
    /\ Outdates
    /\ UNCHANGED fills

\* Mutant of RecordLeg: every call inserts a row.
RecordLeg_NoLookup(o) ==
    /\ legs' = legs \cup {o}
    /\ booked' = booked + orders[o].filled

\* record_partial_fill returns the row it already has for the order.
RecordLeg(o) ==
    /\ legs' = legs \cup {o}
    /\ booked' = IF o \in legs THEN booked ELSE booked + orders[o].filled

\* get_order_status fails or answers 404.
StatusUnavailable ==
    /\ pc \in {"poll", "readback"} /\ look.order # None
    /\ Spends
    /\ Return
    /\ UNCHANGED <<broker, pos, snap, trade, fills, due>>

\* Mutant of Ladder: the residual is what the tracker holds minus the fill.
Ladder_FromTracker(o, bump) ==
    IF orders[o].filled >= orders[o].qty THEN Finalize
    ELSE /\ UNCHANGED trade
         /\ IF orders[o].filled > 0
            THEN /\ RecordLeg(o)
                 /\ Resubmit(look.qty, look.mode = "EMERGENCY", bump)
            ELSE /\ UNCHANGED fills
                 /\ Resubmit(look.qty, look.mode = "EMERGENCY", bump)

\* Mutant of Ladder: a dead order that never filled blocks the cycle.
Ladder_ZeroBlocks(o, bump) ==
    IF orders[o].filled >= orders[o].qty THEN Finalize
    ELSE /\ UNCHANGED trade
         /\ IF orders[o].filled > 0
            THEN /\ RecordLeg(o)
                 /\ Resubmit(orders[o].qty - orders[o].filled, look.mode = "EMERGENCY", bump)
            ELSE Return /\ UNCHANGED <<fills, pos, snap>>

\* Mutant of Ladder: the filled leg is not written down.
Ladder_NoLeg(o, bump) ==
    IF orders[o].filled >= orders[o].qty THEN Finalize
    ELSE /\ UNCHANGED <<trade, fills>>
         /\ Resubmit(IF orders[o].filled > 0 THEN orders[o].qty - orders[o].filled
                     ELSE look.qty, look.mode = "EMERGENCY", bump)

\* What both ladders do with an order proved dead whose filledQuantity
\* parses: a full fill closes the position, a partial fill is recorded and
\* leaves the order's own residual, no fill leaves the position's quantity.
Ladder(o, bump) ==
    IF orders[o].filled >= orders[o].qty THEN Finalize
    ELSE /\ UNCHANGED trade
         /\ IF orders[o].filled > 0
            THEN /\ RecordLeg(o)
                 /\ Resubmit(orders[o].qty - orders[o].filled, look.mode = "EMERGENCY", bump)
            ELSE /\ UNCHANGED fills
                 /\ Resubmit(look.qty, look.mode = "EMERGENCY", bump)

PollFindsFill ==
    /\ pc = "poll" /\ look.order # None
    /\ orders[look.order].st = "filled"
    /\ Finalize
    /\ UNCHANGED <<broker, due, budget>>

\* No order was ever acknowledged: submit the position's quantity.
PollFindsNoOrder ==
    /\ pc = "poll" /\ look.order = None
    /\ Resubmit(look.qty, look.mode = "EMERGENCY", 0)
    /\ UNCHANGED <<broker, trade, fills, due, budget>>

\* _resolve_dead_status_exit_for_resubmit
PollFindsDead ==
    /\ pc = "poll" /\ look.order # None
    /\ orders[look.order].st = "dead"
    /\ IF orders[look.order].odd THEN Return /\ UNCHANGED <<pos, snap, trade, fills>>
       ELSE Ladder(look.order, 0)
    /\ UNCHANGED <<broker, due, budget>>

\* A working order that is left alone: no material price change, an
\* emergency exit, or a repriced hard flat whose fallback is not due.
PollFindsWorking ==
    /\ pc = "poll" /\ look.order # None
    /\ orders[look.order].st = "working"
    /\ ~(look.mode = "HARD_FLAT" /\ (look.reprices = 0 \/ due))
    /\ Return
    /\ UNCHANGED <<broker, pos, snap, trade, fills, due, budget>>

\* Mutant of RequestCancel: a hard flat is repriced at every poll.
RequestCancel_EveryPoll ==
    /\ pc = "poll" /\ look.order # None
    /\ orders[look.order].st = "working"
    /\ \/ look.mode = "STRATEGY" /\ Spends
       \/ look.mode = "HARD_FLAT" /\ UNCHANGED budget
    /\ pc' = "readback"
    /\ orders' = [orders EXCEPT ![look.order].cxl = TRUE]
    /\ UNCHANGED <<held, pos, look, job, snap, trade, fills, due>>

\* The reprice branches request a cancel (one that the broker drops is a
\* cancel that never takes effect).
RequestCancel ==
    /\ pc = "poll" /\ look.order # None
    /\ orders[look.order].st = "working"
    /\ \/ look.mode = "STRATEGY" /\ Spends
       \/ look.mode = "HARD_FLAT" /\ look.reprices = 0 /\ UNCHANGED budget
    /\ pc' = "readback"
    /\ orders' = [orders EXCEPT ![look.order].cxl = TRUE]
    /\ UNCHANGED <<held, pos, look, job, snap, trade, fills, due>>

\* Mutant of CancelReadback: an accepted DELETE counts as dead.
CancelReadback_TrustsDelete ==
    /\ pc = "readback"
    /\ LET o == look.order
           bump == IF look.mode = "HARD_FLAT" THEN 1 ELSE 0
       IN IF orders[o].st = "filled" THEN Finalize
          ELSE Ladder(o, bump)
    /\ UNCHANGED <<broker, due, budget>>

\* _resolve_exit_cancel_for_reprice after the readback: FILLED finalizes, a
\* status that is not dead blocks the cycle, a filledQuantity that does not
\* parse counts as none, the rest is the ladder.
CancelReadback ==
    /\ pc = "readback"
    /\ LET o == look.order
           bump == IF look.mode = "HARD_FLAT" THEN 1 ELSE 0
       IN \/ /\ orders[o].st = "filled"
             /\ Finalize
          \/ /\ orders[o].st = "working"
             /\ Return
             /\ UNCHANGED <<pos, snap, trade, fills>>
          \/ /\ orders[o].st = "dead" /\ ~orders[o].odd
             /\ Ladder(o, bump)
          \/ /\ orders[o].st = "dead" /\ orders[o].odd
             /\ Resubmit(look.qty, FALSE, bump)
             /\ UNCHANGED <<trade, fills>>
    /\ UNCHANGED <<broker, due, budget>>

\* hard_flat_market_fallback: a MARKET order for the whole quantity while the
\* repriced limit order is still working.
MarketFallback ==
    /\ pc = "poll" /\ look.order # None
    /\ orders[look.order].st = "working"
    /\ look.mode = "HARD_FLAT" /\ look.reprices > 0 /\ due
    /\ Resubmit(look.qty, TRUE, 0)
    /\ UNCHANGED <<broker, trade, fills, due, budget>>

-----------------------------------------------------------------------------
(* _submit_exit_request                                                    *)

\* No quote: a strategy exit waits, the others go to MARKET.
NoQuoteWaits ==
    /\ pc = "place" /\ job.mode = "STRATEGY" /\ ~job.forced
    /\ Spends
    /\ pc' = "track"
    /\ UNCHANGED <<broker, pos, look, job, snap, trade, fills, due>>

\* _submit gives a SELL no order id unless the broker acknowledged it.
Outcomes == {"ack", "refused"} \cup ({"lost"} \cap Unusual)

Place(limit, outcome) ==
    /\ pc = "place"
    /\ limit => job.mode # "EMERGENCY" /\ ~job.forced
    /\ ~limit => job.mode # "STRATEGY"
    /\ IF outcome = "ack" THEN UNCHANGED budget ELSE Spends
    /\ IF outcome = "refused"
       THEN UNCHANGED <<orders, legs, job, snap>>
       ELSE /\ Free # {} /\ held > -MaxShort
            /\ LET o == Min(Free)
               IN /\ orders' = [x \in OrderNumbers |->
                        CASE x = o -> [NoOrder EXCEPT !.qty = job.qty, !.limit = limit,
                                                      !.st = "working"]
                          [] x \in Free \ {o} -> NoOrder
                          [] OTHER -> orders[x]]
                  /\ legs' = legs \ Free
                  /\ job' = [job EXCEPT !.sent = IF outcome = "ack" THEN o ELSE None]
            /\ Outdates
    /\ pc' = "track"
    /\ UNCHANGED <<held, pos, look, trade, booked, due>>

\* Mutant of Track: the acknowledged order id is written to the row only.
Track_ForgetsOrder ==
    /\ pc = "track"
    /\ pos' = [qty |-> job.qty, order |-> look.order, mode |-> job.mode,
               reprices |-> look.reprices + job.bump]
    /\ trade' = [status |-> "exit_pending", order |-> job.sent, mode |-> job.mode]
    /\ Return
    /\ Outdates
    /\ UNCHANGED <<broker, fills, due, budget>>

\* The tracker entry and then the trade row take the new order id.
Track ==
    /\ pc = "track"
    /\ pos' = [qty |-> job.qty, order |-> job.sent, mode |-> job.mode,
               reprices |-> look.reprices + job.bump]
    /\ trade' = [status |-> "exit_pending", order |-> job.sent, mode |-> job.mode]
    /\ Return
    /\ Outdates
    /\ UNCHANGED <<broker, fills, due, budget>>

-----------------------------------------------------------------------------
(* Reconciliation, crash and restart                                       *)

WorkingLimits == {o \in OrderNumbers : orders[o].st = "working" /\ orders[o].limit}

\* _index_open_exit_orders keeps one working LIMIT sell per contract.
IndexedLimits == IF WorkingLimits = {} THEN {None} ELSE WorkingLimits

\* What reconcile_public_positions makes of a portfolio and a trade row.
Reconciled(qty, indexed, row) ==
    IF qty <= 0 THEN NoPosition
    ELSE [qty |-> qty,
          order |-> IF row.status = "exit_pending" /\ indexed # None THEN indexed
                    ELSE row.order,
          mode |-> IF row.status = "exit_pending" THEN row.mode ELSE NoMode,
          reprices |-> 0]

Pending(p) == p # NoPosition /\ (p.order # None \/ p.mode # NoMode)

\* _preserve_newer_pending_exit_state
Preserve(fetched, current) ==
    IF fetched # NoPosition /\ Pending(current) /\ ~Pending(fetched)
    THEN [current EXCEPT !.qty = fetched.qty]
    ELSE fetched

\* sync_lifecycle's row for the new tracker entry.
Synced(p) ==
    IF p = NoPosition THEN [trade EXCEPT !.status = "closed"]
    ELSE IF Pending(p) THEN [status |-> "exit_pending", order |-> p.order, mode |-> p.mode]
    ELSE IF trade.status = "exit_pending" THEN trade
    ELSE [status |-> "open", order |-> p.order, mode |-> p.mode]

FetchPortfolio ==
    /\ pc # "down" /\ snap = NoSnapshot
    /\ Spends
    /\ \E indexed \in IndexedLimits :
          snap' = [qty |-> held, indexed |-> indexed, row |-> trade, read |-> FALSE]
    /\ UNCHANGED <<broker, pos, pc, look, job, trade, fills, due>>

ReadTrades ==
    /\ pc # "down" /\ snap # NoSnapshot
    /\ ~snap.read
    /\ snap' = [snap EXCEPT !.row = trade, !.read = TRUE]
    /\ UNCHANGED <<broker, pos, pc, look, job, trade, fills, due, budget>>

\* replace_positions and sync_lifecycle.
CommitSnapshot ==
    /\ pc # "down" /\ snap # NoSnapshot
    /\ snap.read
    /\ LET p == Preserve(Reconciled(snap.qty, snap.indexed, snap.row), pos)
       IN pos' = p /\ trade' = Synced(p)
    /\ snap' = NoSnapshot
    /\ UNCHANGED <<broker, pc, look, job, fills, due, budget>>

\* The process dies; an order accepted but not yet written down is lost.
Crash ==
    /\ pc # "down"
    /\ job.sent = None \/ "lost" \in Unusual
    /\ Spends
    /\ pc' = "down"
    /\ pos' = NoPosition
    /\ look' = NoPosition
    /\ job' = NoJob
    /\ snap' = NoSnapshot
    /\ UNCHANGED <<broker, trade, fills, due>>

\* The reconciliation that every start begins with.
Restart ==
    /\ pc = "down"
    /\ pc' = "idle"
    /\ \E indexed \in IndexedLimits :
          LET p == Reconciled(held, indexed, trade)
          IN pos' = p /\ trade' = Synced(p)
    /\ UNCHANGED <<broker, look, job, snap, fills, due, budget>>

-----------------------------------------------------------------------------
Poller ==
    \/ BeginPoll \/ StatusUnavailable \/ PollFindsFill \/ PollFindsNoOrder
    \/ PollFindsDead \/ PollFindsWorking \/ RequestCancel \/ CancelReadback
    \/ MarketFallback \/ NoQuoteWaits \/ Track
    \/ \E limit \in BOOLEAN, outcome \in Outcomes : Place(limit, outcome)

Market == \E o \in OrderNumbers : Fill(o) \/ Dies(o)

Next ==
    \/ Poller \/ Market \/ TimePasses
    \/ \E mode \in Modes : StartExit(mode)
    \/ FetchPortfolio \/ ReadTrades \/ CommitSnapshot \/ Crash \/ Restart

\* The poll loop, reconciliation and restarts go on, time passes; the broker
\* eventually fills a MARKET order and carries out an accepted cancel.  A LIMIT order
\* may rest for ever.
Spec ==
    /\ Init /\ [][Next]_vars
    /\ WF_vars(Poller) /\ WF_vars(Restart) /\ WF_vars(ReadTrades \/ CommitSnapshot)
    /\ WF_vars(TimePasses)
    /\ \A o \in OrderNumbers :
          /\ WF_vars(~orders[o].limit /\ Fill(o))
          /\ WF_vars(orders[o].cxl /\ Dies(o))

-----------------------------------------------------------------------------
(* Properties                                                              *)

TypeOK ==
    /\ orders \in [OrderNumbers -> Order]
    /\ held \in Int
    /\ pos \in Position \cup {NoPosition}
    /\ trade \in Row
    /\ legs \subseteq OrderNumbers /\ booked \in Nat
    /\ pc \in {"idle", "poll", "readback", "place", "track", "down"}
    /\ look \in Position \cup {NoPosition}
    /\ job \in Job
    /\ snap \in Snapshot \cup {NoSnapshot}
    /\ due \in BOOLEAN
    /\ budget \in 0..Budget

\* Contracts the account could still sell with the orders now working.
Exposure == Sum([o \in OrderNumbers |-> Remaining(o)], OrderNumbers)

Oversold == held < Exposure

\* The exit machinery never has more contracts for sale than the account
\* holds: "so the resubmit can never oversell" (the docstring of
\* _resolve_exit_cancel_for_reprice).  It holds when Unusual is empty, however
\* fills race cancels, orders die part filled, submissions are refused, reads
\* fail, quotes are missing and the process restarts; each of UnusualEvents
\* breaks it.
NeverOversold == ~Oversold

\* The guard of close_due_positions and the snapshot merge exist so that a
\* live sell is never forgotten: every working order is the one the tracker (or the coroutine about to update it) names.
WorkingSellIsKnown ==
    pc # "down" =>
        \A o \in OrderNumbers : orders[o].st = "working" =>
            \/ pc = "track" /\ job.sent = o
            \/ pos # NoPosition /\ pos.order = o

\* _finalize_pending_exit_fill and the disappeared-position close tell the
\* truth: once no exit step is in flight, a closed trade holds nothing, and
\* its recorded partial legs and its final order account for every contract
\* exactly once.
ClosedAccountsForEveryFill ==
    trade.status = "closed" /\ pos = NoPosition /\ pc = "idle" =>
        /\ held = 0
        /\ trade.order # None
        /\ booked + orders[trade.order].filled = Quantity

Unreadable == \E o \in OrderNumbers : orders[o].odd

\* An emergency exit gets flat, whatever it meets on the way, unless an order
\* dies with a filledQuantity nobody can read (the poll then waits), or more
\* orders are live than the model has room for.
EmergencyGetsFlat ==
    trade.status = "exit_pending" /\ trade.mode = "EMERGENCY" ~>
        (held <= 0 \/ Unreadable \/ Free = {})

=============================================================================
