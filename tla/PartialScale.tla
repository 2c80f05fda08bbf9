---------------------------- MODULE PartialScale ----------------------------
(***************************************************************************)
(* The broker side of the profile ladder's first target on one live        *)
(* position of several contracts: bank a partial (cancel the full-size     *)
(* stop, sell, prove the exact fill, re-arm the residual), move the stop   *)
(* to breakeven, quarantine what cannot be proved, and recover both        *)
(* actions from their durable intents after a crash.                       *)
(*                                                                         *)
(* manage_open_position and the reprotection sweep run one at a time under *)
(* the symbol lock; a step ends at an await of the broker or of SQLite     *)
(* where a crash or a broker event makes a difference.  Not here: row      *)
(* versions and the unlocked syncer (DurableExitState), ratchets           *)
(* (StopRatchet), full exits (PendingExit), reconciliation passes that     *)
(* span other steps (PendingExit, EntryLifecycle), unparsable quantities.  *)
(***************************************************************************)
EXTENDS ExitStateStore, Integers, Sequences, FiniteSets, Sums

CONSTANTS Quantity,    \* seed_quantity
          InitStops,   \* stop prices the trade may have been ratcheted to before
          MaxIntents,  \* bound: actions ever prepared
          MaxStops,    \* bound: stops with a fresh uuid that are told apart
          Budget,      \* bound: refusals, lost answers, failed reads, own deaths, crashes
          NoPosition, NoLadder

Base == 1                          \* stop_loss_pct below the entry
Entry == 2                         \* breakeven
Levels == {Base, Entry} \cup InitStops
ActionIds == {"partial_scale", "stop_to_breakeven"} \X (1..MaxIntents)
SellIds == ActionIds \cup ({"stop"} \X (1..MaxStops))

ASSUME BoundsAssumption == {Quantity, MaxIntents, MaxStops, Budget} \subseteq Nat
                           /\ Quantity > 1 /\ MaxStops > 0
ASSUME StopsAssumption == InitStops \subseteq Nat \ {0} /\ InitStops # {}
ASSUME IdsAssumption == SellIds \subseteq OrderIds

VARIABLES orders,   \* the broker's SELL orders by client order id
          held,     \* contracts the account holds
          pos,      \* the tracker's entry: quantity, resting stop, its price
          intents,  \* exit_action_intents of the trade, oldest first
          row,      \* banked_quantity, breakeven_emitted, committed_stop_price
          legs,     \* trade_partial_fills: contracts recorded per partial
          ladder,   \* _profile_exit_states: T1 banked, breakeven armed / emitted
          at,       \* where the handler is
          mode,     \* "hydrate" and "retain" recover, "live" acts
          upd,      \* the handler's own copy of the position
          prior,    \* prior_stop_price
          budget    \* what is left of Budget

broker == <<orders, held>>
durable == <<intents, row, legs>>
handler == <<at, mode, upd, prior>>
vars == <<broker, pos, durable, ladder, handler, budget>>

Places == {"idle", "lookup", "bank", "committed", "settle", "retain", "retaining", "decide",
           "protect", "resizing", "arm", "evaluate", "cancel", "canceling", "post", "repost",
           "rearm", "bind", "readback", "quarantine", "quarantining", "leg", "residual",
           "residual2", "commit"}

Order == [st : {"none", "working", "filled", "dead"}, qty : 0..Quantity,
          filled : 0..Quantity, px : {0} \cup Levels, cxl : BOOLEAN, acked : BOOLEAN]
Tracked == [qty : 1..Quantity, stop : SellIds \cup {NoOrder}, px : {0} \cup Levels]
Action == [kind : {"partial_scale", "stop_to_breakeven"}, qty : 0..Quantity,
           status : OpenStatuses \cup TerminalStatuses, proof : {"live", "readback"}]
Ladder == [t1 : BOOLEAN, armed : BOOLEAN, emitted : BOOLEAN]

ASSUME SentinelsAssumption ==
    NoPosition \notin Tracked /\ NoIntent \notin Action /\ NoLadder \notin Ladder

Absent == [st |-> "none", qty |-> 0, filled |-> 0, px |-> 0, cxl |-> FALSE, acked |-> TRUE]
Resting(q, px, acked) ==
    [Absent EXCEPT !.st = "working", !.qty = q, !.px = px, !.acked = acked]
WithStop(p, o, px) == [p EXCEPT !.stop = o, !.px = px]
Naked(p) == WithStop(p, NoOrder, 0)
FreshLadder == [t1 |-> FALSE, armed |-> FALSE, emitted |-> FALSE]

\* The entry is filled and protected, policy and row are frozen.
Init ==
    /\ row \in [banked : {0}, be : {FALSE}, stop : InitStops]
    /\ orders = [o \in SellIds |-> IF o = <<"stop", 1>> THEN Resting(Quantity, row.stop, TRUE)
                                                        ELSE Absent]
    /\ held = Quantity
    /\ pos = [qty |-> Quantity, stop |-> <<"stop", 1>>, px |-> row.stop]
    /\ intents = <<>>
    /\ legs = [n \in 1..MaxIntents |-> 0]
    /\ ladder = NoLadder
    /\ at = "idle"
    /\ mode = "hydrate"
    /\ upd = NoPosition
    /\ prior = 0
    /\ budget = Budget

Spends == budget > 0 /\ budget' = budget - 1

-----------------------------------------------------------------------------
(* The broker                                                              *)

Working == {o \in SellIds : orders[o].st = "working"}
WorkingStops == {o \in Working : o[1] # "partial_scale"}
Remaining(o) == orders[o].qty - orders[o].filled

\* Orders fill one contract at a time.  (What becomes of an account that is
\* flat is not followed any further.)
Fill(o) ==
    /\ orders[o].st = "working" /\ held > 0
    /\ held' = held - 1
    /\ orders' = [orders EXCEPT ![o].filled = @ + 1,
                                ![o].st = IF Remaining(o) = 1 THEN "filled" ELSE @,
                                ![o].cxl = @ /\ Remaining(o) > 1]
    /\ UNCHANGED <<pos, durable, ladder, handler, budget>>

\* A requested cancel takes effect, or the order is rejected or expires.
Dies(o) ==
    /\ orders[o].st = "working"
    /\ IF orders[o].cxl THEN UNCHANGED budget ELSE Spends
    /\ orders' = [orders EXCEPT ![o].st = "dead", ![o].cxl = FALSE]
    /\ UNCHANGED <<held, pos, durable, ladder, handler>>

\* get_order_status: 404 for an order the broker does not know; a read of a
\* known one may fail or time out, or find it not indexed yet.
StatusRead(o, ok) ==
    \/ ok = (orders[o].st # "none") /\ UNCHANGED budget
    \/ ~ok /\ orders[o].st # "none" /\ Spends

Terminal(o) == orders[o].st \in {"filled", "dead"}

\* The DELETE of cancel_order reaches the broker.
CancelRequested(o) == orders' = [orders EXCEPT ![o].cxl = @ \/ orders[o].st = "working"]

\* What cancel_order returns after its readback: dead and unfilled, or not.
CancelConfirmed(o, canceled) ==
    LET deadUnfilled == orders[o].st = "dead" /\ orders[o].filled = 0
    IN \/ canceled = deadUnfilled /\ UNCHANGED budget
       \/ ~canceled /\ deadUnfilled /\ Spends

Outcomes == {"ack", "refused", "lost"}

\* _submit of a SELL: accepted, refused (or lost on the way), or accepted
\* with the answer lost, which for a SELL also returns no order id.  An id
\* the broker already knows creates no second order.
Submit(o, q, px, outcome) ==
    /\ IF outcome = "ack" THEN UNCHANGED budget ELSE Spends
    /\ orders' = IF outcome # "refused" /\ orders[o].st = "none"
                 THEN [orders EXCEPT ![o] = Resting(q, px, outcome = "ack")]
                 ELSE orders

\* place_stop_loss_order under a fresh uuid; the number of an answered stop
\* that is over and that nothing names any more is as good as fresh.
Named == {p.stop : p \in {pos, upd} \ {NoPosition}}
FreshStops == {i \in 1..MaxStops : LET o == <<"stop", i>>
                                   IN \/ orders[o].st = "none"
                                      \/ Terminal(o) /\ orders[o].acked /\ o \notin Named}
FreshStop == <<"stop", Min(FreshStops)>>
PlaceStop(q, px, outcome) ==
    /\ FreshStops # {}
    /\ IF outcome = "ack" THEN UNCHANGED budget ELSE Spends
    /\ orders' = IF outcome = "refused" THEN orders
                 ELSE [orders EXCEPT ![FreshStop] = Resting(q, px, outcome = "ack")]

-----------------------------------------------------------------------------
(* Intents, row and ladder                                                 *)

intent == IF intents = <<>> THEN NoIntent ELSE intents[Len(intents)]
ActionOrder == <<intent.kind, Len(intents)>>
IsPartial == intent.kind = "partial_scale"

Bound == intents' = [intents EXCEPT ![Len(intents)].status = "submitted"]
Resolved(status, proof) ==
    intents' = [intents EXCEPT ![Len(intents)] = [WithResolution(@, status) EXCEPT !.proof = proof]]
Prepared(kind, q) ==
    /\ Len(intents) < MaxIntents
    /\ intents' = Append(intents, [kind |-> kind, qty |-> q, status |-> "prepared",
                                   proof |-> "live"])

\* Mutant of Unexplained: a proved partial is taken to have reached the tracker.
Unexplained_Trusting(q) == FALSE

\* quantity_refresh_pending / position_quantity_not_reconciled_to_proved_partial
Unexplained(q) == row.banked > 0 /\ q # Quantity - row.banked

\* The row of _apply_replacement_stop and of its recovery; a committed stop
\* above breakeven makes transition_runtime_state raise.
BreakevenAccepted == Entry >= row.stop
BreakevenRow == [row EXCEPT !.stop = Entry, !.be = TRUE]

\* Mutant of RolledBack: the evaluator's mark on target 1 stays.
RolledBack_Kept == ladder

\* _rollback_unconfirmed_target_1, _rollback_unconfirmed_breakeven
RolledBack == IF ladder = NoLadder THEN NoLadder
              ELSE IF IsPartial THEN FreshLadder
              ELSE [ladder EXCEPT !.emitted = FALSE]

\* The live handler gives its action up.
Fails == Resolved("failed", "live") /\ ladder' = RolledBack

-----------------------------------------------------------------------------
(* Hydration and recovery                                                  *)

Goto(where) == at' = where /\ UNCHANGED <<mode, upd, prior>>

Returns ==
    /\ at' = "idle"
    /\ mode' = "hydrate"
    /\ upd' = NoPosition
    /\ prior' = 0

\* manage_open_position under the symbol lock.
Begin ==
    /\ at = "idle" /\ pos # NoPosition
    /\ at' = IF IsOpen(intent) THEN "lookup" ELSE "settle"
    /\ upd' = pos
    /\ UNCHANGED <<broker, pos, durable, ladder, mode, prior, budget>>

AfterLookup == IF mode = "retain" THEN "decide" ELSE "settle"

LookupFails ==
    /\ at = "lookup"
    /\ StatusRead(ActionOrder, FALSE)
    /\ Goto(AfterLookup)
    /\ UNCHANGED <<broker, pos, durable, ladder>>

\* Mutant of LookupPartial: a cancelled order is taken for an unfilled one.
LookupPartial_DeadIsZero ==
    /\ at = "lookup" /\ IsPartial
    /\ StatusRead(ActionOrder, TRUE)
    /\ LET o == orders[ActionOrder]
       IN CASE o.st = "filled" ->
                   /\ Bound
                   /\ legs' = [legs EXCEPT ![Len(intents)] = o.filled]
                   /\ Goto("bank")
            [] o.st = "dead" ->
                   Resolved("failed", "readback") /\ Goto(AfterLookup) /\ UNCHANGED legs
            [] OTHER -> Bound /\ Goto(AfterLookup) /\ UNCHANGED legs
    /\ UNCHANGED <<broker, pos, row, ladder>>

\* Mutant of LookupPartial: what was sold is banked without a leg.
LookupPartial_NoLeg ==
    /\ at = "lookup" /\ IsPartial
    /\ StatusRead(ActionOrder, TRUE)
    /\ LET o == orders[ActionOrder]
       IN CASE Terminal(ActionOrder) /\ o.filled > 0 -> Bound /\ Goto("bank")
            [] o.st = "dead" /\ o.filled = 0 -> Resolved("failed", "readback") /\ Goto(AfterLookup)
            [] OTHER -> Bound /\ Goto(AfterLookup)
    /\ UNCHANGED <<broker, pos, row, legs, ladder>>

\* _reconcile_open_profile_intents of a partial: sold contracts are recorded
\* as a leg and then banked, an order dead without any is failed (and the
\* ladder keeps what it believes), a working one stays open.
LookupPartial ==
    /\ at = "lookup" /\ IsPartial
    /\ StatusRead(ActionOrder, TRUE)
    /\ LET o == orders[ActionOrder]
       IN CASE Terminal(ActionOrder) /\ o.filled > 0 ->
                   /\ Bound
                   /\ legs' = [legs EXCEPT ![Len(intents)] = o.filled]
                   /\ Goto("bank")
            [] o.st = "dead" /\ o.filled = 0 ->
                   Resolved("failed", "readback") /\ Goto(AfterLookup) /\ UNCHANGED legs
            [] OTHER -> Bound /\ Goto(AfterLookup) /\ UNCHANGED legs
    /\ UNCHANGED <<broker, pos, row, ladder>>

\* The same of a breakeven stop: proved when it works for exactly the tracked
\* quantity, failed when it is dead, and left open otherwise.
LookupBreakeven ==
    /\ at = "lookup" /\ ~IsPartial
    /\ StatusRead(ActionOrder, TRUE)
    /\ CASE orders[ActionOrder].st = "working" /\ Remaining(ActionOrder) = upd.qty ->
                /\ Bound
                /\ IF BreakevenAccepted THEN row' = BreakevenRow /\ Goto("committed")
                                        ELSE Returns /\ UNCHANGED row
         [] orders[ActionOrder].st = "dead" ->
                Resolved("failed", "readback") /\ Goto(AfterLookup) /\ UNCHANGED row
         [] OTHER -> Bound /\ Goto(AfterLookup) /\ UNCHANGED row
    /\ UNCHANGED <<broker, pos, legs, ladder>>

\* _confirm_partial_action_intent: the row first, the intent second.
Bank ==
    /\ at = "bank"
    /\ row' = [row EXCEPT !.banked = Max({@, orders[ActionOrder].filled})]
    /\ Goto("committed")
    /\ UNCHANGED <<broker, pos, intents, legs, ladder, budget>>

\* The intent is confirmed.  Live, a partial goes on to its leg and the
\* breakeven stop becomes the tracked one; recovery leaves the tracker alone.
Confirm ==
    /\ at = "committed"
    /\ Resolved("confirmed", IF mode = "live" THEN "live" ELSE "readback")
    /\ IF mode = "live" /\ ~IsPartial
       THEN pos' = WithStop(upd, ActionOrder, Entry) /\ Returns
       ELSE /\ Goto(IF mode = "live" THEN "leg" ELSE AfterLookup)
            /\ UNCHANGED pos
    /\ UNCHANGED <<broker, row, legs, ladder, budget>>

\* Mutant of Settle: a validated trade is taken to be protected.
Settle_Unprotected ==
    /\ at = "settle"
    /\ LET degraded == IsOpen(intent) \/ Unexplained(upd.qty)
       IN /\ ladder' = IF ladder # NoLadder THEN ladder
                       ELSE IF degraded THEN FreshLadder
                       ELSE [t1 |-> row.banked > 0, armed |-> row.be, emitted |-> row.be]
          /\ IF pos = NoPosition THEN Returns
             ELSE /\ at' = IF degraded THEN "retain" ELSE "evaluate"
                  /\ upd' = pos
                  /\ UNCHANGED <<mode, prior>>
    /\ UNCHANGED <<broker, pos, durable, budget>>

\* The end of _hydrate_frozen_profile_state.  A degraded trade without ladder
\* gets a new one, a validated one takes it from the row; either way an
\* existing ladder is kept.  Then the tracker is read again.
Settle ==
    /\ at = "settle"
    /\ LET degraded == IsOpen(intent) \/ Unexplained(upd.qty)
       IN /\ ladder' = IF ladder # NoLadder THEN ladder
                       ELSE IF degraded THEN FreshLadder
                       ELSE [t1 |-> row.banked > 0, armed |-> row.be, emitted |-> row.be]
          /\ IF pos = NoPosition THEN Returns
             ELSE /\ at' = IF degraded THEN "retain"
                           ELSE IF pos.stop = NoOrder THEN "protect" ELSE "evaluate"
                  /\ upd' = pos
                  /\ UNCHANGED <<mode, prior>>
    /\ UNCHANGED <<broker, pos, durable, budget>>

-----------------------------------------------------------------------------
(* _retain_or_restore_degraded_protection                                  *)

\* Mutant of Retain: a partial found working is waited for, not cancelled.
Retain_Waits ==
    /\ at = "retain"
    /\ IF upd.stop # NoOrder THEN Returns ELSE Goto("decide")
    /\ UNCHANGED <<broker, pos, durable, ladder, budget>>

\* A tracked stop is kept; without one an open partial is cancelled first.
Retain ==
    /\ at = "retain"
    /\ IF upd.stop # NoOrder THEN Returns /\ UNCHANGED orders
       ELSE IF IsOpen(intent) /\ IsPartial
       THEN CancelRequested(ActionOrder) /\ Goto("retaining")
       ELSE Goto("decide") /\ UNCHANGED orders
    /\ UNCHANGED <<held, pos, durable, ladder, budget>>

RetainReadback(canceled) ==
    /\ at = "retaining"
    /\ CancelConfirmed(ActionOrder, canceled)
    /\ IF canceled THEN Fails ELSE UNCHANGED <<intents, ladder>>
    /\ at' = IF canceled THEN "decide" ELSE "lookup"
    /\ mode' = "retain"
    /\ UNCHANGED <<broker, pos, row, legs, upd, prior>>

\* Deferred while an action is open or the quantity is not explained.
Defer ==
    /\ at = "decide"
    /\ IsOpen(intent) \/ Unexplained(upd.qty)
    /\ Returns
    /\ UNCHANGED <<broker, pos, durable, ladder, budget>>

\* Otherwise a stop for the whole quantity at the last proved price.
Restore(outcome) ==
    /\ at = "decide"
    /\ ~IsOpen(intent) /\ ~Unexplained(upd.qty)
    /\ LET px == IF upd.px # 0 THEN upd.px ELSE row.stop
       IN /\ PlaceStop(upd.qty, px, outcome)
          /\ pos' = IF outcome = "ack" THEN WithStop(upd, FreshStop, px) ELSE pos
    /\ Returns
    /\ UNCHANGED <<held, durable, ladder>>

-----------------------------------------------------------------------------
(* _restore_missing_protection                                             *)

\* A resting stop of the right size is adopted, another one cancelled.
FindsProtection(o) ==
    /\ at = "protect" /\ o \in WorkingStops
    /\ upd' = WithStop(upd, o, orders[o].px)
    /\ IF Remaining(o) = upd.qty
       THEN at' = "evaluate" /\ pos' = upd' /\ UNCHANGED orders
       ELSE at' = "resizing" /\ CancelRequested(o) /\ UNCHANGED pos
    /\ UNCHANGED <<held, durable, ladder, mode, prior, budget>>

\* Without proof that it is dead it is adopted all the same.
ResizeReadback(canceled) ==
    /\ at = "resizing"
    /\ CancelConfirmed(upd.stop, canceled)
    /\ at' = IF canceled THEN "arm" ELSE "evaluate"
    /\ upd' = IF canceled THEN Naked(upd) ELSE upd
    /\ pos' = IF canceled THEN pos ELSE upd
    /\ UNCHANGED <<broker, durable, ladder, mode, prior>>

\* The portfolio shows no resting stop, or it could not be fetched.
FindsNone ==
    /\ at = "protect"
    /\ IF WorkingStops = {} THEN UNCHANGED budget ELSE Spends
    /\ Goto("arm")
    /\ UNCHANGED <<broker, pos, durable, ladder>>

\* _arm_position_protection; the manager goes on whatever the answer.
Arm(outcome) ==
    /\ at = "arm"
    /\ PlaceStop(upd.qty, Base, outcome)
    /\ upd' = IF outcome = "ack" THEN WithStop(upd, FreshStop, Base) ELSE upd
    /\ pos' = upd'
    /\ at' = "evaluate"
    /\ UNCHANGED <<held, durable, ladder, mode, prior>>

-----------------------------------------------------------------------------
(* The ladder decides                                                      *)

Starts ==
    /\ mode' = "live"
    /\ prior' = upd.px
    /\ at' = IF upd.stop = NoOrder THEN "post" ELSE "cancel"
    /\ UNCHANGED upd

\* No rung fires, or the second hydration degrades the trade.
Hold ==
    /\ at = "evaluate"
    /\ Returns
    /\ UNCHANGED <<broker, pos, durable, ladder, budget>>

\* Mutant of Target1: the partial may be the whole position.
Target1_Whole(q) ==
    /\ at = "evaluate" /\ ~Unexplained(upd.qty)
    /\ ~ladder.t1
    /\ q <= upd.qty
    /\ ladder' = [ladder EXCEPT !.t1 = TRUE, !.armed = TRUE]
    /\ Prepared("partial_scale", q)
    /\ Starts
    /\ UNCHANGED <<broker, pos, row, legs, budget>>

\* Target 1: the evaluator has marked the ladder before anything is sold, and
\* _resolve_exit_quantity leaves at least one contract.
Target1(q) ==
    /\ at = "evaluate" /\ ~Unexplained(upd.qty)
    /\ ~ladder.t1
    /\ q < upd.qty
    /\ ladder' = [ladder EXCEPT !.t1 = TRUE, !.armed = TRUE]
    /\ Prepared("partial_scale", q)
    /\ Starts
    /\ UNCHANGED <<broker, pos, row, legs, budget>>

\* Breakeven: emitted once; nothing to do when the stop is at least as high.
StopToBreakeven ==
    /\ at = "evaluate" /\ ~Unexplained(upd.qty)
    /\ ladder.armed /\ ~ladder.emitted
    /\ ladder' = [ladder EXCEPT !.emitted = TRUE]
    /\ IF upd.px >= Entry THEN Returns /\ UNCHANGED intents
                          ELSE Prepared("stop_to_breakeven", 0) /\ Starts
    /\ UNCHANGED <<broker, pos, row, legs, budget>>

\* Both actions: the resting stop must be proved dead and unfilled.
RequestCancel ==
    /\ at = "cancel"
    /\ CancelRequested(upd.stop)
    /\ Goto("canceling")
    /\ UNCHANGED <<held, pos, durable, ladder, budget>>

CancelReadback(canceled) ==
    /\ at = "canceling"
    /\ CancelConfirmed(upd.stop, canceled)
    /\ IF canceled THEN /\ at' = "post"
                        /\ upd' = Naked(upd)
                        /\ UNCHANGED <<intents, ladder, mode, prior>>
                   ELSE Fails /\ Returns
    /\ UNCHANGED <<broker, pos, row, legs>>

-----------------------------------------------------------------------------
(* _handle_partial_scale_locked                                            *)

\* The intent key is the client order id.
PostPartial(outcome) ==
    /\ at = "post" /\ IsPartial
    /\ Submit(ActionOrder, intent.qty, 0, outcome)
    /\ IF outcome = "ack" THEN Goto("bind") /\ UNCHANGED <<intents, ladder>>
                          ELSE Fails /\ Goto("rearm")
    /\ UNCHANGED <<held, pos, row, legs>>

\* No order id: the full-size stop is put back at its old price.
Rearm(outcome) ==
    /\ at = "rearm"
    /\ IF prior = 0 THEN /\ outcome = "refused"
                         /\ pos' = Naked(upd)
                         /\ UNCHANGED <<orders, budget>>
       ELSE /\ PlaceStop(upd.qty, prior, outcome)
            /\ pos' = IF outcome = "ack" THEN WithStop(upd, FreshStop, prior) ELSE Naked(upd)
    /\ Returns
    /\ UNCHANGED <<held, durable, ladder>>

Bind ==
    /\ at = "bind"
    /\ Bound
    /\ Goto(IF IsPartial THEN "readback" ELSE "commit")
    /\ UNCHANGED <<broker, pos, row, legs, ladder, budget>>

\* _readback_exact_partial_fill
Readback(ok) ==
    /\ at = "readback"
    /\ StatusRead(ActionOrder, ok)
    /\ Goto(IF ok /\ Terminal(ActionOrder) /\ orders[ActionOrder].filled = intent.qty
            THEN "bank" ELSE "quarantine")
    /\ UNCHANGED <<broker, pos, durable, ladder>>

\* _quarantine_pending_partial_scale: the unproved order is cancelled; dead and
\* unfilled the protection comes back, otherwise the tracker forgets the stop
\* and the intent stays open.
Quarantine ==
    /\ at = "quarantine"
    /\ CancelRequested(ActionOrder)
    /\ Goto("quarantining")
    /\ UNCHANGED <<held, pos, durable, ladder, budget>>

QuarantineReadback(canceled) ==
    /\ at = "quarantining"
    /\ CancelConfirmed(ActionOrder, canceled)
    /\ IF canceled THEN /\ Fails
                        /\ at' = "decide"
                        /\ upd' = [Naked(upd) EXCEPT !.px = prior]
                        /\ UNCHANGED <<pos, mode, prior>>
                   ELSE /\ pos' = Naked(upd)
                        /\ Returns
                        /\ UNCHANGED <<intents, ladder>>
    /\ UNCHANGED <<broker, row, legs>>

\* record_partial_fill, after the intent is confirmed.
RecordLeg ==
    /\ at = "leg"
    /\ legs' = [legs EXCEPT ![Len(intents)] = orders[ActionOrder].filled]
    /\ Goto("residual")
    /\ UNCHANGED <<broker, pos, intents, row, ladder, budget>>

\* The residual's stop, tried twice, each time under a fresh uuid.
ResidualStop(outcome) ==
    /\ at \in {"residual", "residual2"}
    /\ LET rest == [upd EXCEPT !.qty = @ - intent.qty]
           px == IF prior # 0 THEN prior ELSE Base
       IN /\ PlaceStop(rest.qty, px, outcome)
          /\ IF outcome # "ack" /\ at = "residual" THEN Goto("residual2") /\ UNCHANGED pos
             ELSE /\ pos' = IF outcome = "ack" THEN WithStop(rest, FreshStop, px) ELSE Naked(rest)
                  /\ Returns
    /\ UNCHANGED <<held, durable, ladder>>

-----------------------------------------------------------------------------
(* _apply_replacement_stop                                                 *)

\* The new stop, tried twice under the intent key.
PostBreakeven(outcome) ==
    /\ at \in {"post", "repost"} /\ ~IsPartial
    /\ Submit(ActionOrder, upd.qty, Entry, outcome)
    /\ IF outcome = "ack" THEN Goto("bind") /\ UNCHANGED <<pos, intents, ladder>>
       ELSE IF at = "post" THEN Goto("repost") /\ UNCHANGED <<pos, intents, ladder>>
       ELSE Fails /\ pos' = Naked(upd) /\ Returns
    /\ UNCHANGED <<held, row, legs>>

\* The answer to the POST advances the row; a refused transition raises.
CommitBreakeven ==
    /\ at = "commit"
    /\ IF BreakevenAccepted THEN row' = BreakevenRow /\ Goto("committed")
                            ELSE Returns /\ UNCHANGED row
    /\ UNCHANGED <<broker, pos, intents, legs, ladder, budget>>

-----------------------------------------------------------------------------
(* Reconciliation and restart                                              *)

\* reconcile_public_positions: the account's quantity, and a resting STOP only
\* if its remaining quantity is that one.
Reconciled ==
    LET bare == [qty |-> held, stop |-> NoOrder, px |-> 0]
        fitting == {o \in WorkingStops : Remaining(o) = held}
    IN IF held = 0 THEN {NoPosition}
       ELSE {WithStop(bare, o, orders[o].px) : o \in fitting}
            \cup {p \in {bare} : WorkingStops = {} \/ WorkingStops # fitting}

Reconcile ==
    /\ pos' \in Reconciled
    /\ UNCHANGED <<broker, durable, ladder, handler, budget>>

\* The process dies; the next session starts with a reconciliation.
CrashRestart ==
    /\ Spends
    /\ Returns
    /\ ladder' = NoLadder
    /\ pos' \in Reconciled
    /\ UNCHANGED <<broker, durable>>

-----------------------------------------------------------------------------
Recover == Begin \/ LookupFails \/ LookupPartial \/ LookupBreakeven \/ Bank \/ Confirm
           \/ Settle \/ Retain \/ Defer
           \/ (\E canceled \in BOOLEAN : RetainReadback(canceled))
           \/ (\E outcome \in Outcomes : Restore(outcome))

Protect == FindsNone \/ (\E o \in SellIds : FindsProtection(o))
           \/ (\E canceled \in BOOLEAN : ResizeReadback(canceled))
           \/ (\E outcome \in Outcomes : Arm(outcome))

Act == \/ Hold \/ StopToBreakeven \/ \E q \in 1..Quantity : Target1(q)
       \/ RequestCancel \/ Bind \/ Quarantine \/ RecordLeg \/ CommitBreakeven
       \/ \E b \in BOOLEAN : CancelReadback(b) \/ Readback(b) \/ QuarantineReadback(b)
       \/ \E outcome \in Outcomes : PostPartial(outcome) \/ Rearm(outcome)
                                    \/ ResidualStop(outcome) \/ PostBreakeven(outcome)

CancelTakesEffect == \E o \in SellIds : orders[o].cxl /\ Dies(o)

Next ==
    \/ \E o \in SellIds : Fill(o) \/ Dies(o)
    \/ Recover \/ Protect \/ Act
    \/ Reconcile
    \/ CrashRestart

\* The manager runs on every bar and a started one goes on; the passes of
\* reconciliation never end; the broker carries out a cancel unless the order
\* fills first.
Spec == /\ Init /\ [][Next]_vars
        /\ WF_vars(Recover \/ Protect \/ Act)
        /\ WF_vars(Reconcile)
        /\ WF_vars(CancelTakesEffect)

-----------------------------------------------------------------------------
(* Properties                                                              *)

\* Every variable keeps its type.
TypeOK ==
    /\ orders \in [SellIds -> Order]
    /\ held \in 0..Quantity
    /\ pos \in Tracked \cup {NoPosition}
    /\ intents \in Seq(Action) /\ Len(intents) <= MaxIntents
    /\ row \in [banked : 0..Quantity, be : BOOLEAN, stop : Levels]
    /\ legs \in [1..MaxIntents -> 0..Quantity]
    /\ ladder \in Ladder \cup {NoLadder}
    /\ at \in Places
    /\ mode \in {"hydrate", "retain", "live"}
    /\ upd \in Tracked \cup {NoPosition}
    /\ prior \in {0} \cup Levels
    /\ budget \in 0..Budget

Answered == \A o \in SellIds : orders[o].acked

Partials == {i \in DOMAIN intents : intents[i].kind = "partial_scale"}
SoldBy(i) == orders[<<"partial_scale", i>>].filled
Sellers == {i \in Partials : SoldBy(i) > 0}
Sold == Sum([i \in Partials |-> SoldBy(i)], Partials)

OnePartial == Cardinality(Sellers) <= 1

\* With every answer received, target 1 sells one partial of a position and
\* never a second, whatever is restarted in between.
Target1BanksOnce == Answered => OnePartial

\* No stop that is over has sold a part of the position.
NoBrokenStop ==
    Quantity - held = Sold + Sum([o \in SellIds |-> orders[o].filled], WorkingStops)

\* The SELL orders at the broker never ask for more than the account holds:
\* not while the full-size stop's cancel races a fill, not when the partial
\* is proved, quarantined or recovered late, not across a crash.  The
\* exceptions: a SELL whose answer was lost, which _submit reports as not
\* placed; a second partial or a stop that died half filled, whose contracts
\* seed_quantity - banked_quantity does not know of.
NeverOversold ==
    Answered /\ OnePartial /\ NoBrokenStop =>
        Sum([o \in SellIds |-> Remaining(o)], Working) <= held

\* With every answer received and one partial that sold, the durable row has
\* banked exactly what the broker sold, as soon as no action is open: no fill
\* is lost or counted twice by proof, quarantine or recovery.  (The row keeps
\* the largest partial only, so a second one that sold is not in it.)
BankedIsSold == Answered /\ OnePartial /\ ~IsOpen(intent) => row.banked = Sold

Faultless == budget = Budget

\* A leg of the ledger is what its partial sold, and every confirmed partial
\* has one, the second of a trade included.  The exception: the live handler
\* confirms the intent before record_partial_fill, so until that step, and for
\* good if a crash comes first, a partial proved by its own readback has no
\* leg; one that recovery proves always has.
LegsAreSales ==
    \A i \in Partials :
        /\ legs[i] \in {0, SoldBy(i)}
        /\ intents[i].status = "confirmed" /\ legs[i] = 0 =>
              intents[i].proof = "live" /\ ((at = "leg" /\ i = Len(intents)) \/ ~Faultless)

\* The ladder believes in a banked target 1 only while the partial is open or
\* after it sold; the exception is a partial found dead and unfilled by
\* _reconcile_open_profile_intents, which rolls nothing back.
LadderBanked ==
    ladder # NoLadder /\ ladder.t1 /\ at = "idle" =>
        \/ row.banked > 0
        \/ IsOpen(intent)
        \/ \E i \in Partials : intents[i].status = "failed" /\ intents[i].proof = "readback"

Bare == held > 0 /\ Working = {}
Wedged == \/ at = "idle" /\ IsOpen(intent) /\ orders[ActionOrder].st = "none"
          \/ Unexplained(held)

\* A position without any SELL order gets one again, unless an action was cut
\* off before its order reached the broker or the quantity is not the one the
\* proved partial explains.
ProtectedAgain == Bare ~> (~Bare \/ Wedged)

\* An open action is resolved, unless the broker does not know its order, the
\* breakeven stop is below the committed one, or the account is flat.
IntentResolves ==
    IsOpen(intent) ~> \/ ~IsOpen(intent)
                      \/ orders[ActionOrder].st = "none"
                      \/ ~IsPartial /\ ~BreakevenAccepted
                      \/ held = 0
=============================================================================
