----------------------------- MODULE StopRatchet -----------------------------
(***************************************************************************)
(* The broker side of a protective-stop ratchet on one live contract:      *)
(* cancel the prior stop, prove it dead, place the replacement, read it    *)
(* back, commit it or restore the prior stop, and resume all of that by    *)
(* durable stage after a crash; the missing-protection pass that arms a    *)
(* stop when the tracker has none; and the forced flat, which must prove   *)
(* the handoff over before it sells.                                       *)
(*                                                                         *)
(* One handler runs at a time (the symbol's dispatcher worker); a step     *)
(* ends at an await of the broker or of SQLite, so the broker, the         *)
(* reconciliation pass and a crash come between any two.  The canary       *)
(* requires quantity 1, so an order is filled or it is not.  Versions of   *)
(* the row, the order binding and the degraded mark are DurableExitState's *)
(* subject; once the close order is placed PendingExit takes over.  A      *)
(* reconciliation pass is one step here: passes that span other steps are  *)
(* PendingExit's subject too.                                              *)
(***************************************************************************)
EXTENDS ExitStateStore, Integers, FiniteSets, FiniteSetsExt

CONSTANTS MaxRatchets,  \* bound: handoffs ever prepared
          MaxLevel,     \* bound: highest stop level
          Arms,         \* bound: stops placed outside a handoff that are told apart
          Budget,       \* bound: refusals, lost answers, failed reads, own deaths, crashes
          NoPosition

\* Client order ids: the intent key, the uuid5 derived from it for the
\* restore, fresh uuids for the rest.
SellIds == ({"replacement", "restore"} \X (1..MaxRatchets))
           \cup ({"armed"} \X (1..Arms)) \cup {<<"close", 1>>}

ASSUME BoundsAssumption == /\ {MaxRatchets, MaxLevel, Arms, Budget} \subseteq Nat
                           /\ Arms > 0 /\ MaxLevel > 0
ASSUME IdsAssumption == SellIds \subseteq OrderIds

VARIABLES orders,   \* the broker's SELL orders by client order id
          held,     \* contracts the account holds
          pos,      \* the tracker's entry: resting stop, its price, exit pending
          intent,   \* the newest stop_ratchet intent
          row,      \* committed_stop_price
          latched,  \* the deployment's rollback latch (SQLite)
          at,       \* where the handler is
          who,      \* "manage" or "flat"
          rec,      \* the handler is inside _reconcile_stop_ratchet_intent
          upd,      \* the handler's own copy of the position
          budget    \* what is left of Budget

broker == <<orders, held>>
durable == <<intent, row, latched>>
handler == <<at, who, rec, upd>>
vars == <<broker, pos, durable, handler, budget>>

Levels == 1..MaxLevel
Base == 1                         \* the entry's stop_loss_pct
Places == {"idle", "ratchet", "changed", "find", "prior", "cancel", "canceling", "pending",
           "submit", "placed", "classify", "committed", "adopted", "restore", "restored",
           "proof", "persist", "resume", "protect", "releasing", "close"}

Order == [st : {"none", "working", "filled", "dead"}, cxl : BOOLEAN,
          null : BOOLEAN, acked : BOOLEAN, px : 0..MaxLevel]
Tracked == [stop : SellIds \cup {NoOrder}, px : 0..MaxLevel, exit : BOOLEAN]
Ratchet == [n : 1..MaxRatchets, prior : SellIds, priorStop : Levels, stop : Levels,
            stage : Stages, status : OpenStatuses \cup TerminalStatuses,
            restore : SellIds \cup {NoOrder}]

ASSUME SentinelsAssumption == NoIntent \notin Ratchet /\ NoPosition \notin Tracked

Absent == [st |-> "none", cxl |-> FALSE, null |-> FALSE, acked |-> FALSE, px |-> 0]
Resting(px, acked) == [st |-> "working", cxl |-> FALSE, null |-> FALSE, acked |-> acked, px |-> px]
WithStop(p, o, px) == [p EXCEPT !.stop = o, !.px = px]
Naked(p) == WithStop(p, NoOrder, 0)

Init ==
    /\ orders = [o \in SellIds |-> IF o = <<"armed", 1>> THEN Resting(Base, TRUE) ELSE Absent]
    /\ held = 1
    /\ pos = [stop |-> <<"armed", 1>>, px |-> Base, exit |-> FALSE]
    /\ intent = NoIntent
    /\ row = Base
    /\ latched = FALSE
    /\ at = "idle"
    /\ who = "manage"
    /\ rec = FALSE
    /\ upd = NoPosition
    /\ budget = Budget

Spends == budget > 0 /\ budget' = budget - 1

-----------------------------------------------------------------------------
(* The broker                                                              *)

WorkingSells == {o \in SellIds : orders[o].st = "working"}
WorkingStops == {o \in WorkingSells : o[1] # "close"}

Fill(o) ==
    /\ orders[o].st = "working"
    /\ held' = held - 1
    /\ orders' = [orders EXCEPT ![o].st = "filled", ![o].cxl = FALSE]
    /\ UNCHANGED <<pos, durable, handler, budget>>

\* A requested cancel takes effect, or the order is rejected or expires.  The
\* filledQuantity of a dead order may be missing instead of 0.
Dies(o) ==
    /\ orders[o].st = "working"
    /\ IF orders[o].cxl THEN UNCHANGED budget ELSE Spends
    /\ \E null \in BOOLEAN :
          orders' = [orders EXCEPT ![o].st = "dead", ![o].cxl = FALSE, ![o].null = null]
    /\ UNCHANGED <<held, pos, durable, handler>>

\* What a status read that gets through says; 404 and a dead order without
\* filledQuantity say nothing.
Proved(o) ==
    CASE orders[o].st = "filled" -> "fill"
      [] orders[o].st = "working" -> "working"
      [] orders[o].st = "dead" /\ ~orders[o].null -> "dead_zero_fill"
      [] OTHER -> "ambiguous"

\* _classify_stop_readback; a failed or not yet indexed read spends budget.
Classify(o, outcome) ==
    \/ outcome = Proved(o) /\ UNCHANGED budget
    \/ outcome = "ambiguous" /\ Proved(o) # "ambiguous" /\ Spends

Readings == {"fill", "working", "dead_zero_fill", "ambiguous"}

\* What order_manager.cancel_order returns after its DELETE and readback.
\* public_order_confirmed_dead_unfilled takes a missing filledQuantity for 0.
CancelConfirmed(o, canceled) ==
    \/ canceled = (orders[o].st = "dead") /\ UNCHANGED budget
    \/ ~canceled /\ orders[o].st = "dead" /\ Spends

\* Mutant of CancelRequested: the order's status becomes PENDING_CANCEL, which
\* no reader here knows.
CancelRequested_NewStatus(o) == orders' = [orders EXCEPT ![o].st = "pending_cancel"]

\* The DELETE of cancel_order reaches the broker.
CancelRequested(o) == orders' = [orders EXCEPT ![o].cxl = @ \/ orders[o].st = "working"]

\* place_stop_loss_order / place_close_order under the client id o: accepted,
\* refused (or lost on the way), or accepted with the answer lost.  An id the
\* broker already knows creates no second order.  (acked only matters for the
\* stops of ArmsProtection, whose id nobody can derive again.)
Submit(o, px, outcome) ==
    /\ IF outcome = "ack" THEN UNCHANGED budget ELSE Spends
    /\ orders' = IF outcome # "refused" /\ orders[o].st = "none"
                 THEN [orders EXCEPT ![o] = Resting(px, TRUE)]
                 ELSE orders

Outcomes == {"ack", "refused", "lost"}

-----------------------------------------------------------------------------
(* The handler: where it starts and ends                                   *)

Goto(where) == at' = where /\ UNCHANGED <<who, rec, upd>>

Returns ==
    /\ at' = "idle"
    /\ who' = "manage"
    /\ rec' = FALSE
    /\ upd' = NoPosition

\* The step at which _reconcile_stop_ratchet_intent resumes a durable stage.
ResumeAt(stage) ==
    CASE stage \in {"prepared", "prior_stop_cancel_pending"} -> "prior"
      [] stage \in {"prior_stop_dead_zero_fill", "replacement_submit_pending"} -> "pending"
      [] stage = "replacement_submitted" -> "classify"
      [] stage = "restore_submit_pending" -> "restore"
      [] stage = "restore_submitted" -> "proof"

\* The start of manage_open_position (hydration) or of a forced flat that
\* finds the intent open.
BeginRecovery(w) ==
    /\ at = "idle" /\ pos # NoPosition
    /\ ~pos.exit /\ IsOpen(intent)
    /\ at' = ResumeAt(intent.stage)
    /\ who' = w
    /\ rec' = TRUE
    /\ upd' = pos
    /\ UNCHANGED <<broker, pos, durable, budget>>

\* Where a handler goes on that knows of no open intent.
FirstPlace(w, p) ==
    IF w = "flat" THEN "protect" ELSE IF p.stop = NoOrder THEN "find" ELSE "ratchet"

\* Mutant of BeginClean: a latched deployment is no longer managed.
BeginClean_LatchStopsAll(w) ==
    /\ at = "idle" /\ pos # NoPosition
    /\ ~pos.exit /\ ~IsOpen(intent)
    /\ w = "manage" => ~latched
    /\ at' = FirstPlace(w, pos)
    /\ who' = w
    /\ rec' = FALSE
    /\ upd' = pos
    /\ UNCHANGED <<broker, pos, durable, budget>>

\* No intent is open: the flat goes on to the protection, the manager to the
\* missing protection or to the ratchet.
BeginClean(w) ==
    /\ at = "idle" /\ pos # NoPosition
    /\ ~pos.exit /\ ~IsOpen(intent)
    /\ at' = FirstPlace(w, pos)
    /\ who' = w
    /\ rec' = FALSE
    /\ upd' = pos
    /\ UNCHANGED <<broker, pos, durable, budget>>

\* Recovery returned: the handler re-reads the tracker and the table.  An
\* intent still open blocks the flat and defers the missing protection.
AfterRecovery ==
    /\ at = "resume"
    /\ IF pos = NoPosition \/ IsOpen(intent) THEN Returns
       ELSE LET first == FirstPlace(who, pos)
            IN /\ at' = IF first = "ratchet" /\ pos # upd THEN "changed" ELSE first
               /\ upd' = pos
               /\ rec' = FALSE
               /\ UNCHANGED who
    /\ UNCHANGED <<broker, pos, durable, budget>>

\* manage_open_position ends: what it changed is persisted.
ManageEnds ==
    /\ at \in {"ratchet", "changed", "persist"}
    /\ pos' = IF at = "ratchet" THEN pos ELSE upd
    /\ Returns
    /\ UNCHANGED <<broker, durable, budget>>

-----------------------------------------------------------------------------
(* Missing protection                                                      *)

\* _restore_missing_protection found a resting stop in the portfolio and adopts it.
FindsProtection ==
    /\ at = "find"
    /\ \E o \in WorkingStops : upd' = WithStop(upd, o, orders[o].px)
    /\ at' = "changed"
    /\ UNCHANGED <<broker, pos, durable, who, rec, budget>>

\* Every stop has a fresh uuid; the number of a dead one that was answered for
\* and that nothing names any more is as good as fresh.
Named == {p.stop : p \in {pos, upd} \ {NoPosition}}
         \cup (IF intent = NoIntent THEN {} ELSE {intent.prior})
FreeArms == {i \in 1..Arms : LET o == <<"armed", i>>
                             IN \/ orders[o].st = "none"
                                \/ orders[o].st = "dead" /\ orders[o].acked /\ o \notin Named}

\* _arm_position_protection, at stop_loss_pct whatever the committed stop: the
\* portfolio shows no resting order, or it could not be fetched (which the
\* code takes for the same and costs budget here).
ArmsProtection(outcome) ==
    /\ at = "find"
    /\ FreeArms # {}
    /\ LET o == <<"armed", Min(FreeArms)>>
       IN /\ orders' = IF outcome = "refused" THEN orders
                       ELSE [orders EXCEPT ![o] = Resting(Base, outcome = "ack")]
          /\ IF outcome = "ack" THEN /\ upd' = WithStop(upd, o, Base)
                                     /\ at' = "changed"
                                     /\ UNCHANGED <<who, rec>>
                                ELSE Returns
    /\ IF outcome # "ack" \/ WorkingStops # {} THEN Spends ELSE UNCHANGED budget
    /\ UNCHANGED <<held, pos, durable>>

-----------------------------------------------------------------------------
(* The handoff, live (~rec) and recovered (rec)                            *)

Replacement == <<"replacement", intent.n>>
Staged(stage) == intent' = WithHandoff(intent, stage, NoOrder) /\ UNCHANGED <<row, latched>>
Resolved(status) == intent' = WithResolution(intent, status)

\* Live: the tracker forgets the stop it can no longer vouch for, and the
\* deployment is latched.  Recovery leaves everything as it is.
LeftUnproved ==
    IF rec THEN Goto("resume") /\ UNCHANGED latched
    ELSE /\ latched' = TRUE
         /\ at' = "persist"
         /\ upd' = Naked(upd)
         /\ UNCHANGED <<who, rec>>

\* An order of the handoff is filled: the intent is confirmed and
\* _finalize_pending_exit_fill closes the position.
FilledDuringHandoff ==
    /\ Resolved("confirmed")
    /\ pos' = NoPosition
    /\ IF rec THEN Goto("resume") ELSE Returns
    /\ UNCHANGED <<row, latched>>

\* _apply_live_safety_stack_ratchet down to prepare_action_intent: not latched,
\* the tracked stop is the committed one, and the new one is higher.
PrepareRatchet(l) ==
    /\ at \in {"ratchet", "changed"}
    /\ ~latched
    /\ upd.stop # NoOrder /\ row = upd.px
    /\ l > row
    /\ LET n == IF intent = NoIntent THEN 1 ELSE intent.n + 1
       IN /\ n <= MaxRatchets
          /\ intent' = [n |-> n, prior |-> upd.stop, priorStop |-> upd.px, stop |-> l,
                        stage |-> "prior_stop_cancel_pending", status |-> "prepared",
                        restore |-> NoOrder]
    /\ Goto("cancel")
    /\ UNCHANGED <<broker, pos, row, latched, budget>>

\* Recovery of the first stage reads the prior stop before it cancels it.
PriorReadback(outcome) ==
    /\ at = "prior"
    /\ Classify(intent.prior, outcome)
    /\ CASE outcome = "fill" -> FilledDuringHandoff
         [] outcome = "dead_zero_fill" ->
                Staged("prior_stop_dead_zero_fill") /\ Goto("pending") /\ UNCHANGED pos
         [] OTHER -> Goto("cancel") /\ UNCHANGED <<durable, pos>>
    /\ UNCHANGED broker

RequestCancel ==
    /\ at = "cancel"
    /\ CancelRequested(intent.prior)
    /\ Goto("canceling")
    /\ UNCHANGED <<held, pos, durable, budget>>

\* Mutant of CancelReadback: the DELETE's acknowledgement is proof enough.
CancelReadback_TrustsDelete(canceled) ==
    /\ at = "canceling"
    /\ canceled
    /\ Staged("prior_stop_dead_zero_fill")
    /\ Goto("pending")
    /\ UNCHANGED <<broker, pos, budget>>

CancelReadback(canceled) ==
    /\ at = "canceling"
    /\ CancelConfirmed(intent.prior, canceled)
    /\ IF canceled THEN Staged("prior_stop_dead_zero_fill") /\ Goto("pending")
       ELSE LeftUnproved /\ UNCHANGED <<intent, row>>
    /\ UNCHANGED <<broker, pos>>

SubmitPending ==
    /\ at = "pending"
    /\ Staged("replacement_submit_pending")
    /\ Goto("submit")
    /\ UNCHANGED <<broker, pos, budget>>

SubmitReplacement(outcome) ==
    /\ at = "submit"
    /\ Submit(Replacement, intent.stop, outcome)
    /\ Goto("placed")
    /\ UNCHANGED <<held, pos, durable>>

ReplacementPlaced ==
    /\ at = "placed"
    /\ Staged("replacement_submitted")
    /\ Goto("classify")
    /\ UNCHANGED <<broker, pos, budget>>

\* The replacement is classified: working commits the row, a fill closes the
\* position, dead starts the one restore, anything else is left unproved.
ReplacementReadback(outcome) ==
    /\ at = "classify"
    /\ Classify(Replacement, outcome)
    /\ CASE outcome = "working" ->
                row' = intent.stop /\ Goto("committed") /\ UNCHANGED <<pos, intent, latched>>
         [] outcome = "fill" -> FilledDuringHandoff
         [] outcome = "dead_zero_fill" ->
                /\ intent' = WithHandoff(intent, "restore_submit_pending", <<"restore", intent.n>>)
                /\ Goto("restore")
                /\ UNCHANGED <<pos, row, latched>>
         [] OTHER -> LeftUnproved /\ UNCHANGED <<pos, intent, row>>
    /\ UNCHANGED broker

\* Live: the intent is resolved, then the position persisted.  Recovery: the
\* stop is adopted first, then the intent resolved.
Adopted(o, px, status) ==
    IF rec THEN pos' = WithStop(upd, o, px) /\ Goto("adopted") /\ UNCHANGED intent
    ELSE /\ Resolved(status)
         /\ upd' = WithStop(upd, o, px)
         /\ at' = "persist"
         /\ UNCHANGED <<pos, who, rec>>

CommitReplacement ==
    /\ at = "committed"
    /\ Adopted(Replacement, intent.stop, "confirmed")
    /\ UNCHANGED <<broker, row, latched, budget>>

\* Recovery: the adopted stop's intent is resolved.
ResolveAdopted ==
    /\ at = "adopted"
    /\ Resolved(IF intent.stage = "restore_submitted" THEN "failed" ELSE "confirmed")
    /\ Goto("resume")
    /\ UNCHANGED <<broker, pos, row, latched, budget>>

SubmitRestore(outcome) ==
    /\ at = "restore"
    /\ Submit(intent.restore, intent.priorStop, outcome)
    /\ Goto("restored")
    /\ UNCHANGED <<held, pos, durable>>

RestorePlaced ==
    /\ at = "restored"
    /\ Staged("restore_submitted")
    /\ Goto("proof")
    /\ UNCHANGED <<broker, pos, budget>>

\* Mutant of RestoreReadback: a restore that cannot be read is given up as failed.
RestoreReadback_GivesUp(outcome) ==
    /\ at = "proof"
    /\ Classify(intent.restore, outcome)
    /\ CASE outcome = "working" ->
                Adopted(intent.restore, intent.priorStop, "failed") /\ UNCHANGED latched
         [] outcome = "fill" -> FilledDuringHandoff
         [] OTHER -> Resolved("failed") /\ LeftUnproved /\ UNCHANGED pos
    /\ UNCHANGED <<broker, row>>

RestoreReadback(outcome) ==
    /\ at = "proof"
    /\ Classify(intent.restore, outcome)
    /\ CASE outcome = "working" ->
                Adopted(intent.restore, intent.priorStop, "failed") /\ UNCHANGED latched
         [] outcome = "fill" -> FilledDuringHandoff
         [] outcome = "dead_zero_fill" -> Resolved("failed") /\ LeftUnproved /\ UNCHANGED pos
         [] OTHER -> LeftUnproved /\ UNCHANGED <<pos, intent>>
    /\ UNCHANGED <<broker, row>>

-----------------------------------------------------------------------------
(* Forced flat                                                             *)

\* _cancel_exit_protection with a resting stop: the DELETE, then the readback,
\* without which the sweep gives up until its next pass.
RequestRelease ==
    /\ at = "protect"
    /\ IF upd.stop = NoOrder THEN UNCHANGED orders /\ Goto("close")
       ELSE CancelRequested(upd.stop) /\ Goto("releasing")
    /\ UNCHANGED <<held, pos, durable, budget>>

ReleaseReadback(canceled) ==
    /\ at = "releasing"
    /\ CancelConfirmed(upd.stop, canceled)
    /\ IF canceled THEN /\ at' = "close"
                        /\ upd' = Naked(upd)
                        /\ UNCHANGED <<who, rec>>
                   ELSE Returns
    /\ UNCHANGED <<broker, pos, durable>>

\* _submit_exit_request: the position is under exit whatever the answer.
SubmitClose(outcome) ==
    /\ at = "close"
    /\ Submit(<<"close", 1>>, 0, outcome)
    /\ pos' = [upd EXCEPT !.exit = TRUE]
    /\ Returns
    /\ UNCHANGED <<held, durable>>

-----------------------------------------------------------------------------
(* Reconciliation and restart                                              *)

\* reconcile_public_positions: the account's holdings and open STOP orders are
\* the truth; a pending exit is kept.
ReconciledTo(p) ==
    IF held <= 0 THEN p = NoPosition
    ELSE /\ p # NoPosition
         /\ p.exit = (pos # NoPosition /\ pos.exit)
         /\ IF WorkingStops = {} THEN p = Naked(p)
            ELSE \E o \in WorkingStops : p = WithStop(p, o, orders[o].px)

Reconcile ==
    /\ pos' \in Tracked \cup {NoPosition} /\ ReconciledTo(pos')
    /\ UNCHANGED <<broker, durable, handler, budget>>

\* The process dies; the next session starts with a reconciliation.
CrashRestart ==
    /\ Spends
    /\ Returns
    /\ pos' \in Tracked \cup {NoPosition} /\ ReconciledTo(pos')
    /\ UNCHANGED <<broker, durable>>

-----------------------------------------------------------------------------
Handoff ==
    \/ \E l \in Levels : PrepareRatchet(l)
    \/ \E outcome \in Readings :
          PriorReadback(outcome) \/ ReplacementReadback(outcome) \/ RestoreReadback(outcome)
    \/ \E canceled \in BOOLEAN : CancelReadback(canceled)
    \/ \E outcome \in Outcomes : SubmitReplacement(outcome) \/ SubmitRestore(outcome)
    \/ RequestCancel \/ SubmitPending \/ ReplacementPlaced
    \/ CommitReplacement \/ ResolveAdopted \/ RestorePlaced

Manage == BeginRecovery("manage") \/ BeginClean("manage") \/ AfterRecovery \/ ManageEnds
          \/ FindsProtection \/ \E outcome \in Outcomes : ArmsProtection(outcome)

FlatStarts == BeginRecovery("flat") \/ BeginClean("flat")

Flat == RequestRelease
        \/ (\E canceled \in BOOLEAN : ReleaseReadback(canceled))
        \/ (\E outcome \in Outcomes : SubmitClose(outcome))

CancelTakesEffect == \E o \in SellIds : orders[o].cxl /\ Dies(o)

Next ==
    \/ \E o \in SellIds : Fill(o) \/ Dies(o)
    \/ Handoff \/ Manage \/ FlatStarts \/ Flat
    \/ Reconcile
    \/ CrashRestart

\* A started handler goes on and the manager runs on every bar (whether a flat
\* ever starts is left open); the passes of reconciliation never end; the
\* broker carries out a cancel unless the order fills first.
Spec == /\ Init /\ [][Next]_vars
        /\ WF_vars(Handoff \/ Manage \/ Flat)
        /\ WF_vars(Reconcile)
        /\ WF_vars(CancelTakesEffect)

-----------------------------------------------------------------------------
(* Properties                                                              *)

\* Every variable keeps its type.
TypeOK ==
    /\ orders \in [SellIds -> Order]
    /\ held \in Int
    /\ pos \in Tracked \cup {NoPosition}
    /\ intent \in Ratchet \cup {NoIntent}
    /\ row \in Levels
    /\ latched \in BOOLEAN
    /\ at \in Places
    /\ who \in {"manage", "flat"}
    /\ rec \in BOOLEAN
    /\ upd \in Tracked \cup {NoPosition}
    /\ budget \in 0..Budget

ArmedStops == {o \in SellIds : o[1] = "armed"}

\* A one-contract position never has two competing SELL orders, and none that
\* outlives it: not while the prior stop's cancel races a fill, not when the
\* replacement's or the restore's answer is lost, not across a crash and not
\* when the forced flat takes over.  The exception is a stop armed outside a
\* handoff whose answer was lost, which no durable id identifies
\* (_arm_position_protection).
AtMostOneSell ==
    (\A o \in ArmedStops : orders[o].st = "none" \/ orders[o].acked)
        => Cardinality(WorkingSells) <= held

\* What an intent was resolved to is what became of its orders: "confirmed"
\* when its stop was committed or one of its orders sold the position,
\* "failed" when replacement and restore were both at the broker and the
\* replacement is dead (_reconcile_stop_ratchet_intent and its live twin).  And
\* committed_stop_price only advances to the price of a replacement that the
\* broker held, never on a calculation or on the answer to the POST.
ResolvedOutcomeIsTrue ==
    /\ row > Base => \E n \in 1..MaxRatchets :
          LET o == orders[<<"replacement", n>>] IN o.st # "none" /\ o.px = row
    /\ intent # NoIntent =>
        /\ intent.status = "confirmed" =>
              \/ row >= intent.stop
              \/ \E o \in {intent.prior, Replacement, intent.restore} \ {NoOrder} :
                    orders[o].st = "filled"
        /\ intent.status = "failed" =>
              /\ orders[Replacement].st = "dead"
              /\ orders[intent.restore].st # "none"

Bare == held = 1 /\ WorkingSells = {}
UnderExit == pos # NoPosition /\ pos.exit

\* The order the durable stage waits for was never accepted, or is dead
\* without a filledQuantity: every readback says "ambiguous" for ever.
Unprovable ==
    /\ IsOpen(intent)
    /\ \/ intent.stage = "replacement_submitted" /\ Proved(Replacement) = "ambiguous"
       \/ intent.stage = "restore_submitted" /\ Proved(intent.restore) = "ambiguous"

\* A position without a resting order gets one again, or goes under exit, or
\* its handoff waits for an order that cannot be proved
\* (_restore_missing_protection after _reconcile_stop_ratchet_intent).
ProtectedAgain == Bare ~> (~Bare \/ UnderExit \/ Unprovable)

\* README.md: a crash never costs "an unprotected position".
ProtectedEventually == Bare ~> (~Bare \/ UnderExit)
=============================================================================
