--------------------------- MODULE ExitStateStore ---------------------------
(***************************************************************************)
(* SQLiteExitStateRepository (persistence/exit_state.py): what each write  *)
(* of the durable exit state accepts and what it leaves behind.  Every     *)
(* write runs under SQLiteBackend's write lock, so one operation of this   *)
(* module is one atomic step of whoever calls it; a refusal (ValueError)   *)
(* leaves the tables alone.                                                *)
(*                                                                         *)
(* Levels (peak premium, floor R, stop price) are naturals ordered like    *)
(* the floats they stand for; 0 is the None of the optional ones.          *)
(***************************************************************************)
EXTENDS Naturals

CONSTANTS Hashes,      \* policy hashes
          IntentKeys,  \* idempotency keys (uuid4: never reused)
          OrderIds,    \* broker order ids
          NoRow,       \* the trade has no runtime state row
          NoIntent,    \* the key names no intent
          NoOrder      \* a NULL order id

ASSUME NoOrderAssumption == NoOrder \notin OrderIds

Kinds == {"partial_scale", "stop_ratchet", "stop_to_breakeven"}
Stages == {"prepared", "prior_stop_cancel_pending", "prior_stop_dead_zero_fill",
           "replacement_submit_pending", "replacement_submitted",
           "restore_submit_pending", "restore_submitted"}
\* Slots: n > 0 is "stop_ratchet:v<n>", one per row version; 0 stands for the
\* slots that carry their own uuid ("target_1:<key>", "breakeven:<key>").
Slots == Nat

OpenStatuses == {"prepared", "submitted"}
TerminalStatuses == {"confirmed", "failed", "abandoned"}

\* ExitRuntimeState: the executable columns of trade_exit_runtime_state.
Row == [hash : Hashes, peak : Nat, floor : Nat, stop : Nat,
        t1 : BOOLEAN, banked : Nat, be : BOOLEAN,
        status : {"active", "STATE_DEGRADED"}, ver : Nat]

\* ExitActionIntent: the columns of exit_action_intents the handlers read.
Intent == [hash : Hashes, kind : Kinds, slot : Slots, exp : Nat,
           stop : Nat, prior : OrderIds \cup {NoOrder}, priorStop : Nat,
           stage : Stages, status : OpenStatuses \cup TerminalStatuses,
           broker : OrderIds \cup {NoOrder}, restore : OrderIds \cup {NoOrder}]

IsOpen(i) == i # NoIntent /\ i.status \in OpenStatuses

-----------------------------------------------------------------------------
\* Mutant of NonRegressing: the committed stop price is not compared.
NonRegressing_NoStop(cur, new) ==
    /\ new.peak >= cur.peak
    /\ new.floor >= cur.floor
    /\ cur.t1 => new.t1
    /\ new.banked >= cur.banked
    /\ cur.be => new.be

\* _require_non_regression
NonRegressing(cur, new) ==
    /\ new.peak >= cur.peak
    /\ new.floor >= cur.floor
    /\ new.stop >= cur.stop
    /\ cur.t1 => new.t1
    /\ new.banked >= cur.banked
    /\ cur.be => new.be

\* _transition_runtime_state_sync: optimistic versioning and monotonicity.
TransitionAccepted(cur, new, expected) ==
    /\ cur # NoRow
    /\ new.ver = expected + 1
    /\ cur.ver = expected
    /\ new.hash = cur.hash
    /\ NonRegressing(cur, new)

\* _prepare_action_intent_sync: version and policy of the row must match, and
\* the key and the (trade, slot) pair must be unused.
PrepareAccepted(cur, intents, k, i) ==
    /\ cur # NoRow
    /\ i.status = "prepared"
    /\ i.hash = cur.hash
    /\ i.exp = cur.ver
    /\ intents[k] = NoIntent
    /\ \A j \in IntentKeys :
          intents[j] # NoIntent /\ i.slot # 0 => intents[j].slot # i.slot

\* _update_action_handoff_sync
HandoffAccepted(i, restore) ==
    /\ IsOpen(i)
    /\ \/ i.restore = NoOrder
       \/ restore \in {NoOrder, i.restore}
       \/ i.stage = "restore_submit_pending"

WithHandoff(i, stage, restore) ==
    [i EXCEPT !.stage = stage,
              !.restore = IF restore = NoOrder THEN @ ELSE restore]

\* _bind_action_order_sync
BindAccepted(i, order) ==
    /\ IsOpen(i)
    /\ i.broker \in {NoOrder, order}

WithBinding(i, order) == [i EXCEPT !.status = "submitted", !.broker = order]

\* _resolve_action_intent_sync: whatever the current status.
WithResolution(i, status) == [i EXCEPT !.status = status]

=============================================================================
