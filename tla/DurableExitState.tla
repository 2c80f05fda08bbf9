-------------------------- MODULE DurableExitState --------------------------
(***************************************************************************)
(* How the coroutines of ExecutionSupervisor use the durable exit state of *)
(* one trade: the row and the action intents in SQLite, the shared in-     *)
(* process copy _durable_exit_states[trade], and the `durable` local that  *)
(* a coroutine carries across its awaits.                                  *)
(*                                                                         *)
(* Managers take the symbol lock (manage_open_position, handle_exit, the   *)
(* reprotection sweep); Syncers do not (sync_lifecycle confirming partial  *)
(* fills).  A step ends at an await of the repository.  One write followed *)
(* at once by the assignment of the copy is one step, because run_write    *)
(* returns to its caller before anyone else can write; where a second      *)
(* write comes in between, the assignment is a step of its own.            *)
(***************************************************************************)
EXTENDS ExitStateStore, FiniteSets

CONSTANTS Managers, Syncers,
          NoClient,        \* the symbol lock is free
          NoKey,           \* the coroutine works on no intent
          MaxQuantity,     \* bound: most contracts one order sells
          MaxLevel,        \* bound: highest premium / floor / stop level
          MaxVersion       \* bound: highest row version

Clients == Managers \cup Syncers
Levels == 1..MaxLevel

ASSUME ClientsAssumption ==
    NoClient \notin Clients /\ Managers \cap Syncers = {}
ASSUME KeysAssumption == NoKey \notin IntentKeys /\ IntentKeys \subseteq OrderIds
ASSUME AbsenceAssumption == NoRow \notin Row /\ NoIntent \notin Intent
ASSUME QuantityAssumption == MaxQuantity \in Nat \ {0}
ASSUME BoundsAssumption == MaxLevel \in Nat /\ MaxVersion \in Nat

VARIABLES row,         \* trade_exit_runtime_state
          intents,     \* exit_action_intents by idempotency key
          fate,        \* broker truth of the order with that client id
          sold,        \* contracts that order sold before it ended
          otherSold,   \* ratchets whose prior or restored stop sold contracts
          copy,        \* _durable_exit_states[trade_id]
          lock,        \* holder of _symbol_locks[symbol]
          pc,          \* where each coroutine is
          recovering,  \* managers inside _reconcile_open_profile_intents
          local,       \* each coroutine's `durable`
          cur          \* the intent each coroutine works on

vars == <<row, intents, fate, sold, otherSold, copy, lock, pc, recovering, local, cur>>

\* "hydrate": lock taken and row loaded; "clean": no open intent was seen;
\* "intent": working on cur; "bank"/"banking": before/after
\* _confirm_partial_action_intent reads the row; "committed": row advanced,
\* intent still open; "settle": recovery is done; "degrade"/"marking":
\* before/after _mark_exit_state_degraded reads the row.
PCs == {"idle", "hydrate", "clean", "intent", "bank", "banking", "committed",
        "settle", "degrade", "marking"}

\* The row freeze_policy_and_initialize_state inserts.
SeedRow(h, stop) ==
    [hash |-> h, peak |-> 1, floor |-> 0, stop |-> stop, t1 |-> FALSE,
     banked |-> 0, be |-> FALSE, status |-> "active", ver |-> 1]

Init ==
    /\ row = NoRow
    /\ intents = [k \in IntentKeys |-> NoIntent]
    /\ fate = [k \in IntentKeys |-> "unsent"]
    /\ sold = [k \in IntentKeys |-> 0]
    /\ otherSold = {}
    /\ copy = NoRow
    /\ lock = NoClient
    /\ pc = [c \in Clients |-> "idle"]
    /\ recovering = {}
    /\ local = [c \in Clients |-> NoRow]
    /\ cur = [c \in Clients |-> NoKey]

OpenKeys == {k \in IntentKeys : IsOpen(intents[k])}

Goto(c, where) == pc' = [pc EXCEPT ![c] = where]

\* The handler returns or raises: the lock is released if it is held.
Leave(c) ==
    /\ Goto(c, "idle")
    /\ recovering' = recovering \ {c}
    /\ cur' = [cur EXCEPT ![c] = NoKey]
    /\ local' = [local EXCEPT ![c] = NoRow]
    /\ lock' = IF lock = c THEN NoClient ELSE lock

\* A handler that is done with an intent: recovery goes on to re-read the
\* table, everyone else returns.
Done(c) ==
    IF c \in recovering
    THEN /\ Goto(c, "settle")
         /\ cur' = [cur EXCEPT ![c] = NoKey]
         /\ UNCHANGED <<lock, recovering, local>>
    ELSE Leave(c)

-----------------------------------------------------------------------------
(* transition_runtime_state(new, expected_version=durable.state_version)   *)

\* replace(durable, ..., state_version=durable.state_version + 1)
Advanced(r, peak, floor, stop, t1, banked, be, status) ==
    [hash |-> r.hash, peak |-> peak, floor |-> floor, stop |-> stop, t1 |-> t1,
     banked |-> banked, be |-> be, status |-> status, ver |-> r.ver + 1]

\* Mutant of Commits: the table is overwritten with no look at the version.
Commits_LastWriterWins(c, new) ==
    /\ local[c].ver < MaxVersion
    /\ row' = new
    /\ local' = [local EXCEPT ![c] = new]

Commits(c, new) ==
    /\ local[c].ver < MaxVersion
    /\ TransitionAccepted(row, new, local[c].ver)
    /\ row' = new
    /\ local' = [local EXCEPT ![c] = new]

\* The ValueError of a refused transition leaves the handler.
Raises(c, new) ==
    /\ local[c].ver < MaxVersion
    /\ ~TransitionAccepted(row, new, local[c].ver)
    /\ Leave(c)
    /\ UNCHANGED <<row, intents, fate, sold, otherSold, copy>>

-----------------------------------------------------------------------------
(* Hydration and peak tracking                                             *)

\* _freeze_exit_policy_for_confirmed_trade, once per trade after the fill.
Freeze(h, stop) ==
    /\ row = NoRow
    /\ row' = SeedRow(h, stop)
    /\ copy' = SeedRow(h, stop)
    /\ UNCHANGED <<intents, fate, sold, otherSold, lock, pc, recovering, local, cur>>

\* Mutant of Hydrate: runs without the symbol lock.
Hydrate_NoLock(m) ==
    /\ pc[m] = "idle"
    /\ row # NoRow
    /\ lock' = m
    /\ local' = [local EXCEPT ![m] = IF copy # NoRow THEN copy ELSE row]
    /\ copy' = IF copy # NoRow THEN copy ELSE row
    /\ Goto(m, "hydrate")
    /\ UNCHANGED <<row, intents, fate, sold, otherSold, recovering, cur>>

\* manage_open_position takes the symbol lock; _hydrate_frozen_profile_state
\* prefers the copy to the table.
Hydrate(m) ==
    /\ pc[m] = "idle"
    /\ lock = NoClient
    /\ row # NoRow
    /\ lock' = m
    /\ local' = [local EXCEPT ![m] = IF copy # NoRow THEN copy ELSE row]
    /\ copy' = IF copy # NoRow THEN copy ELSE row
    /\ Goto(m, "hydrate")
    /\ UNCHANGED <<row, intents, fate, sold, otherSold, recovering, cur>>

\* get_open_action_intents: nothing open.
SeesNoIntent(m) ==
    /\ pc[m] = "hydrate"
    /\ OpenKeys = {}
    /\ Goto(m, "clean")
    /\ UNCHANGED <<row, intents, fate, sold, otherSold, copy, lock, recovering, local, cur>>

\* get_open_action_intents found one: _reconcile_open_profile_intents, which
\* reads the row again before it commits anything.
SeesIntent(m) ==
    /\ pc[m] = "hydrate"
    /\ \E k \in OpenKeys : cur' = [cur EXCEPT ![m] = k]
    /\ recovering' = recovering \cup {m}
    /\ local' = [local EXCEPT ![m] = row]
    /\ Goto(m, "intent")
    /\ UNCHANGED <<row, intents, fate, sold, otherSold, copy, lock>>

\* Hydration after recovery: open intents degrade, otherwise the re-read row
\* becomes the copy.
Settle(m) ==
    /\ pc[m] = "settle"
    /\ recovering' = recovering \ {m}
    /\ local' = [local EXCEPT ![m] = row]
    /\ Goto(m, IF OpenKeys = {} THEN "clean" ELSE "degrade")
    /\ copy' = IF OpenKeys = {} THEN row ELSE copy
    /\ UNCHANGED <<row, intents, fate, sold, otherSold, lock, cur>>

\* Hydration of a consistent trade whose row still says STATE_DEGRADED.
Undegraded(r) ==
    Advanced(r, r.peak, r.floor, r.stop, r.t1, r.banked, r.be, "active")

Undegrade(m) ==
    /\ pc[m] = "clean"
    /\ local[m].status = "STATE_DEGRADED"
    /\ \/ /\ Commits(m, Undegraded(local[m]))
          /\ copy' = row'
          /\ UNCHANGED <<intents, fate, sold, otherSold, lock, pc, recovering, cur>>
       \/ Raises(m, Undegraded(local[m]))

\* _persist_live_peak_state and the peak update of the ratchet.
Peaked(r, p) ==
    Advanced(r, p, r.floor, r.stop, r.t1, r.banked, r.be, r.status)

AdvancePeak(m, p) ==
    /\ pc[m] = "clean"
    /\ local[m].status = "active"
    /\ p > local[m].peak
    /\ \/ /\ Commits(m, Peaked(local[m], p))
          /\ copy' = row'
          /\ UNCHANGED <<intents, fate, sold, otherSold, lock, pc, recovering, cur>>
       \/ Raises(m, Peaked(local[m], p))

\* The rest of the handler writes nothing.
Return(m) ==
    /\ pc[m] = "clean"
    /\ Leave(m)
    /\ UNCHANGED <<row, intents, fate, sold, otherSold, copy>>

-----------------------------------------------------------------------------
(* Action intents                                                          *)

\* The ExitActionIntent a handler builds from its `durable` (the handoff
\* columns of a ratchet are StopRatchet's subject).
NewIntent(k, r, kind, stop) ==
    [hash |-> r.hash, kind |-> kind,
     slot |-> IF kind = "stop_ratchet" THEN r.ver ELSE 0,
     exp |-> r.ver, stop |-> stop, prior |-> NoOrder, priorStop |-> 0,
     stage |-> "prepared", status |-> "prepared",
     broker |-> NoOrder, restore |-> NoOrder]

\* What each action asks for: a ratchet a higher stop, a breakeven move an
\* unmoved stop.  Nothing in the handler keeps a partial from being asked for
\* again after target 1 was banked: that is the ladder's business.
Wanted(r, kind, stop) ==
    CASE kind = "stop_ratchet" -> stop > r.stop
      [] kind = "partial_scale" -> stop = 0
      [] kind = "stop_to_breakeven" -> stop # 0 /\ ~r.be

\* prepare_action_intent with a fresh uuid, before any broker call.
Prepare(m, k, kind, stop) ==
    LET i == NewIntent(k, local[m], kind, stop) IN
    /\ pc[m] = "clean"
    /\ local[m].status = "active"
    /\ intents[k] = NoIntent
    /\ Wanted(local[m], kind, stop)
    /\ \/ /\ PrepareAccepted(row, intents, k, i)
          /\ intents' = [intents EXCEPT ![k] = i]
          /\ cur' = [cur EXCEPT ![m] = k]
          /\ Goto(m, "intent")
          /\ UNCHANGED <<row, fate, sold, otherSold, copy, lock, recovering, local>>
       \/ /\ ~PrepareAccepted(row, intents, k, i)
          /\ Leave(m)
          /\ UNCHANGED <<row, intents, fate, sold, otherSold, copy>>

\* place_stop_loss_order or place_close_order under the intent's own key.  Only
\* a ratchet is submitted by recovery, and only after the prior stop is proved
\* dead and unfilled.  A refused order stays "unsent".
Submit(m) ==
    LET k == cur[m] IN
    /\ pc[m] = "intent"
    /\ fate[k] = "unsent" /\ k \notin otherSold
    /\ m \in recovering => intents[k].kind = "stop_ratchet"
    /\ fate' = [fate EXCEPT ![k] = "open"]
    /\ UNCHANGED <<row, intents, sold, otherSold, copy, lock, pc, recovering, local, cur>>

\* bind_action_order: the broker acknowledged the submission, or recovery
\* found the order under the client id.  A lost answer leaves it unbound.
Bind(m) ==
    LET k == cur[m] IN
    /\ pc[m] = "intent"
    /\ fate[k] # "unsent"
    /\ BindAccepted(intents[k], k)
    /\ intents[k].broker = NoOrder
    /\ intents' = [intents EXCEPT ![k] = WithBinding(@, k)]
    /\ UNCHANGED <<row, fate, sold, otherSold, copy, lock, pc, recovering, local, cur>>

\* The broker ends an order (external): filled, or dead with or without a part
\* of it sold.
BrokerSettles(k, f, q) ==
    /\ fate[k] = "open"
    /\ IF f = "filled" THEN q > 0 ELSE q < MaxQuantity
    /\ fate' = [fate EXCEPT ![k] = f]
    /\ sold' = [sold EXCEPT ![k] = q]
    /\ UNCHANGED <<row, intents, otherSold, copy, lock, pc, recovering, local, cur>>

\* The stop that a ratchet replaces sells before it is cancelled, or the one
\* restored after the replacement died does (external).
OtherStopSells(k) ==
    /\ IsOpen(intents[k])
    /\ intents[k].kind = "stop_ratchet"
    /\ fate[k] = "unsent" \/ (fate[k] = "dead" /\ sold[k] = 0)
    /\ k \notin otherSold
    /\ otherSold' = otherSold \cup {k}
    /\ UNCHANGED <<row, intents, fate, sold, copy, lock, pc, recovering, local, cur>>

\* The row after a proved stop move.  Recovery also lifts STATE_DEGRADED.
Higher(a, b) == IF a >= b THEN a ELSE b

StopMoved(r, i, recovered) ==
    IF i.kind = "stop_ratchet"
    THEN Advanced(r, r.peak, Higher(r.floor, i.stop), i.stop, r.t1, r.banked,
                  r.be, IF recovered THEN "active" ELSE r.status)
    ELSE Advanced(r, r.peak, r.floor, i.stop, r.t1, r.banked, TRUE, "active")

\* The replacement stop is proved working: advance the row, intent still open.
\* A ratchet reads it back under the intent's key, bound or not; a breakeven
\* move needs the bound id.
CommitStop(m) ==
    LET i == intents[cur[m]] IN
    /\ pc[m] = "intent"
    /\ i.kind # "partial_scale"
    /\ fate[cur[m]] # "unsent"
    /\ i.kind = "stop_to_breakeven" => i.broker # NoOrder
    /\ \/ /\ Commits(m, StopMoved(local[m], i, m \in recovering))
          /\ Goto(m, "committed")
          /\ UNCHANGED <<intents, fate, sold, otherSold, copy, lock, recovering, cur>>
       \/ Raises(m, StopMoved(local[m], i, m \in recovering))

\* Mutant of ResolveUncommitted: a stop move is confirmed before the row holds it.
ResolveUncommitted_Early(m, status) ==
    /\ pc[m] = "intent"
    /\ intents' = [intents EXCEPT ![cur[m]] = WithResolution(@, status)]
    /\ Done(m)
    /\ UNCHANGED <<row, fate, sold, otherSold, copy>>

\* resolve_action_intent with no row change.  A ratchet is confirmed when any
\* stop of its handoff sold contracts: the replacement, the restored one, or,
\* seen by recovery only, the prior one; the exit is then finalized and the row
\* keeps its lower stop.
ConfirmedBySale(m, k) ==
    /\ intents[k].kind = "stop_ratchet"
    /\ \/ sold[k] > 0
       \/ k \in otherSold /\ (m \in recovering \/ fate[k] = "dead")

\* It failed when the replacement died unsold and no restored stop sold; the
\* others when their order died, a partial's unsold, or when live handling got
\* no order id.
ProvedFailed(m, k) ==
    IF intents[k].kind = "stop_ratchet"
    THEN fate[k] = "dead" /\ sold[k] = 0 /\ k \notin otherSold
    ELSE \/ m \notin recovering /\ intents[k].broker = NoOrder
         \/ /\ fate[k] = "dead"
            /\ intents[k].kind = "partial_scale" => sold[k] = 0
            /\ intents[k].kind = "stop_to_breakeven" => m \in recovering

ResolveUncommitted(m, status) ==
    LET k == cur[m] IN
    /\ pc[m] = "intent"
    /\ \/ status = "confirmed" /\ ConfirmedBySale(m, k)
       \/ status = "failed" /\ ProvedFailed(m, k)
    /\ intents' = [intents EXCEPT ![k] = WithResolution(@, status)]
    /\ Done(m)
    /\ UNCHANGED <<row, fate, sold, otherSold, copy>>

\* Broker truth is ambiguous, or the partial has not filled yet: the intent
\* stays open and the trade is marked degraded.
LeaveIntentOpen(m) ==
    /\ pc[m] = "intent"
    /\ cur' = [cur EXCEPT ![m] = NoKey]
    /\ Goto(m, IF m \in recovering THEN "settle" ELSE "degrade")
    /\ UNCHANGED <<row, intents, fate, sold, otherSold, copy, lock, recovering, local>>

\* _enrich_pending_partial_fills of sync_lifecycle, without the symbol lock,
\* polls a partial whose order it knows; _confirm_partial_action_intent looks
\* for the open intent bound to it.
SyncFindsFill(s, k) ==
    /\ pc[s] = "idle"
    /\ k \in OpenKeys
    /\ intents[k].kind = "partial_scale"
    /\ intents[k].broker = k
    /\ sold[k] > 0
    /\ cur' = [cur EXCEPT ![s] = k]
    /\ Goto(s, "bank")
    /\ UNCHANGED <<row, intents, fate, sold, otherSold, copy, lock, recovering, local>>

\* Mutant of SyncFindsDead: an order with no fill yet is taken for dead.
SyncFindsDead_AnyStatus(s, k) ==
    /\ pc[s] = "idle"
    /\ k \in OpenKeys
    /\ intents[k].kind = "partial_scale"
    /\ intents[k].broker = k
    /\ intents' = [intents EXCEPT ![k] = WithResolution(@, "failed")]
    /\ UNCHANGED <<row, fate, sold, otherSold, copy, lock, pc, recovering, local, cur>>

\* _fail_partial_action_intent of the same sweep.
SyncFindsDead(s, k) ==
    /\ pc[s] = "idle"
    /\ k \in OpenKeys
    /\ intents[k].kind = "partial_scale"
    /\ intents[k].broker = k
    /\ fate[k] = "dead" /\ sold[k] = 0
    /\ intents' = [intents EXCEPT ![k] = WithResolution(@, "failed")]
    /\ UNCHANGED <<row, fate, sold, otherSold, copy, lock, pc, recovering, local, cur>>

\* A manager that proved the partial's fill itself: live handling only the
\* exact quantity, recovery also what an order sold before it died.
ManagerFindsFill(m) ==
    LET k == cur[m] IN
    /\ pc[m] = "intent"
    /\ intents[k].kind = "partial_scale"
    /\ intents[k].broker = k
    /\ sold[k] > 0
    /\ m \in recovering \/ fate[k] = "filled"
    /\ IF k \in OpenKeys
       THEN /\ Goto(m, "bank")
            /\ UNCHANGED <<lock, recovering, local, cur>>
       ELSE Done(m)
    /\ UNCHANGED <<row, intents, fate, sold, otherSold, copy>>

\* _confirm_partial_action_intent: get_runtime_state.
BankReads(c) ==
    /\ pc[c] = "bank"
    /\ local' = [local EXCEPT ![c] = row]
    /\ Goto(c, "banking")
    /\ UNCHANGED <<row, intents, fate, sold, otherSold, copy, lock, recovering, cur>>

\* Mutant of Banked: adds the fill instead of taking the maximum.
Banked_Adds(r, q) ==
    Advanced(r, r.peak, r.floor, r.stop, TRUE, r.banked + q, r.be, "active")

Banked(r, q) ==
    Advanced(r, r.peak, r.floor, r.stop, TRUE, Higher(r.banked, q), r.be,
             "active")

BankCommits(c) ==
    /\ pc[c] = "banking"
    /\ \/ /\ Commits(c, Banked(local[c], sold[cur[c]]))
          /\ Goto(c, "committed")
          /\ UNCHANGED <<intents, fate, sold, otherSold, copy, lock, recovering, cur>>
       \/ Raises(c, Banked(local[c], sold[cur[c]]))

\* Resolve confirmed; only then is the copy assigned, from the local.
ResolveCommitted(c) ==
    /\ pc[c] = "committed"
    /\ intents' = [intents EXCEPT ![cur[c]] = WithResolution(@, "confirmed")]
    /\ copy' = local[c]
    /\ Done(c)
    /\ UNCHANGED <<row, fate, sold, otherSold>>

\* _mark_exit_state_degraded: re-read the row ...
DegradeReads(m) ==
    /\ pc[m] = "degrade"
    /\ local' = [local EXCEPT ![m] = row]
    /\ Goto(m, "marking")
    /\ UNCHANGED <<row, intents, fate, sold, otherSold, copy, lock, recovering, cur>>

\* ... and write STATE_DEGRADED unless it says so already for this reason; a
\* refusal is swallowed.  (Degraded_Unknown, a mutant, writes a status that
\* no reader knows.)
Degraded_Unknown(r) ==
    Advanced(r, r.peak, r.floor, r.stop, r.t1, r.banked, r.be, "degraded")

Degraded(r) ==
    Advanced(r, r.peak, r.floor, r.stop, r.t1, r.banked, r.be, "STATE_DEGRADED")

DegradeWrites(m) ==
    /\ pc[m] = "marking"
    /\ \/ /\ local[m].ver < MaxVersion
          /\ TransitionAccepted(row, Degraded(local[m]), local[m].ver)
          /\ row' = Degraded(local[m])
          /\ copy' = row'
       \/ /\ \/ local[m].status = "STATE_DEGRADED"
             \/ ~TransitionAccepted(row, Degraded(local[m]), local[m].ver)
             \/ local[m].ver = MaxVersion
          /\ UNCHANGED <<row, copy>>
    /\ Leave(m)
    /\ UNCHANGED <<intents, fate, sold, otherSold>>

\* The process dies and restarts: only SQLite and the broker survive.
Crash ==
    /\ row # NoRow
    /\ copy' = NoRow
    /\ lock' = NoClient
    /\ pc' = [c \in Clients |-> "idle"]
    /\ recovering' = {}
    /\ local' = [c \in Clients |-> NoRow]
    /\ cur' = [c \in Clients |-> NoKey]
    /\ UNCHANGED <<row, intents, fate, sold, otherSold>>

Manage(m) ==
    \/ Hydrate(m) \/ SeesNoIntent(m) \/ SeesIntent(m) \/ Settle(m)
    \/ Undegrade(m) \/ Return(m)
    \/ \E p \in Levels : AdvancePeak(m, p)
    \/ \E k \in IntentKeys, kind \in Kinds, stop \in Levels \cup {0} :
          Prepare(m, k, kind, stop)
    \/ Submit(m) \/ Bind(m) \/ CommitStop(m) \/ LeaveIntentOpen(m)
    \/ \E status \in {"confirmed", "failed"} : ResolveUncommitted(m, status)
    \/ ManagerFindsFill(m) \/ BankReads(m) \/ BankCommits(m)
    \/ ResolveCommitted(m) \/ DegradeReads(m) \/ DegradeWrites(m)

Sync(s) ==
    \/ \E k \in IntentKeys : SyncFindsFill(s, k) \/ SyncFindsDead(s, k)
    \/ BankReads(s) \/ BankCommits(s) \/ ResolveCommitted(s)

Next ==
    \/ \E h \in Hashes, stop \in Levels \cup {0} : Freeze(h, stop)
    \/ \E m \in Managers : Manage(m)
    \/ \E s \in Syncers : Sync(s)
    \/ \E k \in IntentKeys, f \in {"filled", "dead"}, q \in 0..MaxQuantity :
          BrokerSettles(k, f, q)
    \/ \E k \in IntentKeys : OtherStopSells(k)
    \/ Crash

Spec == Init /\ [][Next]_vars

-----------------------------------------------------------------------------
\* Type invariant.
TypeOK ==
    /\ row \in Row \cup {NoRow}
    /\ intents \in [IntentKeys -> Intent \cup {NoIntent}]
    /\ fate \in [IntentKeys -> {"unsent", "open", "filled", "dead"}]
    /\ sold \in [IntentKeys -> 0..MaxQuantity]
    /\ otherSold \in SUBSET IntentKeys
    /\ copy \in Row \cup {NoRow}
    /\ lock \in Managers \cup {NoClient}
    /\ pc \in [Clients -> PCs]
    /\ recovering \in SUBSET Managers
    /\ local \in [Clients -> Row \cup {NoRow}]
    /\ cur \in [Clients -> IntentKeys \cup {NoKey}]

\* In every ratcheted field, r is at or above x.
NoHigher(x, r) ==
    /\ x.peak <= r.peak /\ x.floor <= r.floor /\ x.stop <= r.stop
    /\ x.banked <= r.banked
    /\ x.t1 => r.t1
    /\ x.be => r.be

\* What a coroutine or the process remembers of the row is a past of the row:
\* never ahead of it, never above it in a ratcheted field (peak, floor, stop,
\* banked, breakeven), and equal to it when the version is the same.  So a
\* handler that computes from an out-of-date copy can lose its own update but
\* never undo a floor, a stop or a banked contract somebody else committed.
IsPast(x) ==
    x # NoRow => /\ row # NoRow
                 /\ x.hash = row.hash
                 /\ x.ver <= row.ver
                 /\ NoHigher(x, row)
                 /\ x.ver = row.ver => x = row

MemoryIsPast == IsPast(copy) /\ \A c \in Clients : IsPast(local[c])

\* The durable levels never regress, whichever of the interleaved coroutines
\* writes and across restarts: the row's version counts the writes.
RowNeverRegresses ==
    [][row # NoRow => /\ row' # NoRow
                      /\ NoHigher(row, row')
                      /\ row' = row \/ row'.ver = row.ver + 1]_vars

\* At most one intent of the trade is open: the ratchet, the partial and the
\* breakeven move each look for open intents first and only then prepare
\* theirs, and the symbol lock is all that makes the look still true.
OneOpenIntent == \A j, k \in OpenKeys : j = k

\* A stop move resolved as confirmed is in the row, also when the process died
\* between the two writes: the row is advanced first and the intent resolved
\* after it.  The one exception is a ratchet of whose handoff some stop (prior,
\* replacement or restored) sold contracts.  So a trade nothing of which was
\* sold never sits under a durable stop lower than a confirmed one.
ConfirmedStopIsCommitted ==
    \A k \in IntentKeys :
        /\ intents[k] # NoIntent
        /\ intents[k].kind # "partial_scale"
        /\ intents[k].status = "confirmed"
        => \/ row.stop >= intents[k].stop
           \/ /\ intents[k].kind = "stop_ratchet"
              /\ sold[k] > 0 \/ k \in otherSold

\* The banked quantity of the row is what one partial sold, as often as
\* sync_lifecycle and managers confirm it and wherever the process dies: it is
\* never a sum or a stale number, and covers every confirmed partial.  (Two
\* partials of one trade leave the larger, since the update takes a maximum.)
BankedIsOneFill ==
    /\ row # NoRow =>
          \/ row.banked = 0
          \/ \E k \in IntentKeys : /\ intents[k] # NoIntent
                                   /\ intents[k].kind = "partial_scale"
                                   /\ row.banked = sold[k]
    /\ \A k \in IntentKeys :
          /\ intents[k] # NoIntent
          /\ intents[k].kind = "partial_scale"
          /\ intents[k].status = "confirmed"
          => sold[k] > 0 /\ sold[k] <= row.banked

\* A resolved intent keeps its outcome, although resolve_action_intent itself
\* accepts any status over any other.
OutcomeIsFinal ==
    [][\A k \in IntentKeys :
          intents[k] # NoIntent /\ intents[k].status \in TerminalStatuses
              => intents'[k] = intents[k]]_vars

=============================================================================
