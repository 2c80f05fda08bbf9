------------------------------ MODULE Session -------------------------------
(***************************************************************************)
(* The live session of BhikshaRuntime over its dispatcher: the bar worker  *)
(* of each symbol (_handle_bar_event), the intrabar loop, the runners they *)
(* queue, the reconciliation pass, the daily-loss rail and the shutdown.   *)
(*                                                                         *)
(* Bar workers decide what to queue from the positions of the last         *)
(* reconciliation; the runners act when the dispatcher gets to them, the   *)
(* forced flats on the tracker, a manage or an exit on the position it was *)
(* queued with.  Each symbol has one deployment, one position at a time,   *)
(* of one contract.  What a BUY or a SELL goes through at the broker is    *)
(* EntryLifecycle and PendingExit: here it is placed, and fills.  What     *)
(* manage does to the protection is StopRatchet: here it only stores the   *)
(* position.                                                               *)
(***************************************************************************)
EXTENDS Dispatcher

CONSTANTS HardFlat, EmergencyFlat, Manage, Exit, Entry  \* the kinds of task

ASSUME KeysAssumption == Keys = {HardFlat, EmergencyFlat, Manage, Exit, Entry}
ASSUME ExitAssumption == Exit \notin {HardFlat, EmergencyFlat, Manage, Entry}

VARIABLES
    at,         \* where _handle_bar_event of each symbol is
    view,       \* the position it decides on
    known,      \* ReconciliationSnapshot.positions
    pos,        \* PositionTracker
    held,       \* external: contracts in the account
    sells,      \* external: working SELL orders
    stopped,    \* external: the trades whose protective stop has filled
    bought,     \* trades so far
    carried,    \* the position a queued manage or exit acts on
    step,       \* where the running runner is
    halt,       \* self.halt_and_flatten
    halted,     \* RiskManager._session_halted
    flatten,    \* self.risk_manager_flatten
    ending,     \* run_session's finally block: the tasks are cancelled
    flattened,  \* history: symbols with an emergency flat after the rail's latch
    stale       \* history: symbols where a task acted on a position that had changed

dispatcher == <<workers, queue, running, exited, pendingKeys, identity, stopping,
                accepted, finished>>
handlers == <<at, view, carried>>
positions == <<known, pos, held, sells, stopped, bought>>
flags == <<halt, halted, flatten>>
history == <<flattened, stale>>
sessionVars == <<dispatcher, handlers, positions, step, flags, ending, history>>

None == [st |-> "none", trade |-> 0]
Position(st, n) == [st |-> st, trade |-> n]
Positions == [st : {"none", "open", "exiting"}, trade : Nat]
\* Today's realised loss when Rail A looks at it: trades of every symbol move it
\* either way.
Losses == {"small", "halt", "flatten"}
Places == {"idle", "book", "emergency", "read", "hard_flat", "manage", "exit", "entry"}

SessionInit ==
    /\ Init
    /\ at = [s \in Symbols |-> "idle"]
    /\ view = [s \in Symbols |-> None]
    /\ carried = [s \in Symbols |-> [k \in {Manage, Exit} |-> None]]
    /\ held \in [Symbols -> 0..1] /\ bought = held
    /\ pos = [s \in Symbols |-> IF held[s] = 1 THEN Position("open", 1) ELSE None]
    /\ known = pos
    /\ stopped = [s \in Symbols |-> {}]
    /\ sells = [s \in Symbols |-> 0]
    /\ step = [s \in Symbols |-> "begin"]
    /\ halt = FALSE /\ halted = FALSE /\ flatten = FALSE
    /\ ending = FALSE
    /\ flattened = {} /\ stale = {}

\* run_session starts the dispatcher for its symbols.
Open ==
    /\ workers = {} /\ Start(Symbols)
    /\ UNCHANGED <<handlers, positions, step, flags, ending, history>>

Handling(s, here) == s \in workers /\ ~ending /\ at[s] = here
Go(s, there) == at' = [at EXCEPT ![s] = there]
Done(s) == Go(s, "idle") /\ view' = [view EXCEPT ![s] = None]

\* submit(): a key that is pending coalesces.
Queues(s, k, i) ==
    IF k \in pendingKeys[s] THEN UNCHANGED dispatcher ELSE SubmitAccepted(s, k, i)

\* submit() of a runner that holds the position its bar decided on.
QueuesWithView(s, k) ==
    /\ Queues(s, k, NoIdentity)
    /\ carried' = IF k \in pendingKeys[s] THEN carried ELSE [carried EXCEPT ![s][k] = view[s]]

-----------------------------------------------------------------------------
(* A bar                                                                   *)

\* A bar that is not newer than the last one changes nothing; a new one reloads
\* the operator's control first (_refresh_intraday_bias_controls), unless the
\* file does not load.
BarArrives(s) ==
    /\ Handling(s, "idle") /\ Go(s, "book")
    /\ halt' \in BOOLEAN
    /\ UNCHANGED <<dispatcher, view, carried, positions, step, halted, flatten, ending, history>>

\* book_actions latches what today's loss asks for; its answer may be one
\* computed earlier in the minute, which adds nothing.  Either flag sends the
\* bar to the emergency flat.
BookActions(s) ==
    /\ Handling(s, "book")
    /\ \E l \in Losses :
          halted' = (halted \/ l # "small") /\ flatten' = (flatten \/ l = "flatten")
    /\ Go(s, IF halt \/ flatten' THEN "emergency" ELSE "read")
    /\ UNCHANGED <<dispatcher, view, carried, positions, step, halt, ending, history>>

QueueEmergencyFlat(s) ==
    /\ Handling(s, "emergency") /\ Done(s)
    /\ Queues(s, EmergencyFlat, NoIdentity)
    /\ UNCHANGED <<carried, positions, step, flags, ending, history>>

\* Under sync_lock.
ReadPositions(s) ==
    /\ Handling(s, "read") /\ Go(s, "hard_flat")
    /\ view' = [view EXCEPT ![s] = known[s]]
    /\ UNCHANGED <<dispatcher, carried, positions, step, flags, ending, history>>

\* Every bar queues the hard flat, which looks at the bar's time when it runs.
QueueHardFlat(s) ==
    /\ Handling(s, "hard_flat") /\ Go(s, "manage")
    /\ Queues(s, HardFlat, NoIdentity)
    /\ UNCHANGED <<view, carried, positions, step, flags, ending, history>>

QueueManage(s) ==
    /\ Handling(s, "manage") /\ Go(s, "exit")
    /\ IF view[s] = None THEN UNCHANGED <<dispatcher, carried>> ELSE QueuesWithView(s, Manage)
    /\ UNCHANGED <<view, positions, step, flags, ending, history>>

\* evaluate_symbol passes over a position that is exiting; after an exit the
\* deployment is not evaluated for an entry.
QueueExit(s) ==
    /\ Handling(s, "exit")
    /\ \/ view[s].st = "open" /\ QueuesWithView(s, Exit) /\ Done(s)
       \/ UNCHANGED <<dispatcher, view, carried>> /\ Go(s, "entry")
    /\ UNCHANGED <<positions, step, flags, ending, history>>

QueueEntry(s) ==
    /\ Handling(s, "entry") /\ Done(s)
    /\ \/ \E i \in Identities : Queues(s, Entry, i)
       \/ UNCHANGED dispatcher
    /\ UNCHANGED <<carried, positions, step, flags, ending, history>>

\* An exception ends the bar, wherever it was; the worker goes on.
BarFails(s) ==
    /\ s \in workers /\ ~ending /\ at[s] # "idle" /\ Done(s)
    /\ UNCHANGED <<dispatcher, carried, positions, step, flags, ending, history>>

\* _handle_manual_intrabar_price: neither flag is looked at.
IntrabarEntry(s) ==
    /\ s \in workers /\ ~ending
    /\ pos[s] = None
    /\ \E i \in Identities : Queues(s, Entry, i)
    /\ UNCHANGED <<handlers, positions, step, flags, ending, history>>

-----------------------------------------------------------------------------
(* The runners                                                             *)

Runs(s, kinds, here) == running[s] # Idle /\ running[s].key \in kinds /\ step[s] = here
To(s, there) == step' = [step EXCEPT ![s] = there]

Take(s) ==
    /\ WorkerTakes(s) /\ To(s, "begin")
    /\ UNCHANGED <<handlers, positions, flags, ending, history>>

\* The runner returns, an exception is caught around it; what it closed over
\* is gone with it.
Finish(s) ==
    /\ step[s] = "done" /\ WorkerFinishes(s) /\ To(s, "begin")
    /\ carried' = [carried EXCEPT ![s] = [k \in {Manage, Exit} |->
                      IF k = running[s].key THEN None ELSE carried[s][k]]]
    /\ UNCHANGED <<at, view, positions, flags, ending, history>>

\* The protection of a position is cancelled and a SELL placed; it cannot be
\* cancelled if the stop has filled.
Sells(s, p) ==
    /\ p.trade \notin stopped[s]
    /\ sells' = [sells EXCEPT ![s] = @ + 1]
    /\ pos' = [pos EXCEPT ![s] = Position("exiting", p.trade)]

Flattens(s) ==
    flattened' = IF running[s].key = EmergencyFlat /\ flatten /\ pos'[s].st # "open"
                 THEN flattened \cup {s} ELSE flattened

ActsOn(s, p) == stale' = IF pos[s] = p THEN stale ELSE stale \cup {s}

\* Mutant of RunFlat: a position that is already exiting is flattened again.
RunFlat_Again(s) ==
    /\ Runs(s, {HardFlat, EmergencyFlat}, "begin") /\ To(s, "done")
    /\ \/ pos[s] # None /\ Sells(s, pos[s])
       \/ UNCHANGED <<sells, pos>>
    /\ Flattens(s)
    /\ UNCHANGED <<dispatcher, handlers, known, held, stopped, bought, flags, ending, stale>>

\* close_due_positions and halt_and_flatten_positions read the tracker; a hard
\* flat may not be due, and the cancel of the protection may not be confirmed.
RunFlat(s) ==
    /\ Runs(s, {HardFlat, EmergencyFlat}, "begin") /\ To(s, "done")
    /\ \/ pos[s].st = "open" /\ Sells(s, pos[s])
       \/ UNCHANGED <<sells, pos>>
    /\ Flattens(s)
    /\ UNCHANGED <<dispatcher, handlers, known, held, stopped, bought, flags, ending, stale>>

\* handle_exit acts on the position of the bar that queued it, which was open;
\* it may yield to the profile, or its cancel may not be confirmed.
RunExit(s) ==
    /\ Runs(s, {Exit}, "begin") /\ To(s, "done")
    /\ \/ Sells(s, carried[s][Exit]) /\ ActsOn(s, carried[s][Exit])
       \/ UNCHANGED <<sells, pos, stale>>
    /\ UNCHANGED <<dispatcher, handlers, known, held, stopped, bought, flags, ending, flattened>>

\* manage_open_position stores the position it was queued with when it changed
\* its target or stop.
RunManage(s) ==
    /\ Runs(s, {Manage}, "begin") /\ To(s, "done")
    /\ \/ /\ carried[s][Manage].st = "open"
          /\ pos' = [pos EXCEPT ![s] = carried[s][Manage]]
          /\ ActsOn(s, carried[s][Manage])
       \/ UNCHANGED <<pos, stale>>
    /\ UNCHANGED <<dispatcher, handlers, known, held, sells, stopped, bought, flags, ending, flattened>>

\* Mutant of Consult: the rail is consulted by the bar that queued the entry.
Consult_WhenQueued(s) ==
    /\ Runs(s, {Entry}, "begin") /\ To(s, "allowed")
    /\ UNCHANGED <<dispatcher, handlers, positions, flags, ending, history>>

\* allow_entry, at the time of the attempt, unless reconciliation blocks the
\* entry already; an unknown budget or Rail B blocks it too.
Consult(s) ==
    /\ Runs(s, {Entry}, "begin")
    /\ \/ \E l \in Losses : halted' = (halted \/ l # "small")
          /\ To(s, IF halted' THEN "done" ELSE "allowed")
       \/ UNCHANGED halted /\ To(s, "done")
    /\ UNCHANGED <<dispatcher, handlers, positions, halt, flatten, ending, history>>

\* Mutant of RunEntry: the lane is not looked at.
RunEntry_BusyLane(s) ==
    /\ Runs(s, {Entry}, "allowed") /\ To(s, "done")
    /\ bought' = [bought EXCEPT ![s] = @ + 1]
    /\ held' = [held EXCEPT ![s] = @ + 1]
    /\ pos' = [pos EXCEPT ![s] = Position("open", bought'[s])]
    /\ UNCHANGED <<dispatcher, handlers, known, sells, stopped, flags, ending, history>>

\* handle_signal buys if the lane is free, or nothing comes of it.
RunEntry(s) ==
    /\ Runs(s, {Entry}, "allowed") /\ To(s, "done")
    /\ \/ /\ pos[s] = None
          /\ bought' = [bought EXCEPT ![s] = @ + 1]
          /\ held' = [held EXCEPT ![s] = @ + 1]
          /\ pos' = [pos EXCEPT ![s] = Position("open", bought'[s])]
       \/ UNCHANGED <<pos, held, bought>>
    /\ UNCHANGED <<dispatcher, handlers, known, sells, stopped, flags, ending, history>>

-----------------------------------------------------------------------------
(* The broker, reconciliation and shutdown                                 *)

\* A SELL fills and the pending-exit poller closes the exiting position, ...
SellFills(s) ==
    /\ held[s] > 0 /\ sells[s] > 0
    /\ sells' = [sells EXCEPT ![s] = @ - 1]
    /\ held' = [held EXCEPT ![s] = @ - 1]
    /\ pos' = IF pos[s].st = "exiting" THEN [pos EXCEPT ![s] = None] ELSE pos
    /\ UNCHANGED <<dispatcher, handlers, known, stopped, bought, step, flags, ending, history>>

\* ... or the protective stop of an open one, which reconciliation finds.
StopFills(s) ==
    /\ held[s] > 0 /\ pos[s].st = "open" /\ pos[s].trade \notin stopped[s]
    /\ stopped' = [stopped EXCEPT ![s] = @ \cup {pos[s].trade}]
    /\ held' = [held EXCEPT ![s] = @ - 1]
    /\ UNCHANGED <<dispatcher, handlers, known, pos, sells, bought, step, flags, ending, history>>

\* _refresh_reconciliation: a position the portfolio no longer holds is dropped.
Reconcile(s) ==
    /\ s \in workers /\ ~ending
    /\ LET p == IF held[s] = 0 THEN None ELSE pos[s]
       IN pos' = [pos EXCEPT ![s] = p] /\ known' = [known EXCEPT ![s] = p]
    /\ UNCHANGED <<dispatcher, handlers, held, sells, stopped, bought, step, flags, ending, history>>

\* Bar workers and loops are cancelled and awaited, ...
Cancel ==
    /\ workers # {} /\ ~ending /\ ending' = TRUE
    /\ UNCHANGED <<dispatcher, handlers, positions, step, flags, history>>

\* Mutant of Close: the dispatcher is stopped while bars are still handled.
Close_First ==
    /\ workers # {} /\ Stop
    /\ UNCHANGED <<handlers, positions, step, flags, ending, history>>

\* ... and then the dispatcher is stopped.
Close ==
    /\ ending /\ Stop
    /\ UNCHANGED <<handlers, positions, step, flags, ending, history>>

Leave(s) ==
    /\ WorkerExits(s)
    /\ UNCHANGED <<handlers, positions, step, flags, ending, history>>

Bar(s) == BarArrives(s) \/ BookActions(s) \/ QueueEmergencyFlat(s) \/ ReadPositions(s)
          \/ QueueHardFlat(s) \/ QueueManage(s) \/ QueueExit(s) \/ QueueEntry(s) \/ BarFails(s)
Runner(s) == Take(s) \/ RunFlat(s) \/ RunExit(s) \/ RunManage(s) \/ Consult(s) \/ RunEntry(s)
             \/ Finish(s) \/ Leave(s)

SessionNext ==
    \/ Open \/ Cancel \/ Close
    \/ \E s \in Symbols : Bar(s) \/ IntrabarEntry(s) \/ Runner(s) \/ SellFills(s)
                          \/ StopFills(s) \/ Reconcile(s)

\* A runner's awaits are bounded by the timeouts of the broker client and of SQLite.
SessionSpec ==
    SessionInit /\ [][SessionNext]_sessionVars /\ \A s \in Symbols : WF_sessionVars(Runner(s))

-----------------------------------------------------------------------------
(* Properties                                                              *)

\* Type invariant of the session's own variables.
SessionTypeOK ==
    /\ at \in [Symbols -> Places]
    /\ {view, known, pos} \subseteq [Symbols -> Positions]
    /\ carried \in [Symbols -> [{Manage, Exit} -> Positions]]
    /\ held \in [Symbols -> 0..1] /\ sells \in [Symbols -> Nat]
    /\ bought \in [Symbols -> Nat] /\ stopped \in [Symbols -> SUBSET Nat]
    /\ \A s \in Symbols : stopped[s] \subseteq 1..bought[s]
    /\ step \in [Symbols -> {"begin", "allowed", "done"}]
    /\ {halt, halted, flatten, ending} \subseteq BOOLEAN
    /\ flattened \subseteq Symbols /\ stale \subseteq Symbols

\* Once the daily-loss rail has latched the flatten and a symbol has been
\* flattened, everything it holds is being sold and nothing is bought again,
\* although intrabar prices keep queueing entries and the loss may be won back:
\* allow_entry is consulted by the runner, behind the flat, and never unlatches.
FlattenedStaysFlat == \A s \in flattened : held[s] <= sells[s]

\* More is for sale than is held only after an exit or a manage ran on a
\* position that had changed since its bar: handle_exit and
\* manage_open_position test the position they were queued with, everything
\* else that sells tests the tracker, one runner of the symbol at a time.
OneCloseUnlessStale == \A s \in Symbols \ stale : sells[s] <= held[s]

\* Every task the dispatcher accepted is run, also when the session ends: bar
\* workers and loops are gone before stop() puts its sentinel behind the queue.
EveryTaskRuns ==
    \A s \in Symbols, n \in 1..MaxTasks : accepted[s] = n ~> Len(finished[s]) >= n
=============================================================================
