----------------------------- MODULE Dispatcher -----------------------------
(***************************************************************************)
(* SymbolExecutionDispatcher (app/execution_dispatcher.py): one FIFO queue *)
(* and one worker task per symbol.  Every broker-affecting runner of the   *)
(* runtime (entry, manage, exit, hard flat, emergency flat) goes through   *)
(* submit(), which refuses a key that is still pending.                    *)
(*                                                                         *)
(* The event loop is single threaded, so submit(), the worker's code       *)
(* between two awaits and stop()'s loop over the (unbounded) queues are    *)
(* atomic; the runner itself is the only await during which others run.    *)
(***************************************************************************)
EXTENDS Naturals, Sequences, FiniteSets

CONSTANTS Symbols,      \* symbols the runtime trades
          Keys,         \* task keys ("manage:<deployment>", "hard_flat", ...)
          Identities,   \* coalescing identities a submitter may attach
          NoIdentity,   \* submit(..., identity=None)
          Sentinel,     \* the None that stop() enqueues
          Idle,         \* no runner is executing
          MaxTasks      \* bound: submissions accepted per symbol

ASSUME NoIdentityAssumption == NoIdentity \notin Identities
ASSUME SentinelAssumption == Sentinel \notin [key : Keys, no : Nat]
ASSUME IdleAssumption == Idle \notin [key : Keys, no : Nat]
ASSUME MaxTasksAssumption == MaxTasks \in Nat

VARIABLES workers,      \* symbols whose worker exists (_workers, _queues)
          queue,        \* _queues[s]: tasks and possibly the sentinel
          running,      \* the task whose runner is being awaited, or Idle
          exited,       \* symbols whose worker returned at the sentinel
          pendingKeys,  \* _pending_keys[s]
          identity,     \* _pending_identities[(s, k)] or NoIdentity
          stopping,     \* stop() was called
          accepted,     \* history: number of accepted submissions
          finished      \* history: numbers of the finished tasks, in order

vars == <<workers, queue, running, exited, pendingKeys, identity, stopping,
          accepted, finished>>

\* A task carries its key; `no` is the history number of its acceptance.
Tasks == [key : Keys, no : Nat]

Init ==
    /\ workers = {}
    /\ queue = [s \in Symbols |-> <<>>]
    /\ running = [s \in Symbols |-> Idle]
    /\ exited = {}
    /\ pendingKeys = [s \in Symbols |-> {}]
    /\ identity = [s \in Symbols |-> [k \in Keys |-> NoIdentity]]
    /\ stopping = FALSE
    /\ accepted = [s \in Symbols |-> 0]
    /\ finished = [s \in Symbols |-> <<>>]

\* start(): symbols that already have a worker are skipped.
Start(S) ==
    /\ S \ workers # {}
    /\ ~stopping
    /\ workers' = workers \cup S
    /\ queue' = [s \in Symbols |-> IF s \in S \ workers THEN <<>> ELSE queue[s]]
    /\ pendingKeys' = [s \in Symbols |->
                          IF s \in S \ workers THEN {} ELSE pendingKeys[s]]
    /\ UNCHANGED <<running, exited, identity, stopping, accepted, finished>>

Task(k, n) == [key |-> k, no |-> n]

\* submit() of a key that is not pending: register the key, the identity if
\* one is given, and enqueue the task.
SubmitAccepted(s, k, i) ==
    /\ s \in workers
    /\ k \notin pendingKeys[s]
    /\ accepted[s] < MaxTasks
    /\ pendingKeys' = [pendingKeys EXCEPT ![s] = @ \cup {k}]
    /\ identity' = IF i = NoIdentity THEN identity
                   ELSE [identity EXCEPT ![s][k] = i]
    /\ accepted' = [accepted EXCEPT ![s] = @ + 1]
    /\ queue' = [queue EXCEPT ![s] = Append(@, Task(k, accepted[s] + 1))]
    /\ UNCHANGED <<workers, running, exited, stopping, finished>>

\* Mutant of WorkerTakes: the newest task first.
WorkerTakes_Newest(s) ==
    /\ s \in workers \ exited
    /\ running[s] = Idle
    /\ queue[s] # <<>>
    /\ LET n == Len(queue[s]) IN
          /\ queue[s][n] # Sentinel
          /\ running' = [running EXCEPT ![s] = queue[s][n]]
          /\ queue' = [queue EXCEPT ![s] = SubSeq(@, 1, n - 1)]
    /\ UNCHANGED <<workers, exited, pendingKeys, identity, stopping, accepted,
                   finished>>

\* _worker(): queue.get() returned a task; its runner starts.
WorkerTakes(s) ==
    /\ s \in workers \ exited
    /\ running[s] = Idle
    /\ queue[s] # <<>>
    /\ Head(queue[s]) # Sentinel
    /\ running' = [running EXCEPT ![s] = Head(queue[s])]
    /\ queue' = [queue EXCEPT ![s] = Tail(@)]
    /\ UNCHANGED <<workers, exited, pendingKeys, identity, stopping, accepted,
                   finished>>

\* Mutant of WorkerFinishes: the finally block forgets the key.
WorkerFinishes_KeepsKey(s) ==
    /\ running[s] # Idle
    /\ running' = [running EXCEPT ![s] = Idle]
    /\ identity' = [identity EXCEPT ![s][running[s].key] = NoIdentity]
    /\ finished' = [finished EXCEPT ![s] = Append(@, running[s].no)]
    /\ UNCHANGED <<workers, queue, exited, pendingKeys, stopping, accepted>>

\* The runner returned or raised (the exception is logged and swallowed);
\* the finally block releases the key and its identity.
WorkerFinishes(s) ==
    /\ running[s] # Idle
    /\ running' = [running EXCEPT ![s] = Idle]
    /\ pendingKeys' = [pendingKeys EXCEPT ![s] = @ \ {running[s].key}]
    /\ identity' = [identity EXCEPT ![s][running[s].key] = NoIdentity]
    /\ finished' = [finished EXCEPT ![s] = Append(@, running[s].no)]
    /\ UNCHANGED <<workers, queue, exited, stopping, accepted>>

\* _worker(): queue.get() returned None.
WorkerExits(s) ==
    /\ s \in workers \ exited
    /\ running[s] = Idle
    /\ queue[s] # <<>>
    /\ Head(queue[s]) = Sentinel
    /\ exited' = exited \cup {s}
    /\ queue' = [queue EXCEPT ![s] = Tail(@)]
    /\ UNCHANGED <<workers, running, pendingKeys, identity, stopping, accepted,
                   finished>>

\* stop(): the sentinel goes behind whatever is queued, then the workers are
\* awaited (nothing to model: they run on).
Stop ==
    /\ ~stopping
    /\ stopping' = TRUE
    /\ queue' = [s \in Symbols |->
                    IF s \in workers THEN Append(queue[s], Sentinel) ELSE queue[s]]
    /\ UNCHANGED <<workers, running, exited, pendingKeys, identity, accepted,
                   finished>>

Worker(s) == WorkerTakes(s) \/ WorkerFinishes(s) \/ WorkerExits(s)

Next ==
    \/ \E S \in SUBSET Symbols : Start(S)
    \/ \E s \in Symbols, k \in Keys, i \in Identities \cup {NoIdentity} :
          SubmitAccepted(s, k, i)
    \/ \E s \in Symbols : Worker(s)
    \/ Stop

\* A runner's awaits are bounded by the broker client's and SQLite's timeouts,
\* so the event loop gives every worker its next step.
Fairness == \A s \in Symbols : WF_vars(Worker(s))

Spec == Init /\ [][Next]_vars /\ Fairness

-----------------------------------------------------------------------------
\* The tasks of a symbol that are queued, without the sentinel.
QueuedAt(s) == {n \in 1..Len(queue[s]) : queue[s][n] # Sentinel}

\* Type invariant.
TypeOK ==
    /\ workers \subseteq Symbols
    /\ exited \subseteq workers
    /\ queue \in [Symbols -> Seq(Tasks \cup {Sentinel})]
    /\ running \in [Symbols -> Tasks \cup {Idle}]
    /\ pendingKeys \in [Symbols -> SUBSET Keys]
    /\ identity \in [Symbols -> [Keys -> Identities \cup {NoIdentity}]]
    /\ stopping \in BOOLEAN
    /\ accepted \in [Symbols -> Nat]
    /\ finished \in [Symbols -> Seq(Nat)]

\* Two tasks with one key are never outstanding together, counting the one
\* whose runner is executing: a manage, exit or flatten submitted while an
\* earlier one is still awaiting the broker is refused (submit returns False),
\* so the same deployment's handler never runs twice over one stale position.
KeyOutstandingOnce ==
    \A s \in Symbols :
        /\ \A m, n \in QueuedAt(s) :
              queue[s][m].key = queue[s][n].key => m = n
        /\ running[s] # Idle =>
              \A n \in QueuedAt(s) : queue[s][n].key # running[s].key

\* A key is in _pending_keys exactly while a task with it is queued or
\* executing: none leaks (which would silence the key for the session) and
\* none is released early (which would let a second copy in).
PendingIffOutstanding ==
    \A s \in Symbols :
        pendingKeys[s] =
            {queue[s][n].key : n \in QueuedAt(s)}
              \cup (IF running[s] = Idle THEN {} ELSE {running[s].key})

\* A coalescing identity never outlives its task: pending_identity() only
\* answers for keys that are pending, so a coalesced signal is attributed to
\* the task that is really in flight.
IdentityOnlyWhilePending ==
    \A s \in Symbols, k \in Keys :
        identity[s][k] # NoIdentity => k \in pendingKeys[s]

\* The bookkeeping of SymbolExecutionDispatcher matches what is outstanding: no
\* key twice, no key leaked or released early, no identity without its task.
TasksAccountedFor == KeyOutstandingOnce /\ PendingIffOutstanding /\ IdentityOnlyWhilePending

\* Serial FIFO execution without loss or repetition: finished tasks, the one
\* executing and the queued ones are the accepted submissions in order.
FifoExactlyOnce ==
    \A s \in Symbols :
        LET f == Len(finished[s])
            r == IF running[s] = Idle THEN 0 ELSE 1
        IN  /\ \A n \in 1..f : finished[s][n] = n
            /\ r = 1 => running[s].no = f + 1
            /\ Cardinality(QueuedAt(s)) = accepted[s] - f - r
            /\ \A m \in QueuedAt(s) :
                  queue[s][m].no =
                      f + r + Cardinality({n \in QueuedAt(s) : n <= m})

=============================================================================
