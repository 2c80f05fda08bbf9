--------------------------- MODULE Session_proof ----------------------------
(***************************************************************************)
(* What the dispatcher promises, proved for any number of symbols, keys    *)
(* and tasks, and carried over to the session that uses it: every step of  *)
(* the session is a step of the dispatcher or leaves it alone.  Then what  *)
(* the session promises about what it holds and sells, which rests on the  *)
(* dispatcher's promise that a running exit's key is pending.              *)
(***************************************************************************)
EXTENDS Session, SequenceTheorems, FunctionTheorems, FiniteSetTheorems, TLAPS

-----------------------------------------------------------------------------
(* The inductive invariant                                                 *)

\* A symbol without a worker has nothing outstanding.
Unstarted ==
    \A s \in Symbols \ workers :
        /\ queue[s] = <<>> /\ running[s] = Idle
        /\ pendingKeys[s] = {}
        /\ \A k \in Keys : identity[s][k] = NoIdentity

IInv ==
    /\ TypeOK
    /\ Unstarted
    /\ KeyOutstandingOnce
    /\ PendingIffOutstanding
    /\ IdentityOnlyWhilePending

\* The same for one symbol, in the form the steps need it.
Orderly(s) ==
    /\ s \notin workers => /\ queue[s] = <<>> /\ running[s] = Idle
                          /\ pendingKeys[s] = {}
                          /\ \A k \in Keys : identity[s][k] = NoIdentity
    /\ \A m, n \in QueuedAt(s) : queue[s][m].key = queue[s][n].key => m = n
    /\ running[s] # Idle => \A n \in QueuedAt(s) : queue[s][n].key # running[s].key
    /\ \A n \in QueuedAt(s) : queue[s][n].key \in pendingKeys[s]
    /\ running[s] # Idle => running[s].key \in pendingKeys[s]
    /\ \A k \in pendingKeys[s] :
          \/ running[s] # Idle /\ running[s].key = k
          \/ \E n \in QueuedAt(s) : queue[s][n].key = k
    /\ \A k \in Keys : identity[s][k] # NoIdentity => k \in pendingKeys[s]

-----------------------------------------------------------------------------
(* Types                                                                   *)

LEMMA InitInv == Init => IInv
<1> SUFFICES ASSUME Init PROVE IInv
  OBVIOUS
<1> USE DEF Init
<1>1. TypeOK
  <2>1. <<>> \in Seq(Tasks \cup {Sentinel}) /\ <<>> \in Seq(Nat)
    OBVIOUS
  <2>2. identity \in [Symbols -> [Keys -> Identities \cup {NoIdentity}]]
    OBVIOUS
  <2>3. QED BY <2>1, <2>2 DEF TypeOK
<1>2. \A s \in Symbols : QueuedAt(s) = {}
  BY DEF QueuedAt
<1>3. Unstarted
  BY DEF Unstarted
<1>4. KeyOutstandingOnce
  BY <1>2 DEF KeyOutstandingOnce
<1>5. PendingIffOutstanding
  BY <1>2 DEF PendingIffOutstanding
<1>6. IdentityOnlyWhilePending
  BY DEF IdentityOnlyWhilePending
<1>7. QED BY <1>1, <1>3, <1>4, <1>5, <1>6 DEF IInv

LEMMA TaskType == ASSUME NEW k \in Keys, NEW n \in Nat
                  PROVE  /\ Task(k, n) \in Tasks
                         /\ Task(k, n).key = k
                         /\ Task(k, n) # Sentinel /\ Task(k, n) # Idle
  BY SentinelAssumption, IdleAssumption DEF Task, Tasks

LEMMA TypeStep == TypeOK /\ [Next]_vars => TypeOK'
<1> SUFFICES ASSUME TypeOK, [Next]_vars PROVE TypeOK'
  OBVIOUS
<1> USE DEF TypeOK
<1>1. ASSUME NEW S \in SUBSET Symbols, Start(S) PROVE TypeOK'
  BY <1>1 DEF Start
<1>2. ASSUME NEW s \in Symbols, NEW k \in Keys, NEW i \in Identities \cup {NoIdentity},
             SubmitAccepted(s, k, i)
      PROVE  TypeOK'
  <2>1. Task(k, accepted[s] + 1) \in Tasks
    BY TaskType
  <2>2. Append(queue[s], Task(k, accepted[s] + 1)) \in Seq(Tasks \cup {Sentinel})
    BY <2>1, AppendProperties
  <2>3. queue' \in [Symbols -> Seq(Tasks \cup {Sentinel})]
    BY <1>2, <2>2 DEF SubmitAccepted
  <2>4. QED BY <1>2, <2>3 DEF SubmitAccepted
<1>3. ASSUME NEW s \in Symbols, WorkerTakes(s) PROVE TypeOK'
  <2>1. /\ Head(queue[s]) \in Tasks
        /\ Tail(queue[s]) \in Seq(Tasks \cup {Sentinel})
    BY <1>3, HeadTailProperties DEF WorkerTakes
  <2>2. QED BY <1>3, <2>1 DEF WorkerTakes
<1>4. ASSUME NEW s \in Symbols, WorkerFinishes(s) PROVE TypeOK'
  <2>1. /\ running[s] \in Tasks
        /\ running[s].key \in Keys /\ running[s].no \in Nat
    BY <1>4 DEF WorkerFinishes, Tasks
  <2>2. Append(finished[s], running[s].no) \in Seq(Nat)
    BY <2>1, AppendProperties
  <2>3. QED BY <1>4, <2>1, <2>2 DEF WorkerFinishes
<1>5. ASSUME NEW s \in Symbols, WorkerExits(s) PROVE TypeOK'
  <2>1. Tail(queue[s]) \in Seq(Tasks \cup {Sentinel})
    BY <1>5, HeadTailProperties DEF WorkerExits
  <2>2. QED BY <1>5, <2>1 DEF WorkerExits
<1>6. ASSUME Stop PROVE TypeOK'
  <2>1. \A s \in Symbols : Append(queue[s], Sentinel) \in Seq(Tasks \cup {Sentinel})
    BY AppendProperties
  <2>2. QED BY <1>6, <2>1 DEF Stop
<1>7. CASE UNCHANGED vars
  BY <1>7 DEF vars
<1>8. QED BY <1>1, <1>2, <1>3, <1>4, <1>5, <1>6, <1>7 DEF Next, Worker

-----------------------------------------------------------------------------
(* What is queued, before and after a step of the queue                    *)

LEMMA QueuedAppend ==
  ASSUME TypeOK, NEW s \in Symbols, NEW t \in Tasks \cup {Sentinel},
         queue'[s] = Append(queue[s], t)
  PROVE  /\ \A n \in QueuedAt(s) : n \in QueuedAt(s)' /\ queue'[s][n] = queue[s][n]
         /\ t # Sentinel => Len(queue[s]) + 1 \in QueuedAt(s)'
         /\ queue'[s][Len(queue[s]) + 1] = t
         /\ \A n \in QueuedAt(s)' :
               n \in QueuedAt(s) \/ (n = Len(queue[s]) + 1 /\ t # Sentinel)
<1>1. queue[s] \in Seq(Tasks \cup {Sentinel})
  BY DEF TypeOK
<1>2. /\ Len(queue'[s]) = Len(queue[s]) + 1 /\ Len(queue[s]) \in Nat
      /\ \A n \in 1..Len(queue[s]) : queue'[s][n] = queue[s][n]
      /\ queue'[s][Len(queue[s]) + 1] = t
  BY <1>1, AppendProperties
<1>3. QED BY <1>2 DEF QueuedAt

LEMMA QueuedTail ==
  ASSUME TypeOK, NEW s \in Symbols, queue[s] # <<>>, queue'[s] = Tail(queue[s])
  PROVE  /\ \A n \in QueuedAt(s)' : n + 1 \in QueuedAt(s) /\ queue'[s][n] = queue[s][n + 1]
         /\ \A n \in QueuedAt(s) : n = 1 \/ (n - 1 \in QueuedAt(s)' /\ queue'[s][n - 1] = queue[s][n])
         /\ Head(queue[s]) = queue[s][1]
         /\ 1 \in QueuedAt(s) <=> Head(queue[s]) # Sentinel
         /\ QueuedAt(s) \subseteq Nat /\ QueuedAt(s)' \subseteq Nat
<1>1. queue[s] \in Seq(Tasks \cup {Sentinel})
  BY DEF TypeOK
<1>2. /\ Len(queue'[s]) = Len(queue[s]) - 1 /\ Len(queue[s]) \in Nat \ {0}
      /\ \A n \in 1..Len(queue'[s]) : queue'[s][n] = queue[s][n + 1]
      /\ Head(queue[s]) = queue[s][1]
  BY <1>1, HeadTailProperties
<1>3. QED BY <1>2 DEF QueuedAt

-----------------------------------------------------------------------------
(* The invariant, symbol by symbol                                         *)

LEMMA InvIsOrderly == IInv <=> TypeOK /\ \A s \in Symbols : Orderly(s)
<1>1. ASSUME IInv PROVE \A s \in Symbols : Orderly(s)
  BY <1>1 DEF IInv, Unstarted, KeyOutstandingOnce, PendingIffOutstanding,
              IdentityOnlyWhilePending, Orderly
<1>2. ASSUME TypeOK, \A s \in Symbols : Orderly(s) PROVE IInv
  <2>1. Unstarted
    BY <1>2 DEF Unstarted, Orderly
  <2>2. KeyOutstandingOnce
    BY <1>2 DEF KeyOutstandingOnce, Orderly
  <2>3. PendingIffOutstanding
    BY <1>2 DEF PendingIffOutstanding, Orderly
  <2>4. IdentityOnlyWhilePending
    BY <1>2 DEF IdentityOnlyWhilePending, Orderly
  <2>5. QED BY <1>2, <2>1, <2>2, <2>3, <2>4 DEF IInv
<1>3. QED BY <1>1, <1>2 DEF IInv

\* A step leaves the other symbols orderly.
LEMMA Untouched ==
  ASSUME NEW t \in Symbols, Orderly(t), workers \subseteq workers',
         queue'[t] = queue[t], running'[t] = running[t],
         pendingKeys'[t] = pendingKeys[t], identity'[t] = identity[t]
  PROVE  Orderly(t)'
  BY DEF Orderly, QueuedAt

LEMMA StartOrderly ==
  ASSUME TypeOK, NEW S \in SUBSET Symbols, Start(S), NEW t \in Symbols, Orderly(t)
  PROVE  Orderly(t)'
<1>1. CASE t \in S \ workers
  <2>1. /\ queue'[t] = <<>> /\ running'[t] = Idle /\ pendingKeys'[t] = {}
        /\ \A k \in Keys : identity'[t][k] = NoIdentity
    BY <1>1 DEF Start, Orderly, TypeOK
  <2>2. QueuedAt(t)' = {}
    BY <2>1 DEF QueuedAt
  <2>3. QED BY <2>1, <2>2 DEF Orderly
<1>2. CASE t \notin S \ workers
  BY <1>2, Untouched DEF Start, TypeOK
<1>3. QED BY <1>1, <1>2

LEMMA SubmitOrderly ==
  ASSUME TypeOK, NEW s \in Symbols, NEW k \in Keys, NEW i \in Identities \cup {NoIdentity},
         SubmitAccepted(s, k, i), Orderly(s)
  PROVE  Orderly(s)'
<1> DEFINE e == Task(k, accepted[s] + 1)
           z == Len(queue[s]) + 1
<1>1. e \in Tasks /\ e.key = k /\ e # Sentinel
  BY TaskType DEF TypeOK
<1>2. queue'[s] = Append(queue[s], e)
  BY DEF SubmitAccepted, TypeOK
<1>3. /\ \A n \in QueuedAt(s) : n \in QueuedAt(s)' /\ queue'[s][n] = queue[s][n]
      /\ z \in QueuedAt(s)' /\ queue'[s][z] = e
      /\ \A n \in QueuedAt(s)' : n \in QueuedAt(s) \/ n = z
  BY <1>1, <1>2, QueuedAppend
<1>4. /\ running'[s] = running[s] /\ workers' = workers /\ s \in workers
      /\ pendingKeys'[s] = pendingKeys[s] \cup {k} /\ k \notin pendingKeys[s]
      /\ \A x \in Keys \ {k} : identity'[s][x] = identity[s][x]
  BY DEF SubmitAccepted, TypeOK
<1> HIDE DEF e, z
<1>5. \A n \in QueuedAt(s) : queue[s][n].key # k
  BY <1>4 DEF Orderly
<1>6. running[s] # Idle => running[s].key # k
  BY <1>4 DEF Orderly
<1>7. \A m, n \in QueuedAt(s)' : queue'[s][m].key = queue'[s][n].key => m = n
  BY <1>1, <1>3, <1>5 DEF Orderly
<1>8. running'[s] # Idle => \A n \in QueuedAt(s)' : queue'[s][n].key # running'[s].key
  BY <1>1, <1>3, <1>4, <1>6 DEF Orderly
<1>9. /\ \A n \in QueuedAt(s)' : queue'[s][n].key \in pendingKeys'[s]
      /\ running'[s] # Idle => running'[s].key \in pendingKeys'[s]
  BY <1>1, <1>3, <1>4 DEF Orderly
<1>10. \A x \in pendingKeys'[s] :
          \/ running'[s] # Idle /\ running'[s].key = x
          \/ \E n \in QueuedAt(s)' : queue'[s][n].key = x
  BY <1>1, <1>3, <1>4 DEF Orderly
<1>11. \A x \in Keys : identity'[s][x] # NoIdentity => x \in pendingKeys'[s]
  BY <1>4 DEF Orderly
<1>12. QED BY <1>4, <1>7, <1>8, <1>9, <1>10, <1>11 DEF Orderly

LEMMA TakeOrderly ==
  ASSUME TypeOK, NEW s \in Symbols, WorkerTakes(s), Orderly(s)
  PROVE  Orderly(s)'
<1>1. queue[s] # <<>> /\ queue'[s] = Tail(queue[s])
  BY DEF WorkerTakes, TypeOK
<1>2. /\ \A n \in QueuedAt(s)' : n + 1 \in QueuedAt(s) /\ queue'[s][n] = queue[s][n + 1]
      /\ \A n \in QueuedAt(s) : n = 1 \/ (n - 1 \in QueuedAt(s)' /\ queue'[s][n - 1] = queue[s][n])
      /\ 1 \in QueuedAt(s) /\ Head(queue[s]) = queue[s][1]
      /\ QueuedAt(s) \subseteq Nat /\ QueuedAt(s)' \subseteq Nat /\ 0 \notin QueuedAt(s)'
  BY <1>1, QueuedTail DEF WorkerTakes, QueuedAt
<1>3. /\ running[s] = Idle /\ running'[s] = queue[s][1]
      /\ workers' = workers /\ s \in workers
      /\ pendingKeys'[s] = pendingKeys[s] /\ identity' = identity
  BY <1>2 DEF WorkerTakes, TypeOK
<1>4. \A m, n \in QueuedAt(s)' : queue'[s][m].key = queue'[s][n].key => m = n
  <2> TAKE m, n \in QueuedAt(s)'
  <2> HAVE queue'[s][m].key = queue'[s][n].key
  <2>1. /\ m + 1 \in QueuedAt(s) /\ n + 1 \in QueuedAt(s) /\ m \in Nat /\ n \in Nat
        /\ queue[s][m + 1].key = queue[s][n + 1].key
    BY <1>2
  <2>2. m + 1 = n + 1
    BY <2>1 DEF Orderly
  <2>3. QED BY <2>1, <2>2
<1>5. \A n \in QueuedAt(s)' : queue'[s][n].key # running'[s].key
  BY <1>2, <1>3 DEF Orderly
<1>6. /\ \A n \in QueuedAt(s)' : queue'[s][n].key \in pendingKeys'[s]
      /\ running'[s].key \in pendingKeys'[s]
  BY <1>2, <1>3 DEF Orderly
<1>7. running'[s] # Idle
  BY <1>2, <1>3, IdleAssumption DEF WorkerTakes, TypeOK, QueuedAt, Tasks
<1>8. \A k \in pendingKeys'[s] :
          \/ running'[s] # Idle /\ running'[s].key = k
          \/ \E n \in QueuedAt(s)' : queue'[s][n].key = k
  <2> TAKE k \in pendingKeys'[s]
  <2>1. PICK n \in QueuedAt(s) : queue[s][n].key = k
    BY <1>3 DEF Orderly
  <2>2. CASE n = 1
    BY <2>1, <2>2, <1>3, <1>7
  <2>3. CASE n # 1
    BY <2>1, <2>3, <1>2
  <2>4. QED BY <2>2, <2>3
<1>9. \A k \in Keys : identity'[s][k] # NoIdentity => k \in pendingKeys'[s]
  BY <1>3 DEF Orderly
<1>10. QED BY <1>3, <1>4, <1>5, <1>6, <1>8, <1>9 DEF Orderly

LEMMA FinishOrderly ==
  ASSUME TypeOK, NEW s \in Symbols, WorkerFinishes(s), Orderly(s)
  PROVE  Orderly(s)'
<1> DEFINE r == running[s].key
<1>1. /\ running[s] # Idle /\ running'[s] = Idle /\ workers' = workers /\ queue' = queue
      /\ pendingKeys'[s] = pendingKeys[s] \ {r}
  BY DEF WorkerFinishes, TypeOK
<1>2. /\ s \in workers
      /\ \A n \in QueuedAt(s) : queue[s][n].key # r
  BY <1>1 DEF Orderly
<1>3. QueuedAt(s)' = QueuedAt(s)
  BY <1>1 DEF QueuedAt
<1>4. \A k \in Keys : identity'[s][k] = IF k = r THEN NoIdentity ELSE identity[s][k]
  BY DEF WorkerFinishes, TypeOK
<1> HIDE DEF r
<1>5. \A k \in Keys : identity'[s][k] # NoIdentity => k \in pendingKeys'[s]
  BY <1>1, <1>4 DEF Orderly
<1>6. /\ \A n \in QueuedAt(s)' : queue'[s][n].key \in pendingKeys'[s]
      /\ \A m, n \in QueuedAt(s)' : queue'[s][m].key = queue'[s][n].key => m = n
  BY <1>1, <1>2, <1>3 DEF Orderly
<1>7. \A k \in pendingKeys'[s] : \E n \in QueuedAt(s)' : queue'[s][n].key = k
  BY <1>1, <1>3 DEF Orderly, r
<1>8. QED BY <1>1, <1>2, <1>5, <1>6, <1>7 DEF Orderly

LEMMA ExitOrderly ==
  ASSUME TypeOK, NEW s \in Symbols, WorkerExits(s), Orderly(s)
  PROVE  Orderly(s)'
<1>1. queue[s] # <<>> /\ queue'[s] = Tail(queue[s]) /\ Head(queue[s]) = Sentinel
  BY DEF WorkerExits, TypeOK
<1>2. \A n \in QueuedAt(s)' : n \in Nat /\ n + 1 \in QueuedAt(s) /\ queue'[s][n] = queue[s][n + 1]
  BY <1>1, QueuedTail
<1>3. \A n \in QueuedAt(s) : n - 1 \in QueuedAt(s)' /\ queue'[s][n - 1] = queue[s][n]
  BY <1>1, QueuedTail
<1>4. /\ running' = running /\ workers' = workers /\ s \in workers
      /\ pendingKeys' = pendingKeys /\ identity' = identity
  BY DEF WorkerExits
<1>5. \A m, n \in QueuedAt(s)' : queue'[s][m].key = queue'[s][n].key => m = n
  <2> TAKE m, n \in QueuedAt(s)'
  <2> HAVE queue'[s][m].key = queue'[s][n].key
  <2>1. m + 1 = n + 1
    BY <1>2 DEF Orderly
  <2>2. QED BY <1>2, <2>1
<1>6. \A n \in QueuedAt(s)' : queue'[s][n].key \in pendingKeys'[s]
  BY <1>2, <1>4 DEF Orderly
<1>7. running'[s] # Idle => \A n \in QueuedAt(s)' : queue'[s][n].key # running'[s].key
  BY <1>2, <1>4 DEF Orderly
<1>8. ASSUME NEW k \in pendingKeys'[s]
      PROVE  \/ running'[s] # Idle /\ running'[s].key = k
             \/ \E n \in QueuedAt(s)' : queue'[s][n].key = k
  <2>1. CASE running[s] # Idle /\ running[s].key = k
    BY <1>4, <2>1
  <2>2. CASE ~(running[s] # Idle /\ running[s].key = k)
    <3>1. PICK n \in QueuedAt(s) : queue[s][n].key = k
      BY <1>4, <2>2 DEF Orderly
    <3>2. QED BY <1>3, <3>1
  <2>3. QED BY <2>1, <2>2
<1>9. QED BY <1>4, <1>5, <1>6, <1>7, <1>8 DEF Orderly

LEMMA StopOrderly ==
  ASSUME TypeOK, Stop, NEW s \in Symbols, Orderly(s)
  PROVE  Orderly(s)'
<1>1. /\ running' = running /\ workers' = workers
      /\ pendingKeys' = pendingKeys /\ identity' = identity
  BY DEF Stop
<1>2. CASE s \in workers
  <2>1. queue'[s] = Append(queue[s], Sentinel)
    BY <1>2 DEF Stop
  <2>2. /\ \A n \in QueuedAt(s) : n \in QueuedAt(s)' /\ queue'[s][n] = queue[s][n]
        /\ \A n \in QueuedAt(s)' : n \in QueuedAt(s)
    BY <2>1, QueuedAppend
  <2>3. QED BY <1>1, <1>2, <2>2 DEF Orderly
<1>3. CASE s \notin workers
  BY <1>1, <1>3, Untouched DEF Stop
<1>4. QED BY <1>2, <1>3

LEMMA InvStep == IInv /\ [Next]_vars => IInv'
<1>0. (TypeOK /\ \A s \in Symbols : Orderly(s))' => IInv'
  BY InvIsOrderly, PTL
<1> SUFFICES ASSUME IInv, [Next]_vars PROVE \A t \in Symbols : Orderly(t)'
  BY <1>0, TypeStep DEF IInv
<1> TAKE t \in Symbols
<1>1. TypeOK /\ Orderly(t)
  BY InvIsOrderly
<1>2. ASSUME NEW S \in SUBSET Symbols, Start(S) PROVE Orderly(t)'
  BY <1>1, <1>2, StartOrderly
<1>3. ASSUME NEW s \in Symbols, NEW k \in Keys, NEW i \in Identities \cup {NoIdentity},
             SubmitAccepted(s, k, i)
      PROVE  Orderly(t)'
  <2>1. CASE t = s
    BY <1>1, <1>3, <2>1, SubmitOrderly
  <2>2. CASE t # s
    BY <1>1, <1>3, <2>2, Untouched DEF SubmitAccepted, TypeOK
  <2>3. QED BY <2>1, <2>2
<1>4. ASSUME NEW s \in Symbols, Worker(s) PROVE Orderly(t)'
  <2>1. CASE t = s
    BY <1>1, <1>4, <2>1, TakeOrderly, FinishOrderly, ExitOrderly DEF Worker
  <2>2. CASE t # s
    BY <1>1, <1>4, <2>2, Untouched
    DEF Worker, WorkerTakes, WorkerFinishes, WorkerExits, TypeOK
  <2>3. QED BY <2>1, <2>2
<1>5. ASSUME Stop PROVE Orderly(t)'
  BY <1>1, <1>5, StopOrderly
<1>6. CASE UNCHANGED vars
  BY <1>1, <1>6, Untouched DEF vars
<1>7. QED BY <1>2, <1>3, <1>4, <1>5, <1>6 DEF Next

-----------------------------------------------------------------------------
(* Serial, in order, exactly once                                          *)

\* The tasks queued at or before position m.
UpTo(s, m) == {n \in QueuedAt(s) : n <= m}

\* FifoExactlyOnce, for one symbol.
Taken(s) == Len(finished[s]) + (IF running[s] = Idle THEN 0 ELSE 1)
Serial(s) ==
    /\ \A n \in 1..Len(finished[s]) : finished[s][n] = n
    /\ running[s] # Idle => running[s].no = Len(finished[s]) + 1
    /\ Cardinality(QueuedAt(s)) = accepted[s] - Taken(s)
    /\ \A m \in QueuedAt(s) : queue[s][m].no = Taken(s) + Cardinality(UpTo(s, m))

LEMMA TakenType == ASSUME TypeOK, NEW s \in Symbols PROVE Taken(s) \in Nat
<1>1. Len(finished[s]) \in Nat
  BY DEF TypeOK
<1>2. CASE running[s] = Idle
  <2>1. Taken(s) = Len(finished[s]) + 0
    BY <1>2 DEF Taken
  <2>2. QED BY <1>1, <2>1
<1>3. CASE running[s] # Idle
  <2>1. Taken(s) = Len(finished[s]) + 1
    BY <1>3 DEF Taken
  <2>2. QED BY <1>1, <2>1
<1>4. QED BY <1>2, <1>3

LEMMA FifoIsSerial == TypeOK => (FifoExactlyOnce <=> \A s \in Symbols : Serial(s))
<1> SUFFICES ASSUME TypeOK, NEW s \in Symbols
             PROVE  LET f == Len(finished[s])
                        r == IF running[s] = Idle THEN 0 ELSE 1
                    IN  (/\ \A n \in 1..f : finished[s][n] = n
                         /\ r = 1 => running[s].no = f + 1
                         /\ Cardinality(QueuedAt(s)) = accepted[s] - f - r
                         /\ \A m \in QueuedAt(s) :
                               queue[s][m].no = f + r + Cardinality({n \in QueuedAt(s) : n <= m}))
                        <=> Serial(s)
  BY DEF FifoExactlyOnce
<1>1. Len(finished[s]) \in Nat /\ accepted[s] \in Nat
  BY DEF TypeOK
<1> DEFINE f == Len(finished[s])
           r == IF running[s] = Idle THEN 0 ELSE 1
<1>2. Taken(s) = f + r /\ r \in Nat /\ (r = 1 <=> running[s] # Idle)
  BY <1>1 DEF Taken
<1>3. accepted[s] - f - r = accepted[s] - Taken(s)
  <2>1. \A a, b, c \in Nat : a - b - c = a - (b + c)
    OBVIOUS
  <2> HIDE DEF f, r
  <2>2. f \in Nat /\ r \in Nat
    BY <1>1, <1>2 DEF f
  <2>3. QED BY <1>1, <1>2, <2>1, <2>2
<1>4. \A m : {n \in QueuedAt(s) : n <= m} = UpTo(s, m)
  BY DEF UpTo
<1> HIDE DEF r
<1>5. QED BY <1>2, <1>3, <1>4 DEF Serial, r

\* Queued positions are finite sets of numbers.
LEMMA QueuedFinite ==
  ASSUME TypeOK, NEW s \in Symbols
  PROVE  /\ QueuedAt(s) \subseteq Nat \ {0} /\ IsFiniteSet(QueuedAt(s))
         /\ Cardinality(QueuedAt(s)) \in Nat
         /\ \A m : IsFiniteSet(UpTo(s, m)) /\ Cardinality(UpTo(s, m)) \in Nat
<1>1. queue[s] \in Seq(Tasks \cup {Sentinel}) /\ Len(queue[s]) \in Nat
  BY DEF TypeOK
<1>2. IsFiniteSet(1..Len(queue[s]))
  BY <1>1, FS_Interval
<1>3. QueuedAt(s) \subseteq 1..Len(queue[s])
  BY DEF QueuedAt
<1>4. IsFiniteSet(QueuedAt(s))
  BY <1>2, <1>3, FS_Subset
<1>5. \A m : IsFiniteSet(UpTo(s, m))
  <2> TAKE m
  <2>1. UpTo(s, m) \subseteq QueuedAt(s)
    BY DEF UpTo
  <2>2. QED BY <1>4, <2>1, FS_Subset
<1>6. QED BY <1>1, <1>3, <1>4, <1>5, FS_CardinalityType

\* Moving every number down by one keeps the size of a set.
LEMMA Shifted ==
  ASSUME NEW A, NEW B, A \subseteq Int, IsFiniteSet(A),
         \A n \in A : n - 1 \in B, \A n \in B : n \in Int /\ n + 1 \in A
  PROVE  IsFiniteSet(B) /\ Cardinality(B) = Cardinality(A)
<1> DEFINE f == [n \in A |-> n - 1]
<1>1. f \in [A -> B]
  OBVIOUS
<1>2. \A m, n \in A : f[m] = f[n] => m = n
  OBVIOUS
<1>3. \A n \in B : \E m \in A : f[m] = n
  <2> TAKE n \in B
  <2>1. n + 1 \in A /\ f[n + 1] = n
    OBVIOUS
  <2>2. QED BY <2>1
<1>4. f \in Bijection(A, B)
  BY <1>1, <1>2, <1>3, Fun_IsBij
<1>5. ExistsBijection(A, B)
  BY <1>4, Fun_ExistsBij
<1>6. QED BY <1>5, FS_Bijection

\* What leaves the head of the queue was the first of what is queued.
LEMMA TailCounts ==
  ASSUME TypeOK, TypeOK', NEW s \in Symbols, queue[s] # <<>>, queue'[s] = Tail(queue[s])
  PROVE  LET d == IF Head(queue[s]) = Sentinel THEN 0 ELSE 1 IN
         /\ Cardinality(QueuedAt(s)') = Cardinality(QueuedAt(s)) - d
         /\ \A m \in QueuedAt(s)' :
               Cardinality(UpTo(s, m)') = Cardinality(UpTo(s, m + 1)) - d
<1>1. /\ \A n \in QueuedAt(s)' : n + 1 \in QueuedAt(s) /\ queue'[s][n] = queue[s][n + 1]
      /\ \A n \in QueuedAt(s) : n = 1 \/ (n - 1 \in QueuedAt(s)' /\ queue'[s][n - 1] = queue[s][n])
      /\ 1 \in QueuedAt(s) <=> Head(queue[s]) # Sentinel
  BY QueuedTail
<1>2. /\ QueuedAt(s) \subseteq Nat \ {0} /\ IsFiniteSet(QueuedAt(s))
      /\ \A m : IsFiniteSet(UpTo(s, m)) /\ Cardinality(UpTo(s, m)) \in Nat
      /\ Cardinality(QueuedAt(s)) \in Nat
  BY QueuedFinite
<1>3. QueuedAt(s)' \subseteq Nat \ {0}
  <2>1. (queue[s] \in Seq(Tasks \cup {Sentinel}))'
    BY DEF TypeOK
  <2>2. QED BY <2>1 DEF QueuedAt
<1> DEFINE d == IF Head(queue[s]) = Sentinel THEN 0 ELSE 1
<1>4. Cardinality(QueuedAt(s)') = Cardinality(QueuedAt(s)) - d
  <2> DEFINE A == QueuedAt(s) \ {1}
  <2>1. IsFiniteSet(A) /\ Cardinality(A) = Cardinality(QueuedAt(s)) - d
    BY <1>1, <1>2, FS_RemoveElement
  <2>2. A \subseteq Int /\ \A n \in A : n - 1 \in QueuedAt(s)'
    BY <1>1, <1>2
  <2>3. \A n \in QueuedAt(s)' : n \in Int /\ n + 1 \in A
    BY <1>1, <1>3
  <2> HIDE DEF A, d
  <2>4. Cardinality(QueuedAt(s)') = Cardinality(A)
    BY <2>1, <2>2, <2>3, Shifted
  <2>5. QED BY <2>1, <2>4
<1>5. ASSUME NEW m \in QueuedAt(s)'
      PROVE  Cardinality(UpTo(s, m)') = Cardinality(UpTo(s, m + 1)) - d
  <2> DEFINE C == UpTo(s, m + 1)
             A == C \ {1}
             B == UpTo(s, m)'
  <2>0. m \in Nat \ {0}
    BY <1>3
  <2>1. 1 \in C <=> Head(queue[s]) # Sentinel
    BY <1>1, <2>0 DEF UpTo
  <2>a. IsFiniteSet(C) /\ Cardinality(C) \in Nat
    BY <1>2
  <2> HIDE DEF C
  <2>2. IsFiniteSet(A) /\ Cardinality(A) = Cardinality(C) - d
    <3>1. IsFiniteSet(A) /\ Cardinality(A) = IF 1 \in C THEN Cardinality(C) - 1 ELSE Cardinality(C)
      BY <2>a, FS_RemoveElement
    <3>2. QED BY <2>a, <2>1, <3>1
  <2> USE DEF C
  <2>3. A \subseteq Int /\ \A n \in A : n - 1 \in B
    BY <1>1, <1>2, <2>0 DEF UpTo
  <2>4. \A n \in B : n \in Int /\ n + 1 \in A
    BY <1>1, <1>3, <2>0 DEF UpTo
  <2> HIDE DEF A, B, C, d
  <2>5. Cardinality(B) = Cardinality(A)
    BY <2>2, <2>3, <2>4, Shifted
  <2>6. QED BY <2>2, <2>5 DEF B, C
<1>6. QED BY <1>4, <1>5

\* A step leaves the other symbols' order alone.
LEMMA SerialUntouched ==
  ASSUME NEW t \in Symbols, Serial(t), queue'[t] = queue[t], running'[t] = running[t],
         accepted'[t] = accepted[t], finished'[t] = finished[t]
  PROVE  Serial(t)'
<1>1. QueuedAt(t)' = QueuedAt(t)
  BY DEF QueuedAt
<1>2. \A m : UpTo(t, m)' = UpTo(t, m)
  BY <1>1 DEF UpTo
<1>3. Taken(t)' = Taken(t)
  BY DEF Taken
<1>4. QED BY <1>1, <1>2, <1>3 DEF Serial

LEMMA SubmitSerial ==
  ASSUME TypeOK, NEW s \in Symbols, NEW k \in Keys, NEW i \in Identities \cup {NoIdentity},
         SubmitAccepted(s, k, i), Serial(s)
  PROVE  Serial(s)'
<1> DEFINE e == Task(k, accepted[s] + 1)
<1>1. /\ e \in Tasks /\ e # Sentinel /\ e.no = accepted[s] + 1
      /\ accepted[s] \in Nat /\ Len(finished[s]) \in Nat /\ Len(queue[s]) \in Nat
  BY TaskType DEF TypeOK, Task
<1>2. /\ queue'[s] = Append(queue[s], e) /\ accepted'[s] = accepted[s] + 1
      /\ running'[s] = running[s] /\ finished'[s] = finished[s]
  BY DEF SubmitAccepted, TypeOK
<1>a. PICK z \in Nat : z = Len(queue[s]) + 1
  BY <1>1
<1> HIDE DEF e
<1>3. /\ \A n \in QueuedAt(s) : n \in QueuedAt(s)' /\ queue'[s][n] = queue[s][n]
      /\ z \in QueuedAt(s)' /\ queue'[s][z] = e
      /\ \A n \in QueuedAt(s)' : n \in QueuedAt(s) \/ n = z
  BY <1>1, <1>2, <1>a, QueuedAppend
<1>4. /\ QueuedAt(s) \subseteq Nat /\ IsFiniteSet(QueuedAt(s)) /\ Cardinality(QueuedAt(s)) \in Nat
      /\ \A m : Cardinality(UpTo(s, m)) \in Nat
  BY QueuedFinite
<1>5. \A n \in QueuedAt(s) : n < z
  BY <1>1, <1>a DEF QueuedAt
<1>6. Taken(s)' = Taken(s) /\ Taken(s) \in Nat
  <2>1. Taken(s)' = Taken(s)
    BY <1>2 DEF Taken
  <2>2. QED BY <2>1, TakenType
<1>7. z \notin QueuedAt(s)
  BY <1>5
<1>8. QueuedAt(s)' = QueuedAt(s) \cup {z}
  BY <1>3
<1>9. Cardinality(QueuedAt(s)') = Cardinality(QueuedAt(s)) + 1
  BY <1>4, <1>7, <1>8, FS_AddElement
<1>10. UpTo(s, z)' = QueuedAt(s)'
  <2>1. \A n \in QueuedAt(s)' : n <= z
    BY <1>4, <1>5, <1>7, <1>8
  <2>2. QED BY <2>1 DEF UpTo
<1>11. ASSUME NEW m \in QueuedAt(s) PROVE UpTo(s, m)' = UpTo(s, m)
  <2>1. ~(z <= m) /\ m \in Nat
    BY <1>4, <1>5, <1>7
  <2>2. QED BY <1>8, <2>1 DEF UpTo
<1>12. ASSUME NEW m \in QueuedAt(s)'
       PROVE  queue'[s][m].no = Taken(s)' + Cardinality(UpTo(s, m)')
  <2>1. CASE m \in QueuedAt(s)
    BY <1>3, <1>6, <1>11, <2>1 DEF Serial
  <2>2. CASE m = z
    <3>1. queue'[s][m].no = accepted[s] + 1
      BY <1>1, <1>3, <2>2
    <3>2. Cardinality(UpTo(s, m)') = Cardinality(QueuedAt(s)) + 1
      BY <1>9, <1>10, <2>2
    <3>3. Cardinality(QueuedAt(s)) = accepted[s] - Taken(s)
      BY DEF Serial
    <3>4. QED BY <1>1, <1>4, <1>6, <3>1, <3>2, <3>3
  <2>3. QED BY <1>3, <2>1, <2>2
<1>13. Cardinality(QueuedAt(s)') = accepted'[s] - Taken(s)'
  BY <1>1, <1>2, <1>4, <1>6, <1>9 DEF Serial
<1>14. QED BY <1>2, <1>12, <1>13 DEF Serial

LEMMA TakeSerial ==
  ASSUME TypeOK, TypeOK', NEW s \in Symbols, WorkerTakes(s), Serial(s)
  PROVE  Serial(s)'
<1>1. /\ queue[s] # <<>> /\ queue'[s] = Tail(queue[s]) /\ Head(queue[s]) # Sentinel
      /\ running[s] = Idle /\ running'[s] = Head(queue[s])
      /\ accepted'[s] = accepted[s] /\ finished'[s] = finished[s]
      /\ accepted[s] \in Nat /\ Len(finished[s]) \in Nat
  BY DEF WorkerTakes, TypeOK
<1>2. /\ \A n \in QueuedAt(s)' : n + 1 \in QueuedAt(s) /\ queue'[s][n] = queue[s][n + 1]
      /\ 1 \in QueuedAt(s) /\ Head(queue[s]) = queue[s][1]
  BY <1>1, QueuedTail
<1>3. /\ QueuedAt(s) \subseteq Nat \ {0}
      /\ \A m : Cardinality(UpTo(s, m)) \in Nat
      /\ Cardinality(QueuedAt(s)) \in Nat
  BY QueuedFinite
<1>4. /\ Cardinality(QueuedAt(s)') = Cardinality(QueuedAt(s)) - 1
      /\ \A m \in QueuedAt(s)' : Cardinality(UpTo(s, m)') = Cardinality(UpTo(s, m + 1)) - 1
  BY <1>1, TailCounts
<1>5. running'[s] # Idle
  BY <1>1, <1>2, IdleAssumption DEF TypeOK, QueuedAt, Tasks
<1>6. Taken(s) = Len(finished[s]) /\ Taken(s)' = Len(finished[s]) + 1
  BY <1>1, <1>5 DEF Taken
<1>7. Cardinality(UpTo(s, 1)) = 1
  <2>1. UpTo(s, 1) = {1}
    BY <1>2, <1>3 DEF UpTo
  <2>2. QED BY <2>1, FS_Singleton
<1>8. running'[s].no = Len(finished'[s]) + 1
  BY <1>1, <1>2, <1>6, <1>7 DEF Serial
<1>9. ASSUME NEW m \in QueuedAt(s)'
      PROVE  queue'[s][m].no = Taken(s)' + Cardinality(UpTo(s, m)')
  <2>1. queue'[s][m].no = Taken(s) + Cardinality(UpTo(s, m + 1))
    BY <1>2 DEF Serial
  <2>2. Cardinality(UpTo(s, m)') = Cardinality(UpTo(s, m + 1)) - 1 /\ Cardinality(UpTo(s, m + 1)) \in Nat
    BY <1>3, <1>4
  <2>3. \A a, b \in Nat : a + b = (a + 1) + (b - 1)
    OBVIOUS
  <2>4. QED BY <1>1, <1>6, <2>1, <2>2, <2>3
<1>10. Cardinality(QueuedAt(s)') = accepted'[s] - Taken(s)'
  <2>1. Cardinality(QueuedAt(s)) = accepted[s] - Taken(s)
    BY DEF Serial
  <2>2. QED BY <1>1, <1>3, <1>4, <1>6, <2>1
<1>11. QED BY <1>1, <1>8, <1>9, <1>10 DEF Serial

LEMMA FinishSerial ==
  ASSUME TypeOK, NEW s \in Symbols, WorkerFinishes(s), Serial(s)
  PROVE  Serial(s)'
<1> DEFINE f == finished[s]
<1>1. /\ running[s] # Idle /\ running'[s] = Idle /\ queue'[s] = queue[s]
      /\ accepted'[s] = accepted[s] /\ finished'[s] = Append(f, running[s].no)
      /\ f \in Seq(Nat) /\ Len(f) \in Nat /\ running[s].no \in Nat
  BY DEF WorkerFinishes, TypeOK, Tasks
<1>2. /\ Len(finished'[s]) = Len(f) + 1
      /\ \A n \in 1..Len(f) : finished'[s][n] = f[n]
      /\ finished'[s][Len(f) + 1] = running[s].no
  BY <1>1, AppendProperties
<1>3. \A n \in 1..Len(finished'[s]) : finished'[s][n] = n
  BY <1>1, <1>2 DEF Serial
<1>4. QueuedAt(s)' = QueuedAt(s)
  BY <1>1 DEF QueuedAt
<1>5. \A m : UpTo(s, m)' = UpTo(s, m)
  BY <1>4 DEF UpTo
<1>6. Taken(s)' = Taken(s)
  BY <1>1, <1>2 DEF Taken
<1>7. QED BY <1>1, <1>3, <1>4, <1>5, <1>6 DEF Serial

LEMMA ExitSerial ==
  ASSUME TypeOK, TypeOK', NEW s \in Symbols, WorkerExits(s), Serial(s)
  PROVE  Serial(s)'
<1>1. /\ queue[s] # <<>> /\ queue'[s] = Tail(queue[s]) /\ Head(queue[s]) = Sentinel
      /\ running'[s] = running[s] /\ accepted'[s] = accepted[s] /\ finished'[s] = finished[s]
  BY DEF WorkerExits, TypeOK
<1>2. \A n \in QueuedAt(s)' : n + 1 \in QueuedAt(s) /\ queue'[s][n] = queue[s][n + 1]
  BY <1>1, QueuedTail
<1>3. /\ \A m : Cardinality(UpTo(s, m)) \in Nat
      /\ Cardinality(QueuedAt(s)) \in Nat
  BY QueuedFinite
<1>4. /\ Cardinality(QueuedAt(s)') = Cardinality(QueuedAt(s))
      /\ \A m \in QueuedAt(s)' : Cardinality(UpTo(s, m)') = Cardinality(UpTo(s, m + 1))
  BY <1>1, <1>3, TailCounts
<1>5. Taken(s)' = Taken(s)
  BY <1>1 DEF Taken
<1>6. QED BY <1>1, <1>2, <1>4, <1>5 DEF Serial

LEMMA StopSerial ==
  ASSUME TypeOK, Stop, NEW s \in Symbols, Serial(s)
  PROVE  Serial(s)'
<1>1. running' = running /\ accepted' = accepted /\ finished' = finished
  BY DEF Stop
<1>2. CASE s \in workers
  <2>1. queue'[s] = Append(queue[s], Sentinel)
    BY <1>2 DEF Stop
  <2>2. /\ \A n \in QueuedAt(s) : n \in QueuedAt(s)' /\ queue'[s][n] = queue[s][n]
        /\ \A n \in QueuedAt(s)' : n \in QueuedAt(s)
    BY <2>1, QueuedAppend
  <2>3. QueuedAt(s)' = QueuedAt(s)
    BY <2>2
  <2>4. \A m : UpTo(s, m)' = UpTo(s, m)
    BY <2>3 DEF UpTo
  <2>5. Taken(s)' = Taken(s)
    BY <1>1 DEF Taken
  <2>6. QED BY <1>1, <2>2, <2>3, <2>4, <2>5 DEF Serial
<1>3. CASE s \notin workers
  BY <1>1, <1>3, SerialUntouched DEF Stop
<1>4. QED BY <1>2, <1>3

LEMMA FifoStep == IInv /\ FifoExactlyOnce /\ [Next]_vars => FifoExactlyOnce'
<1>0. TypeOK' => (FifoExactlyOnce' <=> (\A s \in Symbols : Serial(s))')
  BY FifoIsSerial, PTL
<1> SUFFICES ASSUME IInv, FifoExactlyOnce, [Next]_vars PROVE \A t \in Symbols : Serial(t)'
  BY <1>0, TypeStep DEF IInv
<1> TAKE t \in Symbols
<1>1. TypeOK /\ TypeOK' /\ Serial(t)
  BY FifoIsSerial, TypeStep DEF IInv
<1>2. ASSUME NEW S \in SUBSET Symbols, Start(S) PROVE Serial(t)'
  <2>1. t \notin workers => queue[t] = <<>>
    BY DEF IInv, Unstarted
  <2>2. /\ queue'[t] = queue[t] /\ running'[t] = running[t]
        /\ accepted'[t] = accepted[t] /\ finished'[t] = finished[t]
    BY <1>2, <2>1 DEF Start
  <2>3. QED BY <1>1, <2>2, SerialUntouched
<1>3. ASSUME NEW s \in Symbols, NEW k \in Keys, NEW i \in Identities \cup {NoIdentity},
             SubmitAccepted(s, k, i)
      PROVE  Serial(t)'
  <2>1. CASE t = s
    BY <1>1, <1>3, <2>1, SubmitSerial
  <2>2. CASE t # s
    BY <1>1, <1>3, <2>2, SerialUntouched DEF SubmitAccepted, TypeOK
  <2>3. QED BY <2>1, <2>2
<1>4. ASSUME NEW s \in Symbols, Worker(s) PROVE Serial(t)'
  <2>1. CASE t = s
    BY <1>1, <1>4, <2>1, TakeSerial, FinishSerial, ExitSerial DEF Worker
  <2>2. CASE t # s
    BY <1>1, <1>4, <2>2, SerialUntouched
    DEF Worker, WorkerTakes, WorkerFinishes, WorkerExits, TypeOK
  <2>3. QED BY <2>1, <2>2
<1>5. ASSUME Stop PROVE Serial(t)'
  BY <1>1, <1>5, StopSerial
<1>6. CASE UNCHANGED vars
  BY <1>1, <1>6, SerialUntouched DEF vars
<1>7. QED BY <1>2, <1>3, <1>4, <1>5, <1>6 DEF Next

LEMMA FifoStart == Init => FifoExactlyOnce
<1> SUFFICES ASSUME Init, NEW s \in Symbols PROVE Serial(s)
  BY InitInv, FifoIsSerial DEF IInv
<1>1. QueuedAt(s) = {} /\ accepted[s] = 0 /\ finished[s] = <<>> /\ running[s] = Idle
  BY DEF Init, QueuedAt
<1>2. Cardinality(QueuedAt(s)) = 0
  BY <1>1, FS_EmptySet
<1>3. QED BY <1>1, <1>2 DEF Serial, Taken

-----------------------------------------------------------------------------
(* The session uses the dispatcher through its operations only             *)

LEMMA SessionStep == [SessionNext]_sessionVars => [Next]_vars
<1> SUFFICES ASSUME [SessionNext]_sessionVars PROVE [Next]_vars
  OBVIOUS
<1> USE DEF dispatcher, vars
<1>1. ASSUME NEW s \in Symbols, NEW k \in Keys, NEW i \in Identities \cup {NoIdentity},
             Queues(s, k, i)
      PROVE  [Next]_vars
  BY <1>1 DEF Queues, Next
<1>2. {HardFlat, EmergencyFlat, Manage, Exit, Entry} \subseteq Keys
  BY KeysAssumption
<1>3. ASSUME NEW s \in Symbols, Bar(s) PROVE [Next]_vars
  BY <1>1, <1>2, <1>3 DEF Bar, BarArrives, BookActions, QueueEmergencyFlat, ReadPositions,
     QueueHardFlat, QueueManage, QueueExit, QueueEntry, BarFails, QueuesWithView
<1>4. ASSUME NEW s \in Symbols, IntrabarEntry(s) PROVE [Next]_vars
  BY <1>1, <1>2, <1>4 DEF IntrabarEntry
<1>5. ASSUME NEW s \in Symbols, Runner(s) PROVE [Next]_vars
  <2>1. CASE Take(s) \/ Finish(s) \/ Leave(s)
    BY <2>1 DEF Take, Finish, Leave, Next, Worker
  <2>2. CASE RunFlat(s) \/ RunExit(s) \/ RunManage(s) \/ Consult(s) \/ RunEntry(s)
    BY <2>2 DEF RunFlat, RunExit, RunManage, Consult, RunEntry
  <2>3. QED BY <1>5, <2>1, <2>2 DEF Runner
<1>6. CASE Open
  BY <1>6 DEF Open, Next
<1>7. CASE Close
  BY <1>7 DEF Close, Next
<1>8. ASSUME NEW s \in Symbols, SellFills(s) \/ StopFills(s) \/ Reconcile(s) PROVE [Next]_vars
  BY <1>8 DEF SellFills, StopFills, Reconcile
<1>9. CASE Cancel
  BY <1>9 DEF Cancel
<1>10. CASE UNCHANGED sessionVars
  BY <1>10 DEF sessionVars
<1>11. QED
  BY <1>3, <1>4, <1>5, <1>6, <1>7, <1>8, <1>9, <1>10 DEF SessionNext

\* The session keeps the dispatcher's invariant, whatever its symbols, bars and
\* bounds: the refinement in one direction, the promise in the other.
LEMMA DispatcherInv == SessionSpec => []IInv
<1>1. SessionInit => IInv
  BY InitInv DEF SessionInit
<1>2. IInv /\ [SessionNext]_sessionVars => IInv'
  BY InvStep, SessionStep
<1>3. QED BY <1>1, <1>2, PTL DEF SessionSpec

\* Every step the session takes is one of SymbolExecutionDispatcher's methods or
\* leaves its queues alone.
THEOREM SessionImplementsDispatcher == SessionSpec => Init /\ [][Next]_vars
<1>1. SessionInit => Init
  BY DEF SessionInit
<1>2. QED BY <1>1, SessionStep, PTL DEF SessionSpec

\* The dispatcher's type invariant.
THEOREM DispatcherTyped == SessionSpec => []TypeOK
  BY DispatcherInv, PTL DEF IInv

\* No key of SymbolExecutionDispatcher is outstanding twice, _pending_keys holds
\* exactly the keys that are queued or executing, and no identity outlives its task.
THEOREM TasksAccounted == SessionSpec => []TasksAccountedFor
<1>1. IInv => TasksAccountedFor
  BY DEF IInv, TasksAccountedFor
<1>2. QED BY <1>1, DispatcherInv, PTL

\* The worker of a symbol runs what submit() accepted once each and in the order
\* of acceptance: finished, running and queued tasks are the accepted ones in
\* sequence, also when stop() puts its sentinel between them.
THEOREM TasksRunInOrder == SessionSpec => []FifoExactlyOnce
<1>1. SessionInit => FifoExactlyOnce
  BY FifoStart DEF SessionInit
<1>2. IInv /\ FifoExactlyOnce /\ [SessionNext]_sessionVars => FifoExactlyOnce'
  BY FifoStep, SessionStep
<1>3. QED BY <1>1, <1>2, DispatcherInv, PTL DEF SessionSpec

-----------------------------------------------------------------------------
(* The inductive invariant of the session                                  *)

\* What the account holds is in the tracker, and for sale if it is exiting.
Tracked ==
    \A s \in Symbols :
        /\ pos[s].st = "none" => held[s] = 0
        /\ pos[s].st = "exiting" => held[s] <= sells[s]

\* The latches imply each other, and nothing is about to buy behind a flat.
Latched ==
    /\ flatten => halted
    /\ \A s \in flattened : flatten /\ step[s] # "allowed" /\ held[s] <= sells[s]

\* An exit is queued with an open position.
Closing == \A s \in Symbols : Exit \in pendingKeys[s] => carried[s][Exit].st = "open"

\* As long as no task acted on a changed position, tracker and broker agree on
\* what is for sale.
SoldOnce ==
    \A s \in Symbols \ stale :
        /\ pos[s].st # "exiting" => sells[s] = 0
        /\ pos[s].st = "open" /\ pos[s].trade \notin stopped[s] => held[s] = 1
        /\ pos[s].st = "exiting" => sells[s] = 1 /\ held[s] = 1

\* Every position any part of the session remembers is of a trade there was.
Numbered ==
    \A s \in Symbols :
        \A p \in {view[s], known[s], pos[s], carried[s][Manage], carried[s][Exit]} :
            p = None \/ (p.st \in {"open", "exiting"} /\ p.trade \in 1..bought[s])

SInv == SessionTypeOK /\ Numbered /\ Tracked /\ Latched /\ Closing /\ SoldOnce

LEMMA SessionInitInv == SessionInit => SInv
<1> SUFFICES ASSUME SessionInit PROVE SInv
  OBVIOUS
<1> USE DEF SessionInit, None, Position
<1>1. SessionTypeOK
  <2>1. pos \in [Symbols -> Positions]
    BY DEF Positions
  <2>2. view \in [Symbols -> Positions]
    BY DEF Positions
  <2>3. carried \in [Symbols -> [{Manage, Exit} -> Positions]]
    BY DEF Positions
  <2>4. {view, known, pos} \subseteq [Symbols -> Positions]
    BY <2>1, <2>2
  <2>5. {halt, halted, flatten, ending} \subseteq BOOLEAN
    OBVIOUS
  <2>6. at \in [Symbols -> Places] /\ step \in [Symbols -> {"begin", "allowed", "done"}]
    BY DEF Places
  <2>7. held \in [Symbols -> 0..1] /\ sells \in [Symbols -> Nat] /\ bought \in [Symbols -> Nat]
    OBVIOUS
  <2>8. /\ stopped \in [Symbols -> SUBSET Nat]
        /\ \A s \in Symbols : stopped[s] \subseteq 1..bought[s]
    OBVIOUS
  <2>9. flattened \subseteq Symbols /\ stale \subseteq Symbols
    OBVIOUS
  <2>10. QED BY <2>3, <2>4, <2>5, <2>6, <2>7, <2>8, <2>9, Zenon DEF SessionTypeOK
<1>2. Numbered
  BY DEF Numbered
<1>3. Tracked /\ Latched /\ SoldOnce
  BY DEF Tracked, Latched, SoldOnce
<1>4. Closing
  BY DEF Closing, Init
<1>5. QED BY <1>1, <1>2, <1>3, <1>4 DEF SInv

\* What the bar's submissions do to the positions a runner will act on.
LEMMA Submits ==
  ASSUME SInv, TypeOK, NEW s \in Symbols, NEW k \in {Manage, Exit},
         view[s].st # "none", k = Exit => view[s].st = "open", QueuesWithView(s, k)
  PROVE  /\ carried' \in [Symbols -> [{Manage, Exit} -> Positions]]
         /\ \A t \in Symbols, j \in {Manage, Exit} :
               carried'[t][j] = carried[t][j] \/ (t = s /\ j = k /\ carried'[t][j] = view[s])
         /\ Closing'
<1> USE DEF QueuesWithView, Queues, SInv, SessionTypeOK, TypeOK
<1>1. view[s] \in Positions
  OBVIOUS
<1>2. carried' \in [Symbols -> [{Manage, Exit} -> Positions]]
  BY <1>1
<1>3. \A t \in Symbols, j \in {Manage, Exit} :
         carried'[t][j] = carried[t][j] \/ (t = s /\ j = k /\ carried'[t][j] = view[s])
  OBVIOUS
<1>4. Closing'
  <2>1. CASE k \in pendingKeys[s]
    BY <2>1 DEF Closing, dispatcher
  <2>2. CASE k \notin pendingKeys[s]
    BY <2>2, ExitAssumption DEF Closing, SubmitAccepted
  <2>3. QED BY <2>1, <2>2
<1>5. QED BY <1>2, <1>3, <1>4

\* The parts of the session's type a step can touch one at a time.
TypePlaces == at \in [Symbols -> Places] /\ step \in [Symbols -> {"begin", "allowed", "done"}]
TypeFlags == {halt, halted, flatten, ending} \subseteq BOOLEAN
TypePositions == /\ {view, known, pos} \subseteq [Symbols -> Positions]
                 /\ carried \in [Symbols -> [{Manage, Exit} -> Positions]]
TypeBroker == /\ held \in [Symbols -> 0..1] /\ sells \in [Symbols -> Nat]
              /\ bought \in [Symbols -> Nat] /\ stopped \in [Symbols -> SUBSET Nat]
              /\ \A s \in Symbols : stopped[s] \subseteq 1..bought[s]
TypeHistory == flattened \subseteq Symbols /\ stale \subseteq Symbols

TypeAll == TypePlaces /\ TypeFlags /\ TypePositions /\ TypeBroker /\ TypeHistory

LEMMA TypeParts == (SessionTypeOK <=> TypeAll) /\ (SessionTypeOK' <=> TypeAll')
  BY Zenon DEF SessionTypeOK, TypeAll, TypePlaces, TypeFlags, TypePositions, TypeBroker, TypeHistory

\* A bar moves its handler, queues tasks and reads the flags.
LEMMA BarStep ==
  ASSUME SInv, TypeOK, NEW s \in Symbols, Bar(s) \/ IntrabarEntry(s)
  PROVE  SInv'
<1> USE DEF SInv
<1>1. UNCHANGED <<positions, step, ending, history>>
  BY DEF Bar, BarArrives, BookActions, QueueEmergencyFlat, ReadPositions, QueueHardFlat,
     QueueManage, QueueExit, QueueEntry, BarFails, IntrabarEntry
<1>2. TypePlaces /\ TypeFlags /\ TypePositions /\ TypeBroker /\ TypeHistory
  BY TypeParts DEF TypeAll
<1>3. TypeBroker' /\ TypeHistory' /\ Tracked' /\ SoldOnce'
  BY <1>1, <1>2 DEF TypeBroker, TypeHistory, Tracked, SoldOnce, positions, history
<1>4. TypePlaces'
  <2>1. at' = at \/ \E p \in Places : at' = [at EXCEPT ![s] = p]
    BY DEF Bar, BarArrives, BookActions, QueueEmergencyFlat, ReadPositions, QueueHardFlat,
       QueueManage, QueueExit, QueueEntry, BarFails, IntrabarEntry, Go, Done, Places, handlers
  <2>2. QED BY <1>1, <1>2, <2>1 DEF TypePlaces
<1>5. TypeFlags' /\ (flatten' => halted') /\ (flatten => flatten')
  <2>1. CASE BarArrives(s)
    BY <1>1, <1>2, <2>1 DEF BarArrives, TypeFlags, Latched
  <2>2. CASE BookActions(s)
    BY <1>1, <1>2, <2>2 DEF BookActions, TypeFlags, Latched
  <2>3. CASE UNCHANGED flags
    BY <1>1, <1>2, <2>3 DEF flags, TypeFlags, Latched
  <2>4. QED
    BY <2>1, <2>2, <2>3 DEF Bar, QueueEmergencyFlat, ReadPositions, QueueHardFlat,
       QueueManage, QueueExit, QueueEntry, BarFails, IntrabarEntry
<1>6. Latched'
  BY <1>1, <1>5 DEF Latched, positions, history
<1>7. TypePositions' /\ Numbered' /\ Closing'
  <2> DEFINE Other == UNCHANGED dispatcher \/ \E k \in Keys \ {Exit},
                           i \in Identities \cup {NoIdentity} : Queues(s, k, i)
             Viewed == {view, view'} \subseteq [Symbols -> Positions]
                       /\ \A t \in Symbols : view'[t] \in {view[t], known[t], None}
  <2>a. None \in Positions
    BY DEF None, Positions
  <2>b. ASSUME UNCHANGED carried, Other PROVE Closing'
    <3>1. \A t \in Symbols : Exit \in pendingKeys'[t] => Exit \in pendingKeys[t]
      <4>1. CASE UNCHANGED dispatcher
        BY <4>1 DEF dispatcher
      <4>2. ASSUME NEW k \in Keys \ {Exit}, NEW i \in Identities \cup {NoIdentity}, Queues(s, k, i)
            PROVE  \A t \in Symbols : Exit \in pendingKeys'[t] => Exit \in pendingKeys[t]
        <5>1. pendingKeys' = pendingKeys \/ pendingKeys' = [pendingKeys EXCEPT ![s] = @ \cup {k}]
          BY <4>2 DEF dispatcher, Queues, SubmitAccepted
        <5>2. pendingKeys \in [Symbols -> SUBSET Keys] /\ k # Exit
          BY DEF TypeOK
        <5>3. QED BY <5>1, <5>2
      <4>3. QED BY <2>b, <4>1, <4>2
    <3>2. QED BY <2>b, <3>1 DEF Closing
  <2>e. ASSUME carried' \in [Symbols -> [{Manage, Exit} -> Positions]],
               \A t \in Symbols, j \in {Manage, Exit} : carried'[t][j] \in {carried[t][j], view[t]},
               Viewed
        PROVE  TypePositions' /\ Numbered'
    <3>1. TypePositions'
      BY <1>1, <1>2, <2>e DEF TypePositions, positions
    <3>2. ASSUME NEW t \in Symbols,
                 NEW p \in {view[t], known[t], pos[t], carried[t][Manage], carried[t][Exit]}'
          PROVE  p = None \/ (p.st \in {"open", "exiting"} /\ p.trade \in 1..bought'[t])
      <4>1. p = None \/ p \in {view[t], known[t], pos[t], carried[t][Manage], carried[t][Exit]}
        BY <1>1, <2>e, <3>2 DEF positions
      <4>2. bought' = bought
        BY <1>1 DEF positions
      <4>3. QED BY <4>1, <4>2 DEF Numbered
    <3>3. QED BY <3>1, <3>2 DEF Numbered
  <2>c. ASSUME UNCHANGED carried, Viewed PROVE TypePositions' /\ Numbered'
    BY <1>2, <2>c, <2>e DEF TypePositions
  <2>d. Done(s) => Viewed
    BY <1>2, <2>a DEF Done, Viewed, TypePositions
  <2>1. CASE UNCHANGED <<view, carried>> /\ Other
    BY <1>2, <2>1, <2>b, <2>c DEF Viewed, TypePositions
  <2>2. CASE ReadPositions(s)
    <3>1. Viewed
      BY <1>2, <2>2 DEF ReadPositions, TypePositions
    <3>2. QED BY <2>2, <2>b, <2>c, <3>1 DEF ReadPositions
  <2>3. CASE Done(s) /\ UNCHANGED carried /\ Other
    BY <2>3, <2>b, <2>c, <2>d
  <2>4. CASE QueueManage(s) /\ view[s] # None
    <3>1. view[s].st # "none"
      BY <2>4 DEF Numbered
    <3>2. /\ carried' \in [Symbols -> [{Manage, Exit} -> Positions]]
          /\ \A t \in Symbols, j \in {Manage, Exit} :
                carried'[t][j] \in {carried[t][j], view[t]}
          /\ Closing'
      <4>1. QueuesWithView(s, Manage) /\ Manage # Exit
        BY <2>4, ExitAssumption DEF QueueManage
      <4>2. /\ carried' \in [Symbols -> [{Manage, Exit} -> Positions]]
            /\ \A t \in Symbols, j \in {Manage, Exit} :
                  \/ carried'[t][j] = carried[t][j]
                  \/ t = s /\ j = Manage /\ carried'[t][j] = view[s]
            /\ Closing'
        BY <3>1, <4>1, Submits
      <4>3. QED BY <4>2
    <3>3. Viewed
      BY <1>2, <2>4 DEF QueueManage, TypePositions
    <3>4. QED BY <2>e, <3>2, <3>3
  <2>5. CASE QueueExit(s) /\ QueuesWithView(s, Exit) /\ view[s].st = "open" /\ Done(s)
    <3>1. /\ carried' \in [Symbols -> [{Manage, Exit} -> Positions]]
          /\ \A t \in Symbols, j \in {Manage, Exit} :
                carried'[t][j] \in {carried[t][j], view[t]}
          /\ Closing'
      <4>1. QueuesWithView(s, Exit) /\ view[s].st = "open" /\ view[s].st # "none"
        BY <2>5
      <4>2. /\ carried' \in [Symbols -> [{Manage, Exit} -> Positions]]
            /\ \A t \in Symbols, j \in {Manage, Exit} :
                  \/ carried'[t][j] = carried[t][j]
                  \/ t = s /\ j = Exit /\ carried'[t][j] = view[s]
            /\ Closing'
        BY <4>1, Submits
      <4>3. QED BY <4>2
    <3>2. Viewed
      BY <2>5, <2>d
    <3>3. QED BY <2>e, <3>1, <3>2
  <2>6. QED
    BY <2>1, <2>2, <2>3, <2>4, <2>5, ExitAssumption, KeysAssumption
    DEF Bar, BarArrives, BookActions, QueueEmergencyFlat, QueueHardFlat, QueueManage, QueueExit,
        QueueEntry, BarFails, IntrabarEntry, handlers
<1>8. QED BY <1>3, <1>4, <1>5, <1>6, <1>7, TypeParts DEF TypeAll

\* The broker fills an order or reconciliation drops a position.
LEMMA WorldStep ==
  ASSUME SInv, NEW s \in Symbols, SellFills(s) \/ StopFills(s) \/ Reconcile(s)
  PROVE  SInv'
<1> USE DEF SInv
<1>1. UNCHANGED <<dispatcher, handlers, bought, step, flags, ending, history>>
  BY DEF SellFills, StopFills, Reconcile
<1>2. TypePlaces /\ TypeFlags /\ TypePositions /\ TypeBroker /\ TypeHistory
  BY TypeParts DEF TypeAll
<1>3. TypePlaces' /\ TypeFlags' /\ TypeHistory' /\ Closing'
  BY <1>1, <1>2 DEF TypePlaces, TypeFlags, TypeHistory, Closing, handlers, flags, history, dispatcher
<1>4. /\ pos' \in [Symbols -> Positions] /\ known' \in [Symbols -> Positions]
      /\ \A t \in Symbols : pos'[t] \in {pos[t], None} /\ known'[t] \in {known[t], pos[t], None}
  <2>1. None \in Positions
    BY DEF None, Positions
  <2>2. QED BY <1>2, <2>1 DEF SellFills, StopFills, Reconcile, TypePositions
<1>5. TypePositions'
  BY <1>1, <1>2, <1>4 DEF TypePositions, handlers
<1>6. Numbered'
  <2>1. ASSUME NEW t \in Symbols,
               NEW p \in {view[t], known[t], pos[t], carried[t][Manage], carried[t][Exit]}'
        PROVE  p = None \/ (p.st \in {"open", "exiting"} /\ p.trade \in 1..bought'[t])
    <3>1. p = None \/ p \in {view[t], known[t], pos[t], carried[t][Manage], carried[t][Exit]}
      BY <1>1, <1>4, <2>1 DEF handlers
    <3>2. QED BY <1>1, <3>1 DEF Numbered
  <2>2. QED BY <2>1 DEF Numbered
<1>7. TypeBroker'
  <2>1. CASE SellFills(s)
    BY <1>2, <2>1 DEF SellFills, TypeBroker
  <2>2. CASE StopFills(s)
    <3>1. pos[s].trade \in 1..bought[s]
      BY <2>2 DEF StopFills, Numbered, None
    <3>2. QED BY <1>2, <2>2, <3>1 DEF StopFills, TypeBroker
  <2>3. CASE Reconcile(s)
    BY <1>2, <2>3 DEF Reconcile, TypeBroker
  <2>4. QED BY <2>1, <2>2, <2>3
<1>8. ASSUME NEW t \in Symbols
      PROVE  /\ pos'[t].st = "none" => held'[t] = 0
             /\ pos'[t].st = "exiting" => held'[t] <= sells'[t]
             /\ held[t] <= sells[t] => held'[t] <= sells'[t]
  BY <1>2 DEF SellFills, StopFills, Reconcile, Tracked, TypeBroker, TypePositions, None
<1>9. Tracked' /\ Latched'
  BY <1>1, <1>2, <1>8 DEF Tracked, Latched, TypeHistory, flags, history
<1>10. SoldOnce'
  <2> SUFFICES ASSUME NEW t \in Symbols \ stale
               PROVE /\ pos'[t].st # "exiting" => sells'[t] = 0
                     /\ pos'[t].st = "open" /\ pos'[t].trade \notin stopped'[t] => held'[t] = 1
                     /\ pos'[t].st = "exiting" => sells'[t] = 1 /\ held'[t] = 1
    BY <1>1 DEF SoldOnce, history
  <2> USE <1>2 DEF TypeBroker, TypePositions, SoldOnce, None
  <2>1. CASE t # s
    BY <2>1 DEF SellFills, StopFills, Reconcile
  <2>2. CASE t = s /\ SellFills(s)
    BY <2>2 DEF SellFills
  <2>3. CASE t = s /\ StopFills(s)
    BY <2>3 DEF StopFills
  <2>4. CASE t = s /\ Reconcile(s)
    BY <2>4 DEF Reconcile
  <2>5. QED BY <2>1, <2>2, <2>3, <2>4
<1>11. QED BY <1>3, <1>5, <1>6, <1>7, <1>9, <1>10, TypeParts DEF TypeAll

\* The dispatcher starts, takes, finishes and stops; the session is cancelled.
LEMMA DispatchStep ==
  ASSUME SInv, TypeOK,
         \/ Open \/ Cancel \/ Close \/ UNCHANGED sessionVars
         \/ \E s \in Symbols : Take(s) \/ Finish(s) \/ Leave(s)
  PROVE  SInv'
<1> USE DEF SInv
<1>1. UNCHANGED <<at, view, positions, flags, history>>
  BY DEF Open, Cancel, Close, Take, Finish, Leave, sessionVars, handlers
<1>2. TypePlaces /\ TypeFlags /\ TypePositions /\ TypeBroker /\ TypeHistory
  BY TypeParts DEF TypeAll
<1>3. TypeBroker' /\ TypeHistory' /\ Tracked' /\ SoldOnce'
  BY <1>1, <1>2 DEF TypeBroker, TypeHistory, Tracked, SoldOnce, positions, history
<1>4. TypeFlags'
  <2>1. ending' = ending \/ ending' = TRUE
    BY DEF Open, Cancel, Close, Take, Finish, Leave, sessionVars
  <2>2. QED BY <1>1, <1>2, <2>1 DEF TypeFlags, flags
<1>5. step' = step \/ \E s \in Symbols : step' = [step EXCEPT ![s] = "begin"]
  BY DEF Open, Cancel, Close, Take, Finish, Leave, sessionVars, To
<1>6. TypePlaces' /\ Latched'
  <2>1. step' \in [Symbols -> {"begin", "allowed", "done"}]
        /\ \A t \in Symbols : step'[t] \in {step[t], "begin"}
    BY <1>2, <1>5 DEF TypePlaces
  <2>2. TypePlaces'
    BY <1>1, <1>2, <2>1 DEF TypePlaces
  <2>3. flattened \subseteq Symbols
    BY <1>2 DEF TypeHistory
  <2>4. Latched'
    BY <1>1, <2>1, <2>3 DEF Latched, positions, flags, history
  <2>5. QED BY <2>2, <2>4
<1>7. /\ carried' \in [Symbols -> [{Manage, Exit} -> Positions]]
      /\ \A t \in Symbols, j \in {Manage, Exit} : carried'[t][j] \in {carried[t][j], None}
      /\ Closing'
  <2>1. CASE UNCHANGED <<carried, pendingKeys>>
    BY <1>2, <2>1 DEF TypePositions, Closing
  <2>2. ASSUME NEW s \in Symbols, Finish(s)
        PROVE  /\ carried' \in [Symbols -> [{Manage, Exit} -> Positions]]
               /\ \A t \in Symbols, j \in {Manage, Exit} : carried'[t][j] \in {carried[t][j], None}
               /\ Closing'
    <3> DEFINE c == [k \in {Manage, Exit} |->
                        IF k = running[s].key THEN None ELSE carried[s][k]]
    <3>1. carried' = [carried EXCEPT ![s] = c]
      BY <2>2 DEF Finish
    <3>2. c \in [{Manage, Exit} -> Positions]
      BY <1>2 DEF TypePositions, None, Positions
    <3>3. carried' \in [Symbols -> [{Manage, Exit} -> Positions]]
      BY <1>2, <3>1, <3>2 DEF TypePositions
    <3>4. \A t \in Symbols : t # s => carried'[t] = carried[t]
      BY <1>2, <3>1 DEF TypePositions
    <3>5. \A j \in {Manage, Exit} :
             carried'[s][j] = IF j = running[s].key THEN None ELSE carried[s][j]
      BY <1>2, <3>1 DEF TypePositions
    <3>6. Closing'
      BY <2>2, <3>4, <3>5 DEF Finish, WorkerFinishes, TypeOK, Closing
    <3>7. QED BY <3>3, <3>4, <3>5, <3>6
  <2>3. CASE Open
    BY <1>2, <2>3 DEF Open, Start, handlers, TypePositions, Closing
  <2>4. QED
    BY <2>1, <2>2, <2>3 DEF Cancel, Close, Stop, Take, WorkerTakes, Leave, WorkerExits,
       handlers, dispatcher, sessionVars
<1>8. TypePositions'
  BY <1>1, <1>2, <1>7 DEF TypePositions, positions
<1>9. Numbered'
  <2>1. ASSUME NEW t \in Symbols,
               NEW p \in {view[t], known[t], pos[t], carried[t][Manage], carried[t][Exit]}'
        PROVE  p = None \/ (p.st \in {"open", "exiting"} /\ p.trade \in 1..bought'[t])
    <3>1. p = None \/ p \in {view[t], known[t], pos[t], carried[t][Manage], carried[t][Exit]}
      BY <1>1, <1>7, <2>1 DEF positions
    <3>2. bought' = bought
      BY <1>1 DEF positions
    <3>3. QED BY <3>1, <3>2 DEF Numbered
  <2>2. QED BY <2>1 DEF Numbered
<1>10. QED BY <1>3, <1>4, <1>6, <1>7, <1>8, <1>9, TypeParts DEF TypeAll

\* Runs of the runners: what they do to one symbol's position.
LEMMA RunStep ==
  ASSUME SInv, IInv, NEW s \in Symbols,
         RunFlat(s) \/ RunExit(s) \/ RunManage(s) \/ Consult(s) \/ RunEntry(s)
  PROVE  SInv'
<1> USE DEF SInv
<1>1. UNCHANGED <<dispatcher, handlers, known, stopped, halt, flatten, ending>>
  BY DEF RunFlat, RunExit, RunManage, Consult, RunEntry, positions, flags
<1>2. TypePlaces /\ TypeFlags /\ TypePositions /\ TypeBroker /\ TypeHistory
  BY TypeParts DEF TypeAll
<1>3. ASSUME RunExit(s) PROVE carried[s][Exit].st = "open"
  BY <1>3 DEF RunExit, Runs, IInv, PendingIffOutstanding, Closing
<1>4. TypePlaces' /\ TypeFlags' /\ TypeHistory' /\ Closing'
  <2>1. TypePlaces'
    BY <1>1, <1>2 DEF RunFlat, RunExit, RunManage, Consult, RunEntry, To, TypePlaces, handlers
  <2>2. TypeHistory'
    BY <1>2 DEF RunFlat, RunExit, RunManage, Consult, RunEntry, TypeHistory, Flattens, ActsOn, history
  <2>3. halted' \in BOOLEAN
    BY <1>2 DEF RunFlat, RunExit, RunManage, Consult, RunEntry, TypeFlags, flags
  <2>4. TypeFlags'
    BY <1>1, <1>2, <2>3 DEF TypeFlags
  <2>5. QED BY <1>1, <2>1, <2>2, <2>4 DEF Closing, handlers, dispatcher
\* The position after the step, and what the account holds and sells.
<1>5. \A t \in Symbols : t # s => /\ pos'[t] = pos[t] /\ held'[t] = held[t]
                                  /\ sells'[t] = sells[t] /\ bought'[t] = bought[t]
  BY <1>2 DEF RunFlat, RunExit, RunManage, Consult, RunEntry, Sells, TypePositions, TypeBroker, positions
<1> DEFINE Sold == \E p \in {pos[s], carried[s][Exit]} :
                     /\ (RunFlat(s) /\ p = pos[s]) \/ (RunExit(s) /\ ActsOn(s, p))
                     /\ p.st = "open" /\ p.trade \notin stopped[s]
                     /\ pos' = [pos EXCEPT ![s] = Position("exiting", p.trade)]
                     /\ sells' = [sells EXCEPT ![s] = @ + 1]
                     /\ UNCHANGED <<held, bought>>
           Managed == /\ ActsOn(s, carried[s][Manage]) /\ carried[s][Manage].st = "open"
                      /\ pos' = [pos EXCEPT ![s] = carried[s][Manage]]
                      /\ UNCHANGED <<held, sells, bought>>
           Bought == /\ RunEntry(s) /\ pos[s] = None
                     /\ bought' = [bought EXCEPT ![s] = @ + 1]
                     /\ held' = [held EXCEPT ![s] = @ + 1]
                     /\ pos' = [pos EXCEPT ![s] = Position("open", bought'[s])]
                     /\ UNCHANGED sells
           Same == UNCHANGED <<pos, held, sells, bought>>
<1>6. \/ Same \/ Sold \/ Bought
      \/ RunManage(s) /\ Managed
  BY <1>3 DEF RunFlat, RunExit, RunManage, Consult, RunEntry, Sells, positions
<1>7. Same \/ Sold \/ Managed \/ Bought
  BY <1>6
<1> HIDE DEF Sold, Managed, Bought, Same
<1>8. /\ pos'[s] = pos[s] \/ (pos'[s].st \in {"open", "exiting"} /\ pos'[s].trade \in 1..bought'[s])
      /\ pos' \in [Symbols -> Positions] /\ TypeBroker'
      /\ \A t \in Symbols : bought[t] <= bought'[t]
      /\ pos'[s].st = "none" => held'[s] = 0
      /\ pos'[s].st = "exiting" => held'[s] <= sells'[s]
  <2> USE <1>1, <1>2 DEF TypePositions, TypeBroker, Tracked
  <2>1. CASE Same
    BY <2>1 DEF Same
  <2>2. CASE Sold
    <3>1. PICK p \in {pos[s], carried[s][Exit]} :
             /\ p.st = "open" /\ p.trade \notin stopped[s]
             /\ pos' = [pos EXCEPT ![s] = Position("exiting", p.trade)]
             /\ sells' = [sells EXCEPT ![s] = @ + 1]
             /\ UNCHANGED <<held, bought>>
      BY <2>2 DEF Sold
    <3>2. p.trade \in 1..bought[s]
      BY <3>1 DEF Numbered, None
    <3>3. Position("exiting", p.trade) \in Positions
      BY <3>2 DEF Position, Positions
    <3>4. QED BY <3>1, <3>2, <3>3 DEF Position
  <2>3. CASE Managed
    <3>1. carried[s][Manage].trade \in 1..bought[s] /\ carried[s][Manage] \in Positions
      BY <2>3 DEF Managed, Numbered, None
    <3>2. QED BY <2>3, <3>1 DEF Managed
  <2>4. CASE Bought
    <3>1. held[s] = 0
      BY <2>4 DEF Bought, None
    <3>2. bought'[s] = bought[s] + 1 /\ bought' \in [Symbols -> Nat]
      BY <2>4 DEF Bought
    <3>3. Position("open", bought'[s]) \in Positions
      BY <3>2 DEF Position, Positions
    <3>4. pos'[s] = Position("open", bought'[s]) /\ pos' \in [Symbols -> Positions]
      BY <2>4, <3>3 DEF Bought
    <3>5. TypeBroker' /\ \A t \in Symbols : bought[t] <= bought'[t]
      BY <2>4, <3>1, <3>2 DEF Bought
    <3>6. QED BY <3>2, <3>4, <3>5 DEF Position
  <2>5. QED BY <1>7, <2>1, <2>2, <2>3, <2>4
<1>9. TypePositions' /\ Tracked'
  BY <1>1, <1>2, <1>5, <1>8 DEF TypePositions, Tracked, handlers
<1>10. Numbered'
  <2>1. ASSUME NEW t \in Symbols,
               NEW p \in {view[t], known[t], pos[t], carried[t][Manage], carried[t][Exit]}'
        PROVE  p = None \/ (p.st \in {"open", "exiting"} /\ p.trade \in 1..bought'[t])
    <3>1. \/ p \in {view[t], known[t], pos[t], carried[t][Manage], carried[t][Exit]}
          \/ p.st \in {"open", "exiting"} /\ p.trade \in 1..bought'[t]
      BY <1>1, <1>5, <1>8, <2>1 DEF handlers
    <3>2. bought[t] \in Nat /\ bought'[t] \in Nat /\ bought[t] <= bought'[t]
      BY <1>2, <1>8 DEF TypeBroker
    <3>3. QED BY <3>1, <3>2 DEF Numbered
  <2>2. QED BY <2>1 DEF Numbered
<1>11. SoldOnce'
  <2>1. stale \subseteq stale'
    BY DEF RunFlat, RunExit, RunManage, Consult, RunEntry, ActsOn, history
  <2>2. ASSUME NEW t \in Symbols \ stale', t # s
        PROVE /\ pos'[t].st # "exiting" => sells'[t] = 0
              /\ pos'[t].st = "open" /\ pos'[t].trade \notin stopped'[t] => held'[t] = 1
              /\ pos'[t].st = "exiting" => sells'[t] = 1 /\ held'[t] = 1
    BY <1>1, <1>5, <2>1, <2>2 DEF SoldOnce
  <2>3. ASSUME s \notin stale'
        PROVE /\ pos'[s].st # "exiting" => sells'[s] = 0
              /\ pos'[s].st = "open" /\ pos'[s].trade \notin stopped'[s] => held'[s] = 1
              /\ pos'[s].st = "exiting" => sells'[s] = 1 /\ held'[s] = 1
    <3> USE <1>1, <1>2, <2>1, <2>3 DEF TypePositions, TypeBroker, SoldOnce
    <3>1. CASE Same
      BY <3>1 DEF Same
    <3>2. CASE Sold
      BY <3>2 DEF Sold, ActsOn, Position
    <3>3. CASE Managed
      BY <3>3 DEF Managed, ActsOn
    <3>4. CASE Bought
      BY <3>4 DEF Bought, Tracked, Position, None
    <3>5. QED BY <1>7, <3>1, <3>2, <3>3, <3>4
  <2>4. QED BY <2>2, <2>3 DEF SoldOnce
<1>12. Latched'
  <2>1. (halted => halted') /\ (flatten => halted)
    BY DEF RunFlat, RunExit, RunManage, Consult, RunEntry, flags, Latched
  <2>2. \A t \in Symbols : t # s => step'[t] = step[t]
    BY <1>2 DEF RunFlat, RunExit, RunManage, Consult, RunEntry, To, TypePlaces
  <2>3. ASSUME NEW t \in flattened'
        PROVE  flatten' /\ step'[t] # "allowed" /\ held'[t] <= sells'[t]
    <3>1. t \in Symbols
      BY <1>4, <2>3 DEF TypeHistory
    <3>2. CASE t \in flattened /\ t # s
      BY <1>1, <1>5, <2>2, <3>1, <3>2 DEF Latched
    <3>3. CASE t \in flattened /\ t = s
      <4>1. flatten /\ halted /\ step[s] # "allowed" /\ held[s] <= sells[s]
        BY <2>1, <3>3 DEF Latched
      <4>2. step'[s] = "done"
        BY <1>2, <2>1, <4>1 DEF RunFlat, RunExit, RunManage, Consult, RunEntry, To, TypePlaces
      <4>3. ~Bought
        BY <4>1 DEF Bought, RunEntry, Runs
      <4>4. held'[s] <= sells'[s]
        BY <1>2, <1>7, <4>1, <4>3 DEF Same, Sold, Managed, TypeBroker
      <4>5. QED BY <1>1, <3>3, <4>1, <4>2, <4>4
    <3>4. CASE t \notin flattened
      <4>1. t = s /\ RunFlat(s) /\ flatten /\ pos'[s].st # "open"
        BY <2>3, <3>4 DEF RunFlat, RunExit, RunManage, Consult, RunEntry, Flattens, history
      <4>2. step'[s] = "done"
        BY <1>2, <4>1 DEF RunFlat, To, TypePlaces
      <4>3. held'[s] <= sells'[s]
        BY <1>8, <4>1 DEF TypeBroker, Positions
      <4>4. QED BY <1>1, <4>1, <4>2, <4>3
    <3>5. QED BY <3>2, <3>3, <3>4
  <2>4. QED BY <1>1, <2>1, <2>3 DEF Latched
<1>13. QED BY <1>4, <1>8, <1>9, <1>10, <1>11, <1>12, TypeParts DEF TypeAll

LEMMA SessionInv == SessionSpec => [](IInv /\ SInv)
<1>1. SessionInit => IInv /\ SInv
  BY InitInv, SessionInitInv DEF SessionInit
<1>2. IInv /\ SInv /\ [SessionNext]_sessionVars => (IInv /\ SInv)'
  <2> SUFFICES ASSUME IInv, SInv, [SessionNext]_sessionVars PROVE IInv' /\ SInv'
    OBVIOUS
  <2>1. IInv'
    BY InvStep, SessionStep
  <2>2. SInv'
    BY BarStep, WorldStep, DispatchStep, RunStep DEF SessionNext, Runner, IInv
  <2>3. QED BY <2>1, <2>2
<1>3. QED BY <1>1, <1>2, PTL DEF SessionSpec

\* The session's type invariant: at most one contract of a symbol is ever held,
\* and only trades that were bought are stopped out.
THEOREM SessionTyped == SessionSpec => []SessionTypeOK
<1>1. SInv => SessionTypeOK
  BY DEF SInv
<1>2. QED BY <1>1, SessionInv, PTL

\* After the daily-loss rail's flatten has reached a symbol nothing of it is held
\* that is not for sale, whatever is queued behind the emergency flat.
THEOREM FlatStaysFlat == SessionSpec => []FlattenedStaysFlat
<1>1. SInv => FlattenedStaysFlat
  BY DEF SInv, Latched, FlattenedStaysFlat
<1>2. QED BY <1>1, SessionInv, PTL

\* The handlers oversell a symbol only after one of them acted on a position
\* that was not the tracker's any more.
THEOREM OneClose == SessionSpec => []OneCloseUnlessStale
<1>1. SInv => OneCloseUnlessStale
  <2> SUFFICES ASSUME SInv, NEW s \in Symbols \ stale PROVE sells[s] <= held[s]
    BY DEF OneCloseUnlessStale
  <2>1. held[s] \in 0..1 /\ sells[s] \in Nat
    BY DEF SInv, SessionTypeOK
  <2>2. QED BY <2>1 DEF SInv, SoldOnce
<1>2. QED BY <1>1, SessionInv, PTL
=============================================================================
