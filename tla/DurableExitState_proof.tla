----------------------- MODULE DurableExitState_proof -----------------------
(***************************************************************************)
(* Proofs about DurableExitState, for any number of managers, syncers,     *)
(* intents and levels.                                                     *)
(***************************************************************************)
EXTENDS DurableExitState, TLAPS

\* What a coroutine's position says about its lock, its local and its intent.
Positions ==
    /\ \A m \in Managers : pc[m] # "idle" => lock = m
    /\ \A s \in Syncers : pc[s] \in {"idle", "bank", "banking", "committed"}
    /\ \A c \in Clients :
          /\ pc[c] # "idle" => row # NoRow
          /\ pc[c] \in {"hydrate", "clean", "intent", "banking", "committed",
                        "marking"} => local[c] # NoRow
          /\ pc[c] \in {"intent", "bank", "banking", "committed"}
                => /\ cur[c] \in IntentKeys
                   /\ intents[cur[c]] # NoIntent
    /\ \A k \in IntentKeys : intents[k] # NoIntent => row # NoRow
    /\ \A k \in IntentKeys : sold[k] > 0 => fate[k] \in {"filled", "dead"}

\* The look for open intents stays true as long as the symbol lock is held.
CleanMeansNone == \A m \in Managers : pc[m] = "clean" => OpenKeys = {}

IInv == TypeOK /\ Positions

\* The steps of the broker.
BrokerActs ==
    \/ \E k \in IntentKeys, f \in {"filled", "dead"}, q \in 0..MaxQuantity :
          BrokerSettles(k, f, q)
    \/ \E k \in IntentKeys : OtherStopSells(k)

-----------------------------------------------------------------------------
\* The update shapes of the callers stay in Row.
LEMMA RowShapes ==
    ASSUME NEW r \in Row
    PROVE  /\ Undegraded(r) \in Row
           /\ Degraded(r) \in Row
           /\ \A q \in 0..MaxQuantity : Banked(r, q) \in Row
           /\ \A p \in Levels : Peaked(r, p) \in Row
<1>1. Undegraded(r) \in Row /\ Degraded(r) \in Row
  BY DEF Row, Undegraded, Degraded, Advanced
<1>2. ASSUME NEW q \in 0..MaxQuantity PROVE Banked(r, q) \in Row
  BY QuantityAssumption DEF Row, Banked, Advanced, Higher
<1>3. ASSUME NEW p \in Levels PROVE Peaked(r, p) \in Row
  BY BoundsAssumption DEF Row, Peaked, Advanced, Levels
<1>4. QED
  BY <1>1, <1>2, <1>3

\* So does the row that a banking coroutine is about to write.
LEMMA BankedType ==
    ASSUME IInv, NEW c \in Clients, pc[c] = "banking"
    PROVE  Banked(local[c], sold[cur[c]]) \in Row
<1>1. local[c] \in Row /\ sold[cur[c]] \in 0..MaxQuantity
  BY DEF IInv, TypeOK, Positions
<1>2. QED
  BY <1>1, RowShapes

\* A proved stop move (ratchet or breakeven) leaves a well-typed row.
LEMMA StopMovedType ==
    ASSUME NEW r \in Row, NEW i \in Intent, NEW b
    PROVE  StopMoved(r, i, b) \in Row
<1>1. CASE b
  BY <1>1 DEF Row, Intent, StopMoved, Advanced, Higher
<1>2. CASE ~b
  BY <1>2 DEF Row, Intent, StopMoved, Advanced, Higher
<1>3. QED
  BY <1>1, <1>2

\* So do the intents' updates stay in Intent.
LEMMA IntentShapes ==
    ASSUME NEW i \in Intent
    PROVE  /\ \A k \in IntentKeys : WithBinding(i, k) \in Intent
           /\ \A st \in TerminalStatuses : WithResolution(i, st) \in Intent
BY KeysAssumption
   DEF Intent, WithBinding, WithResolution, TerminalStatuses, OpenStatuses

\* A binding or a resolution writes its own columns and no other.
LEMMA IntentFields ==
    ASSUME NEW i \in Intent, NEW k, NEW st
    PROVE  /\ WithBinding(i, k).status = "submitted"
           /\ WithBinding(i, k).broker = k
           /\ WithBinding(i, k).kind = i.kind
           /\ WithBinding(i, k).stop = i.stop
           /\ WithResolution(i, st).status = st
           /\ WithResolution(i, st).broker = i.broker
           /\ WithResolution(i, st).kind = i.kind
           /\ WithResolution(i, st).stop = i.stop
           /\ i.status = st => WithResolution(i, st) = i
BY DEF WithBinding, WithResolution, Intent

\* The intent a handler builds from its `durable` is well typed.
LEMMA NewIntentType ==
    ASSUME NEW k \in IntentKeys, NEW r \in Row, NEW kind \in Kinds,
           NEW stop \in Levels \cup {0}
    PROVE  NewIntent(k, r, kind, stop) \in Intent
BY BoundsAssumption
   DEF NewIntent, Row, Intent, Kinds, Stages, OpenStatuses, Slots, Levels

\* So is the row that the entry fill freezes.
LEMMA SeedRowType ==
    ASSUME NEW h \in Hashes, NEW stop \in Levels \cup {0}
    PROVE  SeedRow(h, stop) \in Row
BY BoundsAssumption DEF SeedRow, Row, Levels

-----------------------------------------------------------------------------
\* Type correctness needs the positions: without them a coroutine could commit
\* a row it never read or resolve an intent that does not exist.
LEMMA TypeStep == IInv /\ [Next]_vars => TypeOK'
<1> SUFFICES ASSUME IInv, TypeOK, Positions, [Next]_vars PROVE TypeOK'
  BY DEF IInv
<1> USE DEF TypeOK
<1>1. CASE \E h \in Hashes, stop \in Levels \cup {0} : Freeze(h, stop)
  BY <1>1, SeedRowType DEF Freeze
<1>2. ASSUME NEW m \in Managers, Manage(m) PROVE TypeOK'
  <2> m \in Clients
    BY DEF Clients
  <2>1. CASE Hydrate(m) \/ SeesNoIntent(m)
    BY <2>1 DEF Hydrate, SeesNoIntent, Goto, PCs
  <2>2. CASE SeesIntent(m)
    BY <2>2 DEF SeesIntent, Goto, PCs, OpenKeys
  <2>3. CASE Settle(m) \/ LeaveIntentOpen(m)
    BY <2>3, KeysAssumption DEF Settle, LeaveIntentOpen, Goto, PCs
  <2>4. CASE Undegrade(m)
    BY <2>4, RowShapes DEF Undegrade, Commits, Raises, Leave, Goto, PCs, Positions
  <2>5. CASE \E p \in Levels : AdvancePeak(m, p)
    <3> PICK p \in Levels : AdvancePeak(m, p)
      BY <2>5
    <3>1. Peaked(local[m], p) \in Row
      BY RowShapes DEF AdvancePeak, Positions
    <3>2. QED
      BY <3>1 DEF AdvancePeak, Commits, Raises, Leave, Goto, PCs
  <2>6. CASE Return(m)
    BY <2>6 DEF Return, Leave, Goto, PCs
  <2>7. CASE \E k \in IntentKeys, kind \in Kinds, stop \in Levels \cup {0} :
                Prepare(m, k, kind, stop)
    BY <2>7, NewIntentType DEF Prepare, Leave, Goto, PCs, Positions
  <2>8. CASE Submit(m) \/ Bind(m)
    BY <2>8, IntentShapes DEF Submit, Bind, Positions
  <2>9. CASE CommitStop(m)
    <3>1. local[m] \in Row /\ intents[cur[m]] \in Intent
      BY <2>9 DEF CommitStop, Positions
    <3>2. StopMoved(local[m], intents[cur[m]], m \in recovering) \in Row
      BY <3>1, StopMovedType
    <3>3. QED
      BY <2>9, <3>2 DEF CommitStop, Commits, Raises, Leave, Goto, PCs
  <2>10. CASE \E st \in {"confirmed", "failed"} : ResolveUncommitted(m, st)
    BY <2>10, IntentShapes
       DEF ResolveUncommitted, Done, Leave, Goto, PCs, Positions, TerminalStatuses
  <2>11. CASE ManagerFindsFill(m)
    BY <2>11 DEF ManagerFindsFill, Done, Leave, Goto, PCs
  <2>12. CASE BankReads(m) \/ DegradeReads(m)
    BY <2>12 DEF BankReads, DegradeReads, Goto, PCs
  <2>13. CASE BankCommits(m)
    <3>1. Banked(local[m], sold[cur[m]]) \in Row
      BY <2>13, BankedType DEF BankCommits, Clients
    <3>2. QED
      BY <2>13, <3>1 DEF BankCommits, Commits, Raises, Leave, Goto, PCs, Positions
  <2>14. CASE ResolveCommitted(m)
    BY <2>14, IntentShapes
       DEF ResolveCommitted, Done, Leave, Goto, PCs, Positions, TerminalStatuses
  <2>15. CASE DegradeWrites(m)
    BY <2>15, RowShapes DEF DegradeWrites, Leave, Goto, PCs, Positions
  <2>16. QED
    BY <1>2, <2>1, <2>2, <2>3, <2>4, <2>5, <2>6, <2>7, <2>8, <2>9, <2>10, <2>11,
       <2>12, <2>13, <2>14, <2>15 DEF Manage
<1>3. ASSUME NEW s \in Syncers, Sync(s) PROVE TypeOK'
  <2> s \in Clients
    BY DEF Clients
  <2>1. CASE \E k \in IntentKeys : SyncFindsFill(s, k)
    BY <2>1 DEF SyncFindsFill, Goto, PCs
  <2>2. CASE \E k \in IntentKeys : SyncFindsDead(s, k)
    BY <2>2, IntentShapes DEF SyncFindsDead, OpenKeys, IsOpen, TerminalStatuses
  <2>3. CASE BankReads(s)
    BY <2>3 DEF BankReads, Goto, PCs
  <2>4. CASE BankCommits(s)
    <3>1. Banked(local[s], sold[cur[s]]) \in Row
      BY <2>4, BankedType DEF BankCommits, Clients
    <3>2. QED
      BY <2>4, <3>1 DEF BankCommits, Commits, Raises, Leave, Goto, PCs, Positions
  <2>5. CASE ResolveCommitted(s)
    BY <2>5, IntentShapes
       DEF ResolveCommitted, Done, Leave, Goto, PCs, Positions, TerminalStatuses
  <2>6. QED
    BY <1>3, <2>1, <2>2, <2>3, <2>4, <2>5 DEF Sync
<1>4. CASE BrokerActs
  BY <1>4 DEF BrokerActs, BrokerSettles, OtherStopSells
<1>5. CASE Crash
  BY <1>5 DEF Crash, PCs
<1>6. CASE UNCHANGED vars
  BY <1>6 DEF vars
<1>7. QED
  BY <1>1, <1>2, <1>3, <1>4, <1>5, <1>6 DEF Next, BrokerActs

\* The positions are kept: the lock holder is the only manager away from
\* "idle", and rows and intents never disappear under a coroutine.
LEMMA PositionsStep == IInv /\ [Next]_vars => Positions'
<1> SUFFICES ASSUME IInv, TypeOK, Positions, [Next]_vars PROVE Positions'
  BY DEF IInv
<1> USE ClientsAssumption, KeysAssumption, AbsenceAssumption
    DEF TypeOK, Positions, Clients
<1>1. CASE \E h \in Hashes, stop \in Levels \cup {0} : Freeze(h, stop)
  BY <1>1, SeedRowType DEF Freeze
<1>2. ASSUME NEW m \in Managers, Manage(m) PROVE Positions'
  <2>1. CASE Hydrate(m)
    BY <2>1 DEF Hydrate, Goto
  <2>2. CASE SeesNoIntent(m)
    BY <2>2 DEF SeesNoIntent, Goto
  <2>3. CASE SeesIntent(m)
    BY <2>3 DEF SeesIntent, Goto, OpenKeys, IsOpen
  <2>4. CASE Settle(m)
    BY <2>4 DEF Settle, Goto
  <2>5. CASE Undegrade(m)
    BY <2>5, RowShapes DEF Undegrade, Commits, Raises, Leave, Goto
  <2>6. CASE \E p \in Levels : AdvancePeak(m, p)
    <3> PICK p \in Levels : AdvancePeak(m, p)
      BY <2>6
    <3>1. local[m] \in Row
      BY DEF AdvancePeak
    <3>2. Peaked(local[m], p) \in Row
      BY ONLY <3>1, RowShapes, p \in Levels
    <3>3. QED
      BY <3>2 DEF AdvancePeak, Commits, Raises, Leave, Goto
  <2>7. CASE Return(m)
    BY <2>7 DEF Return, Leave, Goto
  <2>8. CASE \E k \in IntentKeys, kind \in Kinds, stop \in Levels \cup {0} :
                Prepare(m, k, kind, stop)
    BY <2>8, NewIntentType DEF Prepare, PrepareAccepted, Leave, Goto
  <2>9. CASE Submit(m) \/ Bind(m)
    <3>1. CASE Submit(m)
      BY <3>1 DEF Submit
    <3>2. CASE Bind(m)
      BY <3>2, IntentShapes DEF Bind
    <3>3. QED
      BY <2>9, <3>1, <3>2
  <2>10. CASE CommitStop(m)
    <3>1. local[m] \in Row /\ intents[cur[m]] \in Intent
      BY <2>10 DEF CommitStop
    <3>2. StopMoved(local[m], intents[cur[m]], m \in recovering) \in Row
      BY <3>1, StopMovedType
    <3>3. QED
      BY <2>10, <3>2 DEF CommitStop, Commits, Raises, Leave, Goto
  <2>11. CASE LeaveIntentOpen(m)
    BY <2>11 DEF LeaveIntentOpen, Goto
  <2>12. CASE \E st \in {"confirmed", "failed"} : ResolveUncommitted(m, st)
    BY <2>12, IntentShapes
       DEF ResolveUncommitted, Done, Leave, Goto, TerminalStatuses
  <2>13. CASE ManagerFindsFill(m)
    BY <2>13 DEF ManagerFindsFill, Done, Leave, Goto
  <2>14. CASE BankReads(m) \/ DegradeReads(m)
    BY <2>14 DEF BankReads, DegradeReads, Goto
  <2>15. CASE BankCommits(m)
    <3>1. Banked(local[m], sold[cur[m]]) \in Row
      BY <2>15, BankedType DEF BankCommits, Clients
    <3>2. QED
      BY <2>15, <3>1 DEF BankCommits, Commits, Raises, Leave, Goto
  <2>16. CASE ResolveCommitted(m)
    BY <2>16, IntentShapes
       DEF ResolveCommitted, Done, Leave, Goto, TerminalStatuses
  <2>17. CASE DegradeWrites(m)
    BY <2>17, RowShapes DEF DegradeWrites, Leave, Goto
  <2>18. QED
    BY <1>2, <2>1, <2>2, <2>3, <2>4, <2>5, <2>6, <2>7, <2>8, <2>9, <2>10, <2>11,
       <2>12, <2>13, <2>14, <2>15, <2>16, <2>17 DEF Manage
<1>3. ASSUME NEW s \in Syncers, Sync(s) PROVE Positions'
  <2>1. CASE \E k \in IntentKeys : SyncFindsFill(s, k)
    BY <2>1 DEF SyncFindsFill, Goto, OpenKeys, IsOpen
  <2>2. CASE \E k \in IntentKeys : SyncFindsDead(s, k)
    BY <2>2, IntentShapes DEF SyncFindsDead, OpenKeys, IsOpen, TerminalStatuses
  <2>3. CASE BankReads(s)
    BY <2>3 DEF BankReads, Goto
  <2>4. CASE BankCommits(s)
    <3>1. Banked(local[s], sold[cur[s]]) \in Row
      BY <2>4, BankedType DEF BankCommits, Clients
    <3>2. QED
      BY <2>4, <3>1 DEF BankCommits, Commits, Raises, Leave, Goto
  <2>5. CASE ResolveCommitted(s)
    BY <2>5, IntentShapes
       DEF ResolveCommitted, Done, Leave, Goto, TerminalStatuses
  <2>6. QED
    BY <1>3, <2>1, <2>2, <2>3, <2>4, <2>5 DEF Sync
<1>4. CASE BrokerActs
  BY <1>4 DEF BrokerActs, BrokerSettles, OtherStopSells
<1>5. CASE Crash
  BY <1>5 DEF Crash
<1>6. CASE UNCHANGED vars
  BY <1>6 DEF vars
<1>7. QED
  BY <1>1, <1>2, <1>3, <1>4, <1>5, <1>6 DEF Next, BrokerActs

\* Types and positions together are inductive.
LEMMA InductiveInvariant == Spec => []IInv
<1>1. Init => IInv
  BY ClientsAssumption, QuantityAssumption DEF Init, IInv, TypeOK, Positions, PCs, Clients
<1>2. IInv /\ [Next]_vars => IInv'
  BY TypeStep, PositionsStep DEF IInv
<1>3. QED
  BY <1>1, <1>2, PTL DEF Spec

\* Every reachable state is well typed, for any number of managers, syncers,
\* intents, levels and versions.
THEOREM TypeCorrect == Spec => []TypeOK
BY InductiveInvariant, PTL DEF IInv

-----------------------------------------------------------------------------
\* A step leaves the row alone, inserts it, or moves it one version on and no
\* ratcheted field down.
Grows(r, new) ==
    /\ new.hash = r.hash
    /\ new.ver = r.ver + 1
    /\ NoHigher(r, new)

\* An accepted transition bumps the version by one and lowers no ratchet.
LEMMA AcceptedGrows ==
    ASSUME NEW r \in Row, NEW new \in Row, NEW v, TransitionAccepted(r, new, v)
    PROVE  Grows(r, new)
BY DEF TransitionAccepted, NonRegressing, Grows, NoHigher, Row

\* Therefore a step leaves the row alone, inserts it, or makes it grow.
LEMMA RowGrows ==
    ASSUME IInv, [Next]_vars
    PROVE  \/ row' = row
           \/ row = NoRow
           \/ row \in Row /\ row' \in Row /\ Grows(row, row')
<1> USE DEF IInv
<1>1. TypeOK' /\ row \in Row \cup {NoRow}
  BY TypeStep DEF TypeOK
<1>2. ASSUME NEW c \in Clients, NEW new \in Row,
             TransitionAccepted(row, new, local[c].ver), row' = new
      PROVE  row = NoRow \/ (row \in Row /\ row' \in Row /\ Grows(row, row'))
  BY <1>1, <1>2, AcceptedGrows
<1>3. ASSUME NEW m \in Managers, Manage(m), row # NoRow, row' # row
      PROVE  row \in Row /\ row' \in Row /\ Grows(row, row')
  <2> m \in Clients
    BY DEF Clients
  <2>1. CASE Undegrade(m)
    <3>1. Undegraded(local[m]) \in Row
      BY <2>1, RowShapes DEF Undegrade, TypeOK, Positions
    <3>2. QED
      BY <1>2, <1>3, <2>1, <3>1 DEF Undegrade, Commits, Raises
  <2>2. CASE \E p \in Levels : AdvancePeak(m, p)
    <3> PICK p \in Levels : AdvancePeak(m, p)
      BY <2>2
    <3>1. Peaked(local[m], p) \in Row
      BY RowShapes DEF AdvancePeak, TypeOK, Positions
    <3>2. QED
      BY <1>2, <1>3, <3>1 DEF AdvancePeak, Commits, Raises
  <2>3. CASE CommitStop(m)
    <3>1. local[m] \in Row /\ intents[cur[m]] \in Intent
      BY <2>3 DEF CommitStop, TypeOK, Positions
    <3>2. StopMoved(local[m], intents[cur[m]], m \in recovering) \in Row
      BY <3>1, StopMovedType
    <3>3. QED
      BY <1>2, <1>3, <2>3, <3>2 DEF CommitStop, Commits, Raises
  <2>4. CASE BankCommits(m)
    <3>1. Banked(local[m], sold[cur[m]]) \in Row
      BY <2>4, BankedType DEF BankCommits
    <3>2. QED
      BY <1>2, <1>3, <2>4, <3>1 DEF BankCommits, Commits, Raises
  <2>5. CASE DegradeWrites(m)
    <3>1. Degraded(local[m]) \in Row
      BY <2>5, RowShapes DEF DegradeWrites, TypeOK, Positions
    <3>2. QED
      BY <1>2, <1>3, <2>5, <3>1 DEF DegradeWrites
  <2>6. QED
    BY <1>3, <2>1, <2>2, <2>3, <2>4, <2>5
       DEF Manage, Hydrate, SeesNoIntent, SeesIntent, Settle, Return, Prepare,
           Submit, Bind, LeaveIntentOpen, ResolveUncommitted, ManagerFindsFill,
           BankReads, ResolveCommitted, DegradeReads
<1>4. ASSUME NEW s \in Syncers, Sync(s), row # NoRow, row' # row
      PROVE  row \in Row /\ row' \in Row /\ Grows(row, row')
  <2> s \in Clients
    BY DEF Clients
  <2>1. BankCommits(s)
    BY <1>4 DEF Sync, SyncFindsFill, SyncFindsDead, BankReads, ResolveCommitted
  <2>2. Banked(local[s], sold[cur[s]]) \in Row
    BY <2>1, BankedType DEF BankCommits
  <2>3. QED
    BY <1>2, <1>4, <2>1, <2>2 DEF BankCommits, Commits, Raises
<1>5. QED
  BY <1>3, <1>4 DEF Next, vars, Freeze, BrokerSettles, OtherStopSells, Crash

\* The first row is the one the entry fill freezes.
LEMMA FirstRow ==
    ASSUME IInv, [Next]_vars, row = NoRow, row' # NoRow
    PROVE  \E h \in Hashes, stop \in Levels \cup {0} : Freeze(h, stop)
<1>1. \A c \in Clients : pc[c] = "idle"
  BY DEF IInv, Positions
<1>2. ~(\E m \in Managers : Manage(m))
  BY <1>1 DEF Clients, Manage, Hydrate, SeesNoIntent, SeesIntent, Settle,
         Undegrade, Return, AdvancePeak, Prepare, Submit, Bind, CommitStop,
         LeaveIntentOpen, ResolveUncommitted, ManagerFindsFill, BankReads,
         BankCommits, ResolveCommitted, DegradeReads, DegradeWrites
<1>3. ASSUME NEW s \in Syncers, Sync(s) PROVE row' = row
  BY <1>1, <1>3 DEF Clients, Sync, SyncFindsFill, SyncFindsDead, BankReads,
                    BankCommits, ResolveCommitted
<1>4. QED
  BY <1>2, <1>3 DEF Next, vars, BrokerSettles, OtherStopSells, Crash

\* Everything remembered after a step was remembered or in the table before
\* it, or is in the table now.
Sources == {NoRow, copy, row, row'} \cup {local[c] : c \in Clients}

LEMMA MemorySources ==
    ASSUME IInv, [Next]_vars
    PROVE  copy' \in Sources /\ \A c \in Clients : local'[c] \in Sources
<1> USE DEF Sources, TypeOK, IInv, Goto, Leave, Done, Commits, Raises
<1>1. CASE \E h \in Hashes, stop \in Levels \cup {0} : Freeze(h, stop)
  BY <1>1 DEF Freeze
<1>2. ASSUME NEW m \in Managers, Manage(m)
      PROVE  copy' \in Sources /\ \A c \in Clients : local'[c] \in Sources
  <2> m \in Clients
    BY DEF Clients
  <2>1. CASE \/ Hydrate(m) \/ SeesNoIntent(m) \/ SeesIntent(m) \/ Settle(m)
             \/ Return(m)
    BY <2>1 DEF Hydrate, SeesNoIntent, SeesIntent, Settle, Return
  <2>2. CASE Undegrade(m) \/ \E p \in Levels : AdvancePeak(m, p)
    BY <2>2 DEF Undegrade, AdvancePeak
  <2>3. CASE \/ CommitStop(m) \/ BankCommits(m) \/ BankReads(m)
             \/ DegradeReads(m) \/ DegradeWrites(m)
    BY <2>3 DEF CommitStop, BankCommits, BankReads, DegradeReads, DegradeWrites
  <2>4. CASE \/ Submit(m) \/ Bind(m) \/ LeaveIntentOpen(m) \/ ManagerFindsFill(m)
             \/ ResolveCommitted(m)
    BY <2>4 DEF Submit, Bind, LeaveIntentOpen, ManagerFindsFill, ResolveCommitted
  <2>5. CASE \/ \E st \in {"confirmed", "failed"} : ResolveUncommitted(m, st)
             \/ \E k \in IntentKeys, kind \in Kinds, stop \in Levels \cup {0} :
                   Prepare(m, k, kind, stop)
    BY <2>5 DEF ResolveUncommitted, Prepare
  <2>6. QED
    BY <1>2, <2>1, <2>2, <2>3, <2>4, <2>5 DEF Manage
<1>3. ASSUME NEW s \in Syncers, Sync(s)
      PROVE  copy' \in Sources /\ \A c \in Clients : local'[c] \in Sources
  BY <1>3 DEF Clients, Sync, SyncFindsFill, SyncFindsDead, BankReads,
              BankCommits, ResolveCommitted
<1>4. CASE Crash
  BY <1>4 DEF Crash
<1>5. CASE UNCHANGED vars \/ BrokerActs
  BY <1>5 DEF vars, BrokerActs, BrokerSettles, OtherStopSells
<1>6. QED
  BY <1>1, <1>2, <1>3, <1>4, <1>5 DEF Next, BrokerActs

\* MemoryIsPast is kept: an old row stays a past of a row that only grows, and
\* what is newly remembered comes from the sources.
LEMMA MemoryStep ==
    ASSUME IInv, MemoryIsPast, [Next]_vars
    PROVE  MemoryIsPast'
<1>1. TypeOK /\ TypeOK'
  BY TypeStep DEF IInv
<1>2. ASSUME NEW x \in Sources PROVE IsPast(x)'
  <2>1. x \in Row \cup {NoRow}
    BY <1>1 DEF Sources, TypeOK
  <2>2. CASE x = NoRow
    BY <2>2 DEF IsPast
  <2>3. CASE x = row' /\ x # NoRow
    BY <1>1, <2>1, <2>3 DEF IsPast, NoHigher, Row, TypeOK
  <2>4. CASE x # NoRow /\ x # row'
    <3>1. IsPast(x)
      BY <1>1, <2>1, <2>4 DEF Sources, MemoryIsPast, IsPast, NoHigher, Row, TypeOK
    <3>2. CASE row' = row
      BY <3>1, <3>2 DEF IsPast
    <3>3. CASE row \in Row /\ row' \in Row /\ Grows(row, row')
      BY <2>1, <2>4, <3>1, <3>3, AbsenceAssumption
         DEF IsPast, Grows, NoHigher, Row
    <3>4. QED
      BY <2>4, <3>1, <3>2, <3>3, RowGrows DEF IsPast
  <2>5. QED
    BY <2>2, <2>3, <2>4
<1>3. QED
  BY <1>2, MemorySources DEF MemoryIsPast, Sources

\* No remembered row (shared copy or coroutine local) is ever ahead of the
\* table or above it in a ratcheted field: optimistic versioning makes every
\* interleaving of managers, syncers and restarts safe for the ratchets.
THEOREM MemoryNeverAhead == Spec => []MemoryIsPast
<1>1. Init => MemoryIsPast
  BY DEF Init, MemoryIsPast, IsPast
<1>2. IInv /\ MemoryIsPast /\ [Next]_vars => MemoryIsPast'
  BY MemoryStep
<1>3. QED
  BY <1>1, <1>2, InductiveInvariant, PTL DEF Spec

\* The row's peak, floor, stop, banked contracts and breakeven mark never go
\* down, and each write adds one to its version.
THEOREM RowMonotone == Spec => RowNeverRegresses
<1>1. IInv /\ IInv' /\ [Next]_vars =>
        [row # NoRow => /\ row' # NoRow
                        /\ NoHigher(row, row')
                        /\ row' = row \/ row'.ver = row.ver + 1]_vars
  <2> SUFFICES ASSUME IInv, [Next]_vars, row # NoRow
               PROVE  /\ row' # NoRow
                      /\ NoHigher(row, row')
                      /\ row' = row \/ row'.ver = row.ver + 1
    OBVIOUS
  <2>1. row \in Row
    BY DEF IInv, TypeOK
  <2>2. CASE row' = row
    BY <2>1, <2>2 DEF NoHigher, Row
  <2>3. CASE row' \in Row /\ Grows(row, row')
    BY <2>3, AbsenceAssumption DEF Grows
  <2>4. QED
    BY <2>2, <2>3, RowGrows
<1>2. QED
  BY <1>1, InductiveInvariant, PTL DEF Spec, RowNeverRegresses

-----------------------------------------------------------------------------
\* One open intent.  The strengthening says that the holder of the lock who
\* saw no open intent is still right.
OneInv == OneOpenIntent /\ CleanMeansNone

\* Only Prepare opens an intent, and only its own.
LEMMA OpenShrinks ==
    ASSUME IInv, [Next]_vars,
           \A m \in Managers, k \in IntentKeys, kind \in Kinds,
              stop \in Levels \cup {0} : ~Prepare(m, k, kind, stop)
    PROVE  OpenKeys' \subseteq OpenKeys
<1> USE DEF OpenKeys, IsOpen, TypeOK, IInv, TerminalStatuses, OpenStatuses
<1>1. ASSUME NEW k \in IntentKeys, NEW st \in TerminalStatuses,
             intents[k] # NoIntent,
             intents' = [intents EXCEPT ![k] = WithResolution(@, st)]
      PROVE  OpenKeys' \subseteq OpenKeys
  <2>1. intents'[k].status = st
    BY <1>1 DEF WithResolution, Intent
  <2>2. QED
    BY <1>1, <2>1
<1>2. ASSUME NEW m \in Managers, Manage(m) PROVE OpenKeys' \subseteq OpenKeys
  <2> m \in Clients
    BY DEF Clients
  <2>1. CASE Bind(m)
    <3>1. cur[m] \in OpenKeys
      BY <2>1 DEF Bind, BindAccepted, Positions
    <3>2. \A k \in IntentKeys \ {cur[m]} : intents'[k] = intents[k]
      BY <2>1 DEF Bind
    <3>3. QED
      BY <3>1, <3>2
  <2>2. CASE \E st \in {"confirmed", "failed"} : ResolveUncommitted(m, st)
    <3> PICK st \in {"confirmed", "failed"} : ResolveUncommitted(m, st)
      BY <2>2
    <3>1. /\ cur[m] \in IntentKeys
          /\ intents[cur[m]] # NoIntent
          /\ intents' = [intents EXCEPT ![cur[m]] = WithResolution(@, st)]
      BY DEF ResolveUncommitted, Positions
    <3>2. QED
      BY <1>1, <3>1
  <2>3. CASE ResolveCommitted(m)
    BY <1>1, <2>3 DEF ResolveCommitted, Positions
  <2>4. QED
    BY <1>2, <2>1, <2>2, <2>3
       DEF Manage, Hydrate, SeesNoIntent, SeesIntent, Settle, Undegrade, Return,
           AdvancePeak, Submit, CommitStop, LeaveIntentOpen, ManagerFindsFill, Raises,
           BankReads, BankCommits, DegradeReads, DegradeWrites
<1>3. ASSUME NEW s \in Syncers, Sync(s) PROVE OpenKeys' \subseteq OpenKeys
  <2> s \in Clients
    BY DEF Clients
  <2>1. CASE \E k \in IntentKeys : SyncFindsDead(s, k)
    BY <1>1, <2>1 DEF SyncFindsDead
  <2>2. CASE ResolveCommitted(s)
    BY <1>1, <2>2 DEF ResolveCommitted, Positions
  <2>3. QED
    BY <1>3, <2>1, <2>2 DEF Sync, SyncFindsFill, BankReads, BankCommits, Raises
<1>4. QED
  BY <1>2, <1>3 DEF Next, vars, Freeze, BrokerSettles, OtherStopSells, Crash

\* Whoever is "clean" after a step was clean before it, or has just looked.
LEMMA CleanComesFromLooking ==
    ASSUME IInv, [Next]_vars, NEW m \in Managers, pc'[m] = "clean"
    PROVE  pc[m] = "clean" \/ OpenKeys = {}
<1> USE DEF TypeOK, IInv, Goto, Leave, Done, Raises, Clients
<1>1. ASSUME NEW n \in Managers, Manage(n) PROVE pc[m] = "clean" \/ OpenKeys = {}
  BY <1>1
     DEF Manage, Hydrate, SeesNoIntent, SeesIntent, Settle, Undegrade, Return,
         AdvancePeak, Prepare, Submit, Bind, CommitStop, LeaveIntentOpen,
         ResolveUncommitted, ManagerFindsFill, BankReads, BankCommits,
         ResolveCommitted, DegradeReads, DegradeWrites
<1>2. ASSUME NEW s \in Syncers, Sync(s) PROVE pc[m] = "clean"
  BY <1>2 DEF Sync, SyncFindsFill, SyncFindsDead, BankReads, BankCommits,
              ResolveCommitted
<1>3. QED
  BY <1>1, <1>2 DEF Next, vars, Freeze, BrokerSettles, OtherStopSells, Crash

\* One open intent, and none while a manager is "clean", is kept: Prepare is
\* taken only by the lock holder, whose look is still true.
LEMMA OneStep ==
    ASSUME IInv, OneInv, [Next]_vars
    PROVE  OneInv'
<1> USE DEF OneInv, OneOpenIntent, CleanMeansNone
<1>1. CASE \A m \in Managers, k \in IntentKeys, kind \in Kinds,
              stop \in Levels \cup {0} : ~Prepare(m, k, kind, stop)
  BY <1>1, OpenShrinks, CleanComesFromLooking
<1>2. CASE \E m \in Managers, k \in IntentKeys, kind \in Kinds,
              stop \in Levels \cup {0} : Prepare(m, k, kind, stop)
  <2> PICK m \in Managers, k \in IntentKeys, kind \in Kinds,
           stop \in Levels \cup {0} : Prepare(m, k, kind, stop)
    BY <1>2
  <2>1. OpenKeys = {} /\ lock = m
    BY DEF Prepare, IInv, Positions
  <2>2. OpenKeys' \subseteq {k}
    BY <2>1 DEF Prepare, OpenKeys, IInv, TypeOK
  <2>3. \A n \in Managers : pc'[n] # "clean"
    BY <2>1 DEF Prepare, Leave, Goto, IInv, Positions, TypeOK, Clients
  <2>4. QED
    BY <2>2, <2>3
<1>3. QED
  BY <1>1, <1>2

\* A trade never has two open intents: under the symbol lock, "look for open
\* intents, then prepare" cannot be overtaken.
THEOREM OneIntentAtATime == Spec => []OneOpenIntent
<1>1. Init => OneInv
  BY DEF Init, OneInv, OneOpenIntent, CleanMeansNone, OpenKeys, IsOpen, Clients
<1>2. IInv /\ OneInv /\ [Next]_vars => OneInv'
  BY OneStep
<1>3. QED
  BY <1>1, <1>2, InductiveInvariant, PTL DEF Spec, OneInv

-----------------------------------------------------------------------------
\* What the outcome of a partial says about its order at the broker: failed, it
\* is unknown to the handler or died unsold; confirmed, it sold contracts.
Outcomes ==
    \A k \in IntentKeys :
        intents[k] # NoIntent =>
              /\ intents[k].broker \in {NoOrder, k}
              /\ intents[k].status # "abandoned"
              /\ intents[k].kind = "partial_scale" =>
                    /\ intents[k].status = "failed"
                          => \/ intents[k].broker = NoOrder
                             \/ fate[k] = "dead" /\ sold[k] = 0
                    /\ intents[k].status = "confirmed"
                          => intents[k].broker = k /\ sold[k] > 0

\* A partial with a sale behind it, and a ratchet with one.
PartialSold(k) ==
    intents[k].kind = "partial_scale" /\ intents[k].broker = k /\ sold[k] > 0
RatchetSold(k) ==
    intents[k].kind = "stop_ratchet" /\ (sold[k] > 0 \/ k \in otherSold)

\* What a coroutine knows of the intent it has in hand.  Whoever banks a
\* partial has seen it sell, whoever committed has the stop or the sold
\* contracts in the row, and a stop intent in hand is still open: only partials
\* are resolved by others.
InHandOf(c) ==
    /\ pc[c] \in {"bank", "banking"} => PartialSold(cur[c])
    /\ pc[c] = "committed"
          => IF intents[cur[c]].kind = "partial_scale"
             THEN PartialSold(cur[c]) /\ sold[cur[c]] <= row.banked
             ELSE row.stop >= intents[cur[c]].stop
    /\ c \in Managers /\ pc[c] \in {"intent", "committed"}
          => intents[cur[c]].kind = "partial_scale" \/ IsOpen(intents[cur[c]])
    /\ c \in Syncers /\ pc[c] # "idle"
          => intents[cur[c]].kind = "partial_scale"

InHand == \A c \in Clients : InHandOf(c)

\* The ways one intent changes in a step.
Opened(k) ==
    /\ intents[k] = NoIntent
    /\ intents'[k].status = "prepared"
    /\ intents'[k].broker = NoOrder
Bound(k) ==
    /\ IsOpen(intents[k])
    /\ intents'[k] = WithBinding(intents[k], k)
Failed(k) ==
    /\ intents[k] # NoIntent
    /\ intents'[k] = WithResolution(intents[k], "failed")
    /\ IF intents[k].kind = "partial_scale"
       THEN intents[k].broker = NoOrder \/ (fate[k] = "dead" /\ sold[k] = 0)
       ELSE IsOpen(intents[k])
Confirmed(k) ==
    /\ intents[k] # NoIntent
    /\ intents'[k] = WithResolution(intents[k], "confirmed")
    /\ IF intents[k].kind = "partial_scale"
       THEN PartialSold(k) /\ sold[k] <= row.banked
       ELSE /\ IsOpen(intents[k])
            /\ RatchetSold(k) \/ row.stop >= intents[k].stop

\* What the broker has decided stays decided.
LEMMA TruthStays ==
    ASSUME IInv, [Next]_vars, NEW k \in IntentKeys
    PROVE  /\ sold[k] > 0 => sold'[k] = sold[k]
           /\ fate[k] = "dead" => fate'[k] = "dead" /\ sold'[k] = sold[k]
           /\ otherSold \subseteq otherSold'
<1> USE DEF IInv, TypeOK
<1>1. CASE BrokerActs
  BY <1>1 DEF BrokerActs, BrokerSettles, OtherStopSells, Positions
<1>2. ASSUME NEW m \in Managers, Manage(m)
      PROVE  sold' = sold /\ otherSold' = otherSold /\ (fate[k] = "dead" => fate'[k] = "dead")
  <2>1. CASE Submit(m)
    BY <2>1 DEF Submit
  <2>2. QED
    BY <1>2, <2>1
       DEF Manage, Hydrate, SeesNoIntent, SeesIntent, Settle, Undegrade, Return,
           AdvancePeak, Prepare, Bind, CommitStop, LeaveIntentOpen,
           ResolveUncommitted, ManagerFindsFill, Raises, BankReads, BankCommits,
           ResolveCommitted, DegradeReads, DegradeWrites
<1>3. ASSUME NEW s \in Syncers, Sync(s)
      PROVE  UNCHANGED <<fate, sold, otherSold>>
  BY <1>3 DEF Sync, SyncFindsFill, SyncFindsDead, BankReads, BankCommits,
              Raises, ResolveCommitted
<1>4. QED
  BY <1>1, <1>2, <1>3 DEF Next, BrokerActs, vars, Freeze, Crash

\* Every step leaves an intent alone or changes it in one of those ways.
LEMMA IntentMoves ==
    ASSUME IInv, InHand, [Next]_vars, NEW k \in IntentKeys
    PROVE  \/ intents'[k] = intents[k]
           \/ Opened(k) \/ Bound(k)
           \/ Failed(k) \/ Confirmed(k)
<1> USE DEF IInv, TypeOK
<1>1. ASSUME NEW m \in Managers, Manage(m)
      PROVE  \/ intents'[k] = intents[k]
             \/ Opened(k) \/ Bound(k)
             \/ Failed(k) \/ Confirmed(k)
  <2> m \in Clients
    BY DEF Clients
  <2>1. CASE \E j \in IntentKeys, kind \in Kinds, stop \in Levels \cup {0} :
                Prepare(m, j, kind, stop)
    BY <2>1 DEF Prepare, Opened, NewIntent
  <2>2. CASE Bind(m)
    BY <2>2 DEF Bind, BindAccepted, Bound, Positions
  <2>3. CASE \E st \in {"confirmed", "failed"} : ResolveUncommitted(m, st)
    <3>1. PICK st \in {"confirmed", "failed"} : ResolveUncommitted(m, st)
      BY <2>3
    <3>2. /\ cur[m] \in IntentKeys
          /\ intents[cur[m]] # NoIntent
          /\ intents[cur[m]].kind = "partial_scale" \/ IsOpen(intents[cur[m]])
      BY <3>1 DEF ResolveUncommitted, Positions, InHand, InHandOf, Clients
    <3>3. CASE cur[m] # k
      BY <3>1, <3>3 DEF ResolveUncommitted
    <3>4. CASE cur[m] = k
      BY <3>1, <3>2, <3>4 DEF ResolveUncommitted, ConfirmedBySale, ProvedFailed,
                              Failed, Confirmed, RatchetSold
    <3>5. QED
      BY <3>3, <3>4
  <2>4. CASE ResolveCommitted(m)
    BY <2>4 DEF ResolveCommitted, Positions, InHand, InHandOf, Clients, Confirmed
  <2>5. QED
    BY <1>1, <2>1, <2>2, <2>3, <2>4
       DEF Manage, Hydrate, SeesNoIntent, SeesIntent, Settle, Undegrade, Return,
           AdvancePeak, Submit, CommitStop, LeaveIntentOpen, ManagerFindsFill, Raises,
           BankReads, BankCommits, DegradeReads, DegradeWrites
<1>2. ASSUME NEW s \in Syncers, Sync(s)
      PROVE  intents'[k] = intents[k] \/ Failed(k) \/ Confirmed(k)
  <2> s \in Clients
    BY DEF Clients
  <2>1. CASE \E j \in IntentKeys : SyncFindsDead(s, j)
    BY <2>1 DEF SyncFindsDead, OpenKeys, IsOpen, Failed
  <2>2. CASE ResolveCommitted(s)
    BY <2>2 DEF ResolveCommitted, Positions, InHand, InHandOf, Clients, Confirmed
  <2>3. QED
    BY <1>2, <2>1, <2>2 DEF Sync, SyncFindsFill, BankReads, BankCommits, Raises
<1>3. CASE BrokerActs
  BY <1>3 DEF BrokerActs, BrokerSettles, OtherStopSells
<1>4. QED
  BY <1>1, <1>2, <1>3 DEF Next, BrokerActs, vars, Freeze, Crash

\* Outcomes agree with the broker after every step.
LEMMA OutcomesStep ==
    ASSUME IInv, InHand, Outcomes, [Next]_vars
    PROVE  Outcomes'
<1> SUFFICES ASSUME NEW k \in IntentKeys, intents'[k] # NoIntent
             PROVE  /\ intents'[k].broker \in {NoOrder, k}
                    /\ intents'[k].status # "abandoned"
                    /\ intents'[k].kind = "partial_scale" =>
                          /\ intents'[k].status = "failed"
                                => \/ intents'[k].broker = NoOrder
                                   \/ fate'[k] = "dead" /\ sold'[k] = 0
                          /\ intents'[k].status = "confirmed"
                                => intents'[k].broker = k /\ sold'[k] > 0
  BY DEF Outcomes
<1>1. /\ intents[k] \in Intent \cup {NoIntent}
      /\ intents'[k] \in Intent \cup {NoIntent}
      /\ sold[k] > 0 => sold'[k] = sold[k]
      /\ fate[k] = "dead" => fate'[k] = "dead" /\ sold'[k] = sold[k]
  BY TypeStep, TruthStays DEF IInv, TypeOK
<1>2. CASE intents'[k] = intents[k]
  BY <1>1, <1>2 DEF Outcomes
<1>3. CASE Opened(k)
  BY <1>1, <1>3 DEF Opened
<1>4. CASE Bound(k)
  <2>1. intents[k] \in Intent
    BY <1>1, <1>4 DEF Bound, IsOpen
  <2>2. intents'[k].status = "submitted" /\ intents'[k].broker = k
    BY <1>4, <2>1, IntentFields DEF Bound
  <2>3. QED
    BY <2>2
<1>5. CASE Failed(k)
  <2>1. intents[k] \in Intent
    BY <1>1, <1>5 DEF Failed
  <2>2. /\ intents'[k].status = "failed"
        /\ intents'[k].broker = intents[k].broker
        /\ intents'[k].kind = intents[k].kind
    BY <1>5, <2>1, IntentFields DEF Failed
  <2>3. QED
    BY <1>1, <1>5, <2>1, <2>2 DEF Failed, Outcomes
<1>6. CASE Confirmed(k)
  <2>1. intents[k] \in Intent
    BY <1>1, <1>6 DEF Confirmed
  <2>2. /\ intents'[k].status = "confirmed"
        /\ intents'[k].broker = intents[k].broker
        /\ intents'[k].kind = intents[k].kind
    BY <1>6, <2>1, IntentFields DEF Confirmed
  <2>3. QED
    BY <1>1, <1>6, <2>1, <2>2 DEF Confirmed, PartialSold, Outcomes
<1>7. QED
  BY <1>2, <1>3, <1>4, <1>5, <1>6, IntentMoves

\* An intent is never deleted and keeps its kind and stop, a sale is never
\* undone, and the row's stop and banked quantity do not fall under it.
LEMMA IntentKept ==
    ASSUME IInv, InHand, [Next]_vars,
           NEW k \in IntentKeys, intents[k] # NoIntent
    PROVE  /\ intents'[k] # NoIntent
           /\ intents'[k].kind = intents[k].kind
           /\ intents'[k].stop = intents[k].stop
           /\ PartialSold(k) => PartialSold(k)' /\ sold'[k] = sold[k]
           /\ RatchetSold(k) => RatchetSold(k)'
           /\ row.banked <= row'.banked
           /\ PartialSold(k) /\ sold[k] <= row.banked => sold'[k] <= row'.banked
           /\ row.stop >= intents[k].stop => row'.stop >= intents'[k].stop
<1>1. intents[k] \in Intent /\ row \in Row
  BY DEF IInv, TypeOK, Positions
<1>2. /\ intents'[k] # NoIntent
      /\ intents'[k].kind = intents[k].kind
      /\ intents'[k].stop = intents[k].stop
  <2>1. WithBinding(intents[k], k) \in Intent
    BY <1>1, IntentShapes
  <2>2. /\ WithResolution(intents[k], "failed") \in Intent
        /\ WithResolution(intents[k], "confirmed") \in Intent
    BY <1>1, IntentShapes DEF TerminalStatuses
  <2>3. QED
    BY <1>1, <2>1, <2>2, IntentMoves, IntentFields, AbsenceAssumption
       DEF Opened, Bound, Failed, Confirmed
<1>3. /\ PartialSold(k) => PartialSold(k)' /\ sold'[k] = sold[k]
      /\ RatchetSold(k) => RatchetSold(k)'
  <2>1. intents[k].broker = k => intents'[k].broker = k
    BY <1>1, IntentMoves, IntentFields DEF Opened, Bound, Failed, Confirmed
  <2>2. QED
    BY <1>2, <2>1, TruthStays DEF PartialSold, RatchetSold
<1>4. row' \in Row /\ row.stop <= row'.stop /\ row.banked <= row'.banked
  <2>1. CASE row' = row
    BY <1>1, <2>1 DEF Row
  <2>2. CASE row' \in Row /\ Grows(row, row')
    BY <2>2 DEF Grows, NoHigher
  <2>3. QED
    BY <1>1, <2>1, <2>2, RowGrows, AbsenceAssumption
<1>5. QED
  <2> DEFINE a == row.stop
             b == row'.stop
             d == intents[k].stop
  <2>1. a \in Nat /\ b \in Nat /\ d \in Nat /\ a <= b /\ intents'[k].stop = d
    BY <1>1, <1>2, <1>4 DEF Row, Intent
  <2>2. a >= d => b >= d
    <3> HIDE DEF a, b, d
    <3> QED BY <2>1
  <2>3. sold[k] <= row.banked => sold[k] <= row'.banked
    <3>1. sold[k] \in Nat /\ row.banked \in Nat /\ row'.banked \in Nat
      BY <1>1, <1>4, QuantityAssumption DEF IInv, TypeOK, Row
    <3>2. QED
      BY <1>4, <3>1
  <2>4. PartialSold(k) /\ sold[k] <= row.banked => sold'[k] <= row'.banked
    BY <1>3, <2>3
  <2>5. QED
    BY <1>2, <1>3, <1>4, <2>1, <2>2, <2>4

\* A coroutine that did not move still knows what it knew, as long as nobody
\* resolved the stop intent it holds.
LEMMA StillInHand ==
    ASSUME IInv, InHand, [Next]_vars, NEW c \in Clients,
           pc'[c] = pc[c], cur'[c] = cur[c],
           c \in Syncers \/ pc[c] = "idle" \/ intents' = intents
    PROVE  InHandOf(c)'
<1>1. CASE pc[c] \in {"intent", "bank", "banking", "committed"}
  <2>1. /\ cur[c] \in IntentKeys
        /\ intents[cur[c]] # NoIntent
    BY <1>1 DEF IInv, Positions
  <2>2. InHandOf(c)
    BY DEF InHand
  <2> PICK k \in IntentKeys : k = cur[c]
    BY <2>1
  <2>3. /\ intents'[k].kind = intents[k].kind
        /\ PartialSold(k) => PartialSold(k)'
        /\ PartialSold(k) /\ sold[k] <= row.banked => sold'[k] <= row'.banked
        /\ row.stop >= intents[k].stop => row'.stop >= intents'[k].stop
    BY <2>1, IntentKept
  <2>4. QED
    BY <1>1, <2>1, <2>2, <2>3, ClientsAssumption DEF InHandOf, PartialSold, Clients
<1>2. CASE pc[c] \notin {"intent", "bank", "banking", "committed"}
  BY <1>2 DEF IInv, Positions, InHandOf
<1>3. QED
  BY <1>1, <1>2

\* A bank reads the row or writes what its order sold into it.
LEMMA BankingKnows ==
    ASSUME IInv, InHand, NEW c \in Clients, BankReads(c) \/ BankCommits(c)
    PROVE  InHandOf(c)'
<1> USE DEF IInv, TypeOK
<1>1. InHandOf(c) /\ intents' = intents /\ sold' = sold
  BY DEF InHand, BankReads, BankCommits, Raises
<1>2. CASE pc'[c] = "idle"
  BY <1>2 DEF InHandOf
<1>3. CASE pc'[c] # "idle"
  <2>1. CASE BankReads(c)
    BY <1>1, <2>1 DEF BankReads, Goto, InHandOf, PartialSold
  <2>2. CASE BankCommits(c)
    <3>1. /\ pc[c] = "banking" /\ pc'[c] = "committed" /\ cur'[c] = cur[c]
          /\ row' = Banked(local[c], sold[cur[c]])
      BY <1>3, <2>2 DEF BankCommits, Commits, Raises, Leave, Goto
    <3>2. local[c] \in Row /\ sold[cur[c]] \in Nat
      BY <3>1, QuantityAssumption DEF Positions
    <3>3. row'.banked = Higher(local[c].banked, sold[cur[c]])
      BY <3>1 DEF Banked, Advanced
    <3>4. sold[cur[c]] <= row'.banked
      BY <3>2, <3>3 DEF Higher, Row
    <3>5. QED
      BY <1>1, <3>1, <3>4 DEF InHandOf, PartialSold
  <2>3. QED
    BY <2>1, <2>2
<1>4. QED
  BY <1>2, <1>3

\* Every coroutine's knowledge of its intent survives every step.
LEMMA InHandStep ==
    ASSUME IInv, InHand, [Next]_vars
    PROVE  InHand'
<1> SUFFICES ASSUME NEW c \in Clients PROVE InHandOf(c)'
  BY DEF InHand
<1> USE DEF IInv, TypeOK
<1>1. ASSUME NEW m \in Managers, Manage(m), c # m PROVE InHandOf(c)'
  <2>1. pc'[c] = pc[c] /\ cur'[c] = cur[c]
    BY <1>1 DEF Clients, Manage, Hydrate, SeesNoIntent, SeesIntent, Settle,
           Undegrade, Return, AdvancePeak, Prepare, Submit, Bind, CommitStop,
           LeaveIntentOpen, ResolveUncommitted, ManagerFindsFill, BankReads,
           BankCommits, ResolveCommitted, DegradeReads, DegradeWrites,
           Goto, Leave, Done, Commits, Raises
  <2>2. pc[m] # "idle" => lock = m
    BY DEF Positions
  <2>3. pc[m] = "idle" => lock = NoClient
    BY <1>1 DEF Manage, Hydrate, SeesNoIntent, SeesIntent, Settle,
           Undegrade, Return, AdvancePeak, Prepare, Submit, Bind, CommitStop,
           LeaveIntentOpen, ResolveUncommitted, ManagerFindsFill, BankReads,
           BankCommits, ResolveCommitted, DegradeReads, DegradeWrites
  <2>4. c \in Syncers \/ pc[c] = "idle"
    BY <1>1, <2>2, <2>3, ClientsAssumption DEF Positions, Clients
  <2>5. QED
    BY <2>1, <2>4, StillInHand
<1>2. ASSUME NEW m \in Managers, Manage(m), c = m PROVE InHandOf(c)'
  <2> m \in Clients /\ m \notin Syncers
    BY ClientsAssumption DEF Clients
  <2>1. CASE \/ Hydrate(m) \/ SeesNoIntent(m) \/ Settle(m) \/ Return(m)
             \/ DegradeReads(m) \/ DegradeWrites(m) \/ LeaveIntentOpen(m)
    BY <1>2, <2>1 DEF Hydrate, SeesNoIntent, Settle, Return, DegradeReads,
                      DegradeWrites, LeaveIntentOpen, Goto, Leave, InHandOf
  <2>2. CASE SeesIntent(m)
    BY <1>2, <2>2 DEF SeesIntent, OpenKeys, Goto, InHandOf
  <2>3. CASE Undegrade(m) \/ \E p \in Levels : AdvancePeak(m, p)
    BY <1>2, <2>3 DEF Undegrade, AdvancePeak, Raises, Goto, Leave, InHandOf
  <2>4. CASE \E k \in IntentKeys, kind \in Kinds, stop \in Levels \cup {0} :
                Prepare(m, k, kind, stop)
    <3> PICK k \in IntentKeys, kind \in Kinds, stop \in Levels \cup {0} :
             Prepare(m, k, kind, stop)
      BY <2>4
    <3>1. CASE pc'[m] = "idle"
      BY <1>2, <3>1 DEF InHandOf
    <3>2. CASE pc'[m] # "idle"
      <4>1. /\ pc'[m] = "intent" /\ cur'[m] = k
            /\ intents'[k] = NewIntent(k, local[m], kind, stop)
        BY <3>2 DEF Prepare, Goto, Leave
      <4>2. NewIntent(k, local[m], kind, stop) # NoIntent
        BY NewIntentType, AbsenceAssumption DEF Prepare, Positions
      <4>3. IsOpen(intents'[k])
        BY <4>1, <4>2 DEF IsOpen, NewIntent, OpenStatuses
      <4>4. QED
        BY <1>2, <4>1, <4>3 DEF InHandOf
    <3>3. QED
      BY <3>1, <3>2
  <2>5. CASE Bind(m)
    <3>1. /\ pc'[m] = "intent" /\ cur'[m] = cur[m] /\ cur[m] \in IntentKeys
          /\ intents'[cur[m]] = WithBinding(intents[cur[m]], cur[m])
          /\ intents[cur[m]] \in Intent
      BY <2>5 DEF Bind, Positions
    <3>2. IsOpen(intents'[cur[m]])
      <4>1. intents'[cur[m]].status = "submitted"
        BY <3>1, IntentFields
      <4>2. intents'[cur[m]] # NoIntent
        BY <3>1, IntentShapes, AbsenceAssumption
      <4>3. QED
        BY <4>1, <4>2 DEF IsOpen, OpenStatuses
    <3>3. QED
      BY <1>2, <3>1, <3>2 DEF InHandOf
  <2>6. CASE CommitStop(m)
    <3>1. CASE pc'[m] = "idle"
      BY <1>2, <3>1 DEF InHandOf
    <3>2. CASE pc'[m] # "idle"
      <4>1. /\ pc[m] = "intent" /\ pc'[m] = "committed" /\ cur'[m] = cur[m]
            /\ intents' = intents
            /\ intents[cur[m]].kind # "partial_scale"
            /\ row' = StopMoved(local[m], intents[cur[m]], m \in recovering)
        BY <2>6, <3>2 DEF CommitStop, Commits, Raises, Goto, Leave
      <4>2. IsOpen(intents[cur[m]]) /\ intents[cur[m]] \in Intent
        BY <4>1 DEF InHand, InHandOf, Positions
      <4>3. row'.stop = intents[cur[m]].stop
        BY <4>1 DEF StopMoved, Advanced
      <4>4. row'.stop >= intents[cur[m]].stop
        BY <4>2, <4>3 DEF Intent
      <4>5. QED
        BY <1>2, <4>1, <4>2, <4>4 DEF InHandOf
    <3>3. QED
      BY <3>1, <3>2
  <2>7. CASE \/ \E st \in {"confirmed", "failed"} : ResolveUncommitted(m, st)
             \/ ResolveCommitted(m)
    <3>1. pc'[m] \in {"settle", "idle"}
      BY <2>7 DEF ResolveUncommitted, ResolveCommitted, Done, Leave, Goto
    <3>2. QED
      BY <1>2, <3>1 DEF InHandOf
  <2>8. CASE ManagerFindsFill(m)
    <3>1. pc'[m] = "bank" => /\ cur'[m] = cur[m] /\ sold' = sold /\ intents' = intents
                             /\ PartialSold(cur[m])
      BY <2>8 DEF ManagerFindsFill, Done, Leave, Goto, PartialSold
    <3>2. pc'[m] \in {"bank", "settle", "idle"}
      BY <2>8 DEF ManagerFindsFill, Done, Leave, Goto
    <3>3. QED
      BY <1>2, <3>1, <3>2 DEF InHandOf, PartialSold
  <2>9. CASE BankReads(m) \/ BankCommits(m)
    BY <1>2, <2>9, BankingKnows
  <2>10. CASE Submit(m)
    BY <1>2, <2>10, StillInHand DEF Submit
  <2>11. QED
    BY <1>2, <2>1, <2>2, <2>3, <2>4, <2>5, <2>6, <2>7, <2>8, <2>9, <2>10 DEF Manage
<1>3. ASSUME NEW s \in Syncers, Sync(s), c # s PROVE InHandOf(c)'
  <2> s \in Clients
    BY DEF Clients
  <2>1. pc'[c] = pc[c] /\ cur'[c] = cur[c]
    BY <1>3 DEF Sync, SyncFindsFill, SyncFindsDead, BankReads, BankCommits,
                ResolveCommitted, Goto, Leave, Done, Commits, Raises
  <2>2. CASE c \in Syncers \/ pc[c] \notin {"intent", "committed"}
    <3>1. CASE c \in Syncers \/ pc[c] = "idle"
      BY <2>1, <3>1, StillInHand
    <3>2. CASE c \in Managers /\ pc[c] \in {"bank", "banking"}
      BY <2>1, <3>2, IntentKept, ClientsAssumption
         DEF InHand, InHandOf, Positions
    <3>3. CASE /\ c \in Managers
               /\ pc[c] \notin {"bank", "banking", "intent", "committed"}
      BY <2>1, <3>3, ClientsAssumption DEF InHandOf
    <3>4. QED
      BY <2>2, <3>1, <3>2, <3>3 DEF Clients
  <2>3. CASE c \in Managers /\ pc[c] \in {"intent", "committed"}
    <3> PICK k \in IntentKeys : k = cur[c]
      BY <2>3 DEF Positions
    <3>1. intents[k] # NoIntent /\ c \notin Syncers
      BY <2>3, ClientsAssumption DEF Positions
    <3>2. /\ intents'[k].kind = intents[k].kind
          /\ PartialSold(k) => PartialSold(k)'
          /\ PartialSold(k) /\ sold[k] <= row.banked => sold'[k] <= row'.banked
          /\ row.stop >= intents[k].stop => row'.stop >= intents'[k].stop
      BY <3>1, IntentKept
    <3>3. intents[k].kind # "partial_scale" => intents'[k] = intents[k]
      BY <1>3, <3>1 DEF Sync, SyncFindsFill, SyncFindsDead, BankReads,
            BankCommits, Raises, ResolveCommitted, InHand, InHandOf
    <3>4. InHandOf(c)
      BY DEF InHand
    <3>5. QED
      BY <2>1, <2>3, <3>1, <3>2, <3>3, <3>4 DEF InHandOf, PartialSold
  <2>4. QED
    BY <2>2, <2>3 DEF Clients
<1>4. ASSUME NEW s \in Syncers, Sync(s), c = s PROVE InHandOf(c)'
  <2> s \in Clients /\ s \notin Managers
    BY ClientsAssumption DEF Clients
  <2>1. CASE \E k \in IntentKeys : SyncFindsFill(s, k)
    BY <1>4, <2>1 DEF SyncFindsFill, Goto, InHandOf, PartialSold
  <2>2. CASE \E k \in IntentKeys : SyncFindsDead(s, k)
    BY <1>4, <2>2, StillInHand DEF SyncFindsDead
  <2>3. CASE BankReads(s) \/ BankCommits(s)
    BY <1>4, <2>3, BankingKnows
  <2>4. CASE ResolveCommitted(s)
    <3>1. s \notin recovering
      BY DEF Clients
    <3>2. pc'[s] = "idle"
      BY <2>4, <3>1 DEF ResolveCommitted, Done, Leave, Goto
    <3>3. QED
      BY <1>4, <3>2 DEF InHandOf
  <2>5. QED
    BY <1>4, <2>1, <2>2, <2>3, <2>4 DEF Sync
<1>5. CASE Crash
  BY <1>5 DEF Crash, InHandOf
<1>6. CASE \/ \E h \in Hashes, stop \in Levels \cup {0} : Freeze(h, stop)
           \/ BrokerActs
           \/ UNCHANGED vars
  BY <1>6, StillInHand DEF Freeze, BrokerActs, BrokerSettles, OtherStopSells, vars
<1>7. QED
  BY <1>1, <1>2, <1>3, <1>4, <1>5, <1>6 DEF Next, BrokerActs

\* Outcomes and what the coroutines hold are inductive together.
LEMMA OutcomeInvariant == Spec => [](InHand /\ Outcomes)
<1>1. Init => InHand /\ Outcomes
  BY DEF Init, InHand, InHandOf, Outcomes, Clients
<1>2. IInv /\ InHand /\ Outcomes /\ [Next]_vars => InHand' /\ Outcomes'
  BY InHandStep, OutcomesStep
<1>3. QED
  BY <1>1, <1>2, InductiveInvariant, PTL DEF Spec

\* A confirmed stop move is in the row, or it is a ratchet of whose handoff some
\* stop (prior, replacement or restored) sold, whatever coroutines interleave
\* and wherever the process dies between the write of the row and the
\* resolution of the intent.
THEOREM ConfirmedStopsAreDurable == Spec => []ConfirmedStopIsCommitted
<1>1. Init => ConfirmedStopIsCommitted
  BY DEF Init, ConfirmedStopIsCommitted
<1>2. IInv /\ InHand /\ ConfirmedStopIsCommitted /\ [Next]_vars
         => ConfirmedStopIsCommitted'
  <2> SUFFICES ASSUME IInv, InHand, ConfirmedStopIsCommitted, [Next]_vars,
                      NEW k \in IntentKeys,
                      intents'[k] # NoIntent,
                      intents'[k].kind # "partial_scale",
                      intents'[k].status = "confirmed"
               PROVE  RatchetSold(k)' \/ row'.stop >= intents'[k].stop
    BY DEF ConfirmedStopIsCommitted, RatchetSold
  <2>1. intents[k] # NoIntent
    BY IntentMoves DEF Opened, Bound, IsOpen, Failed, Confirmed
  <2>2. intents[k] \in Intent
    BY <2>1 DEF IInv, TypeOK
  <2>3. /\ intents'[k].kind = intents[k].kind
        /\ RatchetSold(k) => RatchetSold(k)'
        /\ row.stop >= intents[k].stop => row'.stop >= intents'[k].stop
    BY <2>1, IntentKept
  <2>4. RatchetSold(k) \/ row.stop >= intents[k].stop
    <3>1. CASE intents'[k] = intents[k]
      BY <2>1, <3>1 DEF ConfirmedStopIsCommitted, RatchetSold
    <3>2. CASE Confirmed(k)
      BY <2>3, <3>2 DEF Confirmed
    <3>3. ~Bound(k) /\ ~Failed(k)
      BY <2>2, IntentFields DEF Bound, Failed
    <3>4. QED
      BY <2>1, <3>1, <3>2, <3>3, IntentMoves DEF Opened
  <2>5. QED
    BY <2>3, <2>4
<1>3. QED
  BY <1>1, <1>2, InductiveInvariant, OutcomeInvariant, PTL DEF Spec

\* An intent that was resolved is never resolved otherwise, although two
\* coroutines may both resolve it and the table accepts either: a second
\* resolution repeats the first.
THEOREM OutcomesAreFinal == Spec => OutcomeIsFinal
<1>1. IInv /\ InHand /\ Outcomes /\ [Next]_vars =>
        [\A k \in IntentKeys :
            intents[k] # NoIntent /\ intents[k].status \in TerminalStatuses
                => intents'[k] = intents[k]]_vars
  <2> SUFFICES ASSUME IInv, InHand, Outcomes, [Next]_vars,
                      NEW k \in IntentKeys, intents[k] # NoIntent,
                      intents[k].status \in TerminalStatuses
               PROVE  intents'[k] = intents[k]
    OBVIOUS
  <2>1. intents[k] \in Intent /\ ~IsOpen(intents[k]) /\ k # NoOrder
    BY KeysAssumption, NoOrderAssumption
       DEF IInv, TypeOK, IsOpen, OpenStatuses, TerminalStatuses
  <2>2. ASSUME Failed(k) PROVE intents'[k] = intents[k]
    <3>1. intents[k].status = "failed"
      BY <2>1, <2>2 DEF Failed, Outcomes, TerminalStatuses, IsOpen
    <3>2. QED
      BY <2>1, <2>2, <3>1, IntentFields DEF Failed
  <2>3. ASSUME Confirmed(k) PROVE intents'[k] = intents[k]
    <3>1. intents[k].status = "confirmed"
      BY <2>1, <2>3 DEF Confirmed, PartialSold, Outcomes, TerminalStatuses
    <3>2. QED
      BY <2>1, <2>3, <3>1, IntentFields DEF Confirmed
  <2>4. QED
    BY <2>1, <2>2, <2>3, IntentMoves DEF Opened, Bound
<1>2. QED
  BY <1>1, InductiveInvariant, OutcomeInvariant, PTL DEF Spec, OutcomeIsFinal

-----------------------------------------------------------------------------
\* A transition the table accepts started from the row as it is now: the
\* version matches, and memory with the row's version is the row.
LEMMA AcceptedFromRow ==
    ASSUME IInv, MemoryIsPast, NEW c \in Clients, NEW new,
           local[c] # NoRow, TransitionAccepted(row, new, local[c].ver)
    PROVE  local[c] = row
BY DEF MemoryIsPast, IsPast, TransitionAccepted

\* Only a bank writes another banked quantity, and it takes the larger of the
\* row's and the one its order sold.
LEMMA BankedMoves ==
    ASSUME IInv, MemoryIsPast, [Next]_vars, row' # row, row # NoRow
    PROVE  \/ row'.banked = row.banked
           \/ \E c \in Clients : /\ pc[c] = "banking"
                                /\ row'.banked = sold[cur[c]]
<1> USE DEF IInv, TypeOK
<1>1. ASSUME NEW c \in Clients, BankCommits(c)
      PROVE  row'.banked = row.banked \/ (pc[c] = "banking" /\ row'.banked = sold[cur[c]])
  <2>1. local[c] # NoRow /\ pc[c] = "banking"
    BY <1>1 DEF BankCommits, Positions
  <2>2. /\ TransitionAccepted(row, Banked(local[c], sold[cur[c]]), local[c].ver)
        /\ row' = Banked(local[c], sold[cur[c]])
    BY <1>1 DEF BankCommits, Commits, Raises
  <2>3. local[c] = row
    BY <2>1, <2>2, AcceptedFromRow
  <2>4. row'.banked = Higher(row.banked, sold[cur[c]])
    BY <2>2, <2>3 DEF Banked, Advanced
  <2>5. QED
    BY <2>1, <2>4 DEF Higher
<1>2. ASSUME NEW m \in Managers, Manage(m), ~BankCommits(m)
      PROVE  row'.banked = row.banked
  <2> m \in Clients
    BY DEF Clients
  <2>1. PICK new : /\ row' = new
                   /\ new.banked = local[m].banked
                   /\ TransitionAccepted(row, new, local[m].ver)
                   /\ local[m] # NoRow
    <3>1. CASE Undegrade(m)
      BY <3>1 DEF Undegrade, Commits, Raises, Undegraded, Advanced, Positions
    <3>2. CASE \E p \in Levels : AdvancePeak(m, p)
      BY <3>2 DEF AdvancePeak, Commits, Raises, Peaked, Advanced, Positions
    <3>3. CASE CommitStop(m)
      <4>1. /\ row' = StopMoved(local[m], intents[cur[m]], m \in recovering)
            /\ TransitionAccepted(row, row', local[m].ver)
            /\ local[m] # NoRow
        BY <3>3 DEF CommitStop, Commits, Raises, Positions
      <4>2. row'.banked = local[m].banked
        BY <4>1 DEF StopMoved, Advanced
      <4>3. QED
        BY <4>1, <4>2
    <3>4. CASE DegradeWrites(m)
      BY <3>4 DEF DegradeWrites, Degraded, Advanced, Positions
    <3>5. QED
      BY <1>2, <3>1, <3>2, <3>3, <3>4
         DEF Manage, Hydrate, SeesNoIntent, SeesIntent, Settle, Return, Prepare,
             Submit, Bind, LeaveIntentOpen, ResolveUncommitted, ManagerFindsFill,
             BankReads, ResolveCommitted, DegradeReads
  <2>2. local[m] = row
    BY <2>1, AcceptedFromRow
  <2>3. QED
    BY <2>1, <2>2
<1>3. ASSUME NEW s \in Syncers, Sync(s) PROVE BankCommits(s) /\ s \in Clients
  BY <1>3 DEF Clients, Sync, SyncFindsFill, SyncFindsDead, BankReads,
              ResolveCommitted
<1>4. QED
  BY <1>1, <1>2, <1>3
     DEF Next, vars, Freeze, BrokerSettles, OtherStopSells, Crash, Clients

\* However many coroutines confirm a partial, with whatever quantity its order
\* turns out to have sold, the row's banked quantity is that of one partial's
\* sale and at least that of every confirmed one: a second confirmation takes a
\* maximum, or is refused because the version moved.
THEOREM PartialBankedOnce == Spec => []BankedIsOneFill
<1>1. Init => BankedIsOneFill
  BY DEF Init, BankedIsOneFill
<1>2. IInv /\ IInv' /\ InHand /\ MemoryIsPast /\ BankedIsOneFill /\ [Next]_vars
         => BankedIsOneFill'
  <2> SUFFICES ASSUME IInv, IInv', InHand, MemoryIsPast, BankedIsOneFill, [Next]_vars
               PROVE  BankedIsOneFill'
    OBVIOUS
  <2>1. ASSUME row' # NoRow, row'.banked # 0
        PROVE  \E k \in IntentKeys : /\ intents'[k] # NoIntent
                                    /\ intents'[k].kind = "partial_scale"
                                    /\ row'.banked = sold'[k]
    <3>1. row # NoRow
      <4>1. CASE row = NoRow
        <5>1. \E h \in Hashes, stop \in Levels \cup {0} : Freeze(h, stop)
          BY <2>1, <4>1, FirstRow
        <5>2. QED
          BY <2>1, <5>1 DEF Freeze, SeedRow
      <4>2. QED
        BY <4>1
    <3>2. PICK k \in IntentKeys : /\ intents[k] # NoIntent
                                 /\ intents[k].kind = "partial_scale"
                                 /\ row'.banked = sold[k]
      <4>1. CASE row'.banked = row.banked
        BY <2>1, <3>1, <4>1 DEF BankedIsOneFill
      <4>2. CASE \E c \in Clients : pc[c] = "banking" /\ row'.banked = sold[cur[c]]
        BY <4>2 DEF IInv, Positions, InHand, InHandOf, PartialSold
      <4>3. QED
        BY <3>1, <4>1, <4>2, BankedMoves
    <3>3. sold[k] > 0
      <4>1. sold[k] \in Nat
        BY QuantityAssumption DEF IInv, TypeOK
      <4>2. QED
        BY <2>1, <3>2, <4>1
    <3>4. sold'[k] = sold[k]
      BY <3>3, TruthStays
    <3>5. QED
      BY <3>2, <3>4, IntentKept
  <2>2. ASSUME NEW k \in IntentKeys, intents'[k] # NoIntent,
               intents'[k].kind = "partial_scale", intents'[k].status = "confirmed"
        PROVE  sold'[k] > 0 /\ sold'[k] <= row'.banked
    <3>1. intents[k] # NoIntent
      BY <2>2, IntentMoves DEF Opened, Bound, IsOpen, Failed, Confirmed
    <3>2. intents[k] \in Intent
      BY <3>1 DEF IInv, TypeOK
    <3>3. sold[k] > 0 /\ sold[k] <= row.banked
      <4>1. intents[k].kind = "partial_scale"
        BY <2>2, <3>1, IntentKept
      <4>2. CASE intents'[k] = intents[k]
        BY <2>2, <3>1, <4>1, <4>2 DEF BankedIsOneFill
      <4>3. CASE Confirmed(k)
        BY <4>1, <4>3 DEF Confirmed, PartialSold
      <4>4. ~Bound(k) /\ ~Failed(k)
        BY <2>2, <3>2, IntentFields DEF Bound, Failed
      <4>5. QED
        BY <3>1, <4>2, <4>3, <4>4, IntentMoves DEF Opened
    <3>4. sold'[k] = sold[k] /\ row.banked <= row'.banked
      BY <3>1, <3>3, TruthStays, IntentKept
    <3>5. sold[k] \in Nat /\ row.banked \in Nat /\ row'.banked \in Nat
      <4>1. row \in Row /\ row' \in Row /\ sold[k] \in Nat
        BY <2>2, <3>1, QuantityAssumption DEF IInv, TypeOK, Positions
      <4>2. QED
        BY <4>1 DEF Row
    <3>6. QED
      BY <3>3, <3>4, <3>5
  <2>3. QED
    BY <2>1, <2>2 DEF BankedIsOneFill
<1>3. QED
  BY <1>1, <1>2, InductiveInvariant, OutcomeInvariant, MemoryNeverAhead, PTL DEF Spec

=============================================================================
