-------------------------- MODULE StopRatchet_proof --------------------------
(***************************************************************************)
(* Proofs about StopRatchet, for any number of handoffs, levels, stops and *)
(* faults.                                                                 *)
(***************************************************************************)
EXTENDS StopRatchet, FiniteSetTheorems, WellFoundedInduction, TLAPS

\* The places where the handler is inside the handoff, and those it reaches
\* only when no intent is open.
InHandoff == {"prior", "cancel", "canceling", "pending", "submit", "placed", "classify",
              "committed", "restore", "restored", "proof", "adopted"}
Clean == {"ratchet", "changed", "find", "protect", "releasing", "close"}

\* The durable stages of the prior stop, of the replacement and of the restore.
Early == {"prepared", "prior_stop_cancel_pending"}
Middle == {"prior_stop_dead_zero_fill", "replacement_submit_pending", "replacement_submitted"}
Late == {"restore_submit_pending", "restore_submitted"}

\* The stage the intent is in while the handler is at a step of the handoff.
AtStage ==
    /\ at \in {"prior", "cancel", "canceling"} => intent.stage \in Early
    /\ at \in {"pending", "submit", "placed"} =>
          intent.stage \in {"prior_stop_dead_zero_fill", "replacement_submit_pending"}
    /\ at \in {"classify", "committed"} => intent.stage = "replacement_submitted"
    /\ at \in {"restore", "restored"} => intent.stage = "restore_submit_pending"
    /\ at = "proof" => intent.stage = "restore_submitted"
    /\ at = "adopted" => intent.stage \in {"replacement_submitted", "restore_submitted"}

\* What the handler holds at its steps.
Handler ==
    /\ at # "idle" => upd # NoPosition
    /\ at \in InHandoff => IsOpen(intent)
    /\ at \in Clean => ~IsOpen(intent)
    /\ at \in {"find", "close"} => upd.stop = NoOrder
    /\ at = "releasing" => upd.stop # NoOrder
    /\ AtStage
    /\ IsOpen(intent) /\ intent.stage \in Late => intent.restore = <<"restore", intent.n>>

IInv == TypeOK /\ Handler

-----------------------------------------------------------------------------
\* A set of naturals has a least element: Min returns a member.
LEMMA MinIsMember ==
    ASSUME NEW S, S \subseteq Nat, S # {}
    PROVE  Min(S) \in S
<1> DEFINE R == OpToRel(<, Nat)
<1>1. \E x \in S : \A y \in S : ~(<<y, x>> \in R)
  <2>1. IsWellFoundedOn(R, Nat)
    BY NatLessThanWellFounded
  <2>2. QED
    BY <2>1, WFMin, Zenon
<1>2. \A x, y \in Nat : y < x => <<y, x>> \in R
  BY DEF OpToRel
<1> HIDE DEF R
<1>3. PICK x \in S : \A y \in S : ~(<<y, x>> \in R)
  BY <1>1, Zenon
<1>4. ASSUME NEW y \in S PROVE x <= y
  <2>1. x \in Nat /\ y \in Nat /\ ~(y < x)
    BY <1>2, <1>3
  <2>2. QED
    BY <2>1
<1>5. QED
  BY <1>4 DEF Min

\* The client ids of the orders, all different.
LEMMA Ids ==
    /\ \A n \in 1..MaxRatchets : /\ <<"replacement", n>> \in SellIds
                                 /\ <<"restore", n>> \in SellIds
    /\ \A i \in 1..Arms : <<"armed", i>> \in SellIds
    /\ <<"close", 1>> \in SellIds
    /\ NoOrder \notin SellIds
    /\ <<"armed", 1>> \in SellIds
<1>1. 1 \in 1..Arms
  BY BoundsAssumption
<1>2. QED
  BY <1>1, IdsAssumption, NoOrderAssumption DEF SellIds

\* The records the actions write.
LEMMA Orders ==
    /\ Absent \in Order
    /\ \A px \in 0..MaxLevel, b \in BOOLEAN : Resting(px, b) \in Order
    /\ \A o \in Order :
          /\ \A s \in {"none", "working", "filled", "dead"}, b, c \in BOOLEAN :
                /\ [o EXCEPT !.st = s, !.cxl = b] \in Order
                /\ [o EXCEPT !.st = s, !.cxl = b, !.null = c] \in Order
          /\ \A b \in BOOLEAN : [o EXCEPT !.cxl = b] \in Order
<1>1. 0 \in 0..MaxLevel
  BY BoundsAssumption
<1>2. Absent \in Order
  BY <1>1 DEF Absent, Order
<1>3. ASSUME NEW px \in 0..MaxLevel, NEW b \in BOOLEAN PROVE Resting(px, b) \in Order
  BY DEF Resting, Order
<1>4. ASSUME NEW o \in Order
      PROVE  /\ \A b \in BOOLEAN : [o EXCEPT !.cxl = b] \in Order
             /\ \A b \in BOOLEAN : [o EXCEPT !.null = b] \in Order
             /\ \A s \in {"none", "working", "filled", "dead"} : [o EXCEPT !.st = s] \in Order
  BY DEF Order
<1>5. ASSUME NEW o \in Order, NEW s \in {"none", "working", "filled", "dead"},
             NEW b \in BOOLEAN, NEW c \in BOOLEAN
      PROVE  /\ [o EXCEPT !.st = s, !.cxl = b] \in Order
             /\ [o EXCEPT !.st = s, !.cxl = b, !.null = c] \in Order
  <2>1. /\ [o EXCEPT !.st = s, !.cxl = b] = [[o EXCEPT !.st = s] EXCEPT !.cxl = b]
        /\ [o EXCEPT !.st = s, !.cxl = b, !.null = c]
              = [[[o EXCEPT !.st = s] EXCEPT !.cxl = b] EXCEPT !.null = c]
    OBVIOUS
  <2>2. QED
    BY <1>4, <2>1
<1>6. QED
  BY <1>2, <1>3, <1>4, <1>5

\* And those of the tracker and of the intent.
LEMMA Positions ==
    ASSUME NEW p \in Tracked
    PROVE  /\ \A o \in SellIds \cup {NoOrder}, px \in 0..MaxLevel :
                 WithStop(p, o, px) \in Tracked /\ WithStop(p, o, px).stop = o
           /\ Naked(p) \in Tracked /\ Naked(p).stop = NoOrder
           /\ [p EXCEPT !.exit = TRUE] \in Tracked
<1>1. ASSUME NEW o \in SellIds \cup {NoOrder}, NEW px \in 0..MaxLevel
      PROVE  WithStop(p, o, px) \in Tracked /\ WithStop(p, o, px).stop = o
  <2>1. WithStop(p, o, px) = [[p EXCEPT !.stop = o] EXCEPT !.px = px]
    BY DEF WithStop
  <2>2. [p EXCEPT !.stop = o] \in Tracked /\ [p EXCEPT !.stop = o].stop = o
    BY DEF Tracked
  <2>3. ASSUME NEW q \in Tracked
        PROVE  [q EXCEPT !.px = px] \in Tracked /\ [q EXCEPT !.px = px].stop = q.stop
    BY DEF Tracked
  <2>4. QED
    BY <2>1, <2>2, <2>3
<1>2. 0 \in 0..MaxLevel
  BY BoundsAssumption
<1>3. QED
  BY <1>1, <1>2 DEF Naked, Tracked

\* What a write of the intent changes and what it keeps.
LEMMA Intents ==
    ASSUME NEW i \in Ratchet
    PROVE  /\ \A stage \in Stages, o \in SellIds \cup {NoOrder} :
                 LET j == WithHandoff(i, stage, o)
                 IN  /\ j \in Ratchet /\ j.stage = stage /\ j.status = i.status
                     /\ j.n = i.n /\ j.stop = i.stop /\ j.prior = i.prior
                     /\ j.priorStop = i.priorStop
                     /\ j.restore = IF o = NoOrder THEN i.restore ELSE o
           /\ \A status \in OpenStatuses \cup TerminalStatuses :
                 LET j == WithResolution(i, status)
                 IN  /\ j \in Ratchet /\ j.stage = i.stage /\ j.status = status
                     /\ j.n = i.n /\ j.stop = i.stop /\ j.prior = i.prior
                     /\ j.priorStop = i.priorStop /\ j.restore = i.restore
<1>1. ASSUME NEW stage \in Stages, NEW o \in SellIds \cup {NoOrder}
      PROVE  LET j == WithHandoff(i, stage, o)
             IN  /\ j \in Ratchet /\ j.stage = stage /\ j.status = i.status
                 /\ j.n = i.n /\ j.stop = i.stop /\ j.prior = i.prior
                 /\ j.priorStop = i.priorStop
                 /\ j.restore = IF o = NoOrder THEN i.restore ELSE o
  <2> DEFINE r == IF o = NoOrder THEN i.restore ELSE o
             h == [i EXCEPT !.stage = stage]
  <2>1. WithHandoff(i, stage, o) = [h EXCEPT !.restore = r]
    BY DEF WithHandoff
  <2>2. /\ h \in Ratchet /\ h.stage = stage /\ h.status = i.status /\ h.n = i.n
        /\ h.stop = i.stop /\ h.prior = i.prior /\ h.priorStop = i.priorStop
    BY DEF Ratchet
  <2>3. r \in SellIds \cup {NoOrder}
    BY DEF Ratchet
  <2> HIDE DEF r, h
  <2>4. LET j == [h EXCEPT !.restore = r]
        IN  /\ j \in Ratchet /\ j.stage = h.stage /\ j.status = h.status /\ j.n = h.n
            /\ j.stop = h.stop /\ j.prior = h.prior /\ j.priorStop = h.priorStop
            /\ j.restore = r
    BY <2>2, <2>3 DEF Ratchet
  <2>5. QED
    BY <2>1, <2>2, <2>4 DEF r
<1>2. ASSUME NEW status \in OpenStatuses \cup TerminalStatuses
      PROVE  LET j == WithResolution(i, status)
             IN  /\ j \in Ratchet /\ j.stage = i.stage /\ j.status = status
                 /\ j.n = i.n /\ j.stop = i.stop /\ j.prior = i.prior
                 /\ j.priorStop = i.priorStop /\ j.restore = i.restore
  BY DEF WithResolution, Ratchet
<1>3. QED
  BY <1>1, <1>2

-----------------------------------------------------------------------------
(* Every variable keeps its type, and the handler its assumptions          *)

\* The budget only shrinks.
LEMMA BudgetLeft ==
    ASSUME budget \in 0..Budget, Spends \/ UNCHANGED budget
    PROVE  budget' \in 0..Budget
BY BoundsAssumption DEF Spends

\* Answers and readings leave the budget in its bounds.
LEMMA Paid ==
    ASSUME budget \in 0..Budget
    PROVE  /\ \A o, outcome : Classify(o, outcome) => budget' \in 0..Budget
           /\ \A o, canceled : CancelConfirmed(o, canceled) => budget' \in 0..Budget
           /\ \A o, px, outcome : Submit(o, px, outcome) => budget' \in 0..Budget
BY BudgetLeft DEF Classify, CancelConfirmed, Submit

\* One order after a step that touches order o.
LEMMA OneOrder ==
    ASSUME orders \in [SellIds -> Order], NEW o \in SellIds, NEW r \in Order,
           orders' = [orders EXCEPT ![o] = r]
    PROVE  /\ orders' \in [SellIds -> Order]
           /\ orders'[o] = r
           /\ \A q \in SellIds : q # o => orders'[q] = orders[q]
OBVIOUS

\* What became of order o: nothing, sold, dead, marked for cancel, or placed.
Kept(o) == /\ orders'[o].st = orders[o].st
           /\ orders'[o].px = orders[o].px
           /\ orders'[o].acked = orders[o].acked
OthersKept(o) == \A q \in SellIds : q # o => orders'[q] = orders[q]
Becomes(o, st) == /\ orders[o].st = "working" /\ orders'[o].st = st
                  /\ orders'[o].px = orders[o].px
                  /\ orders'[o].acked = orders[o].acked
                  /\ OthersKept(o)
Placed(o, px, acked) == orders'[o] = Resting(px, acked) /\ OthersKept(o)

\* The broker's moves on one order.
LEMMA BrokerMoves ==
    ASSUME orders \in [SellIds -> Order], NEW o \in SellIds
    PROVE  /\ Fill(o) => orders' \in [SellIds -> Order] /\ Becomes(o, "filled")
           /\ Dies(o) => orders' \in [SellIds -> Order] /\ Becomes(o, "dead")
           /\ CancelRequested(o) => /\ orders' \in [SellIds -> Order]
                                    /\ Kept(o) /\ OthersKept(o)
           /\ \A px \in 0..MaxLevel, outcome \in Outcomes : Submit(o, px, outcome) =>
                 /\ orders' \in [SellIds -> Order]
                 /\ UNCHANGED orders \/ (orders[o].st = "none" /\ Placed(o, px, TRUE))
<1> DEFINE x == orders[o]
<1>1. x \in Order
  OBVIOUS
<1>2. /\ x.st \in {"none", "working", "filled", "dead"} /\ x.cxl \in BOOLEAN
      /\ x.acked \in BOOLEAN /\ x.px \in 0..MaxLevel
  BY <1>1 DEF Order
<1>3. ASSUME NEW s \in {"none", "working", "filled", "dead"}, NEW b \in BOOLEAN,
             NEW c \in BOOLEAN
      PROVE  /\ [x EXCEPT !.st = s, !.cxl = b].st = s
             /\ [x EXCEPT !.st = s, !.cxl = b].px = x.px
             /\ [x EXCEPT !.st = s, !.cxl = b].acked = x.acked
             /\ [x EXCEPT !.st = s, !.cxl = b, !.null = c].st = s
             /\ [x EXCEPT !.st = s, !.cxl = b, !.null = c].px = x.px
             /\ [x EXCEPT !.st = s, !.cxl = b, !.null = c].acked = x.acked
             /\ [x EXCEPT !.cxl = b].st = x.st
             /\ [x EXCEPT !.cxl = b].px = x.px
             /\ [x EXCEPT !.cxl = b].acked = x.acked
  BY <1>1 DEF Order
<1>4. ASSUME Fill(o) PROVE orders' \in [SellIds -> Order] /\ Becomes(o, "filled")
  <2> DEFINE r == [x EXCEPT !.st = "filled", !.cxl = FALSE]
  <2>1. orders' = [orders EXCEPT ![o] = r] /\ x.st = "working"
    BY <1>4 DEF Fill
  <2>2. r \in Order
    BY <1>1, Orders
  <2>3. r.st = "filled" /\ r.px = x.px /\ r.acked = x.acked
    BY <1>3
  <2> HIDE DEF r
  <2>4. QED
    BY <2>1, <2>2, <2>3, OneOrder DEF Becomes, OthersKept
<1>5. ASSUME Dies(o) PROVE orders' \in [SellIds -> Order] /\ Becomes(o, "dead")
  <2>1. PICK null \in BOOLEAN :
          orders' = [orders EXCEPT ![o].st = "dead", ![o].cxl = FALSE, ![o].null = null]
    BY <1>5 DEF Dies
  <2> DEFINE r == [x EXCEPT !.st = "dead", !.cxl = FALSE, !.null = null]
  <2>2. orders' = [orders EXCEPT ![o] = r] /\ x.st = "working"
    BY <1>5, <2>1 DEF Dies
  <2>3. r \in Order
    BY <1>1, Orders
  <2>4. r.st = "dead" /\ r.px = x.px /\ r.acked = x.acked
    BY <1>3
  <2> HIDE DEF r
  <2>5. QED
    BY <2>2, <2>3, <2>4, OneOrder DEF Becomes, OthersKept
<1>6. ASSUME CancelRequested(o)
      PROVE  orders' \in [SellIds -> Order] /\ Kept(o) /\ OthersKept(o)
  <2> DEFINE b == x.cxl \/ x.st = "working"
             r == [x EXCEPT !.cxl = b]
  <2>1. orders' = [orders EXCEPT ![o] = r]
    BY <1>6 DEF CancelRequested
  <2>2. b \in BOOLEAN
    BY <1>2
  <2> HIDE DEF b
  <2>3. r \in Order
    BY <1>1, <2>2, Orders
  <2>4. r.st = x.st /\ r.px = x.px /\ r.acked = x.acked
    BY <1>3
  <2>5. r \in Order /\ r.st = x.st /\ r.px = x.px /\ r.acked = x.acked
    BY <2>3, <2>4
  <2> HIDE DEF r
  <2>6. QED
    BY <2>1, <2>5, OneOrder DEF Kept, OthersKept
<1>7. ASSUME NEW px \in 0..MaxLevel, NEW outcome \in Outcomes, Submit(o, px, outcome)
      PROVE  /\ orders' \in [SellIds -> Order]
             /\ UNCHANGED orders \/ (orders[o].st = "none" /\ Placed(o, px, TRUE))
  <2>1. Resting(px, TRUE) \in Order
    BY Orders
  <2>2. CASE outcome # "refused" /\ orders[o].st = "none"
    BY <1>7, <2>1, <2>2, OneOrder DEF Submit, Placed, OthersKept
  <2>3. CASE ~(outcome # "refused" /\ orders[o].st = "none")
    <3>1. orders' = orders
      BY <1>7, <2>3, Zenon DEF Submit
    <3>2. QED
      BY <3>1
  <2>4. QED
    BY <2>2, <2>3
<1>8. QED
  BY <1>4, <1>5, <1>6, <1>7

\* What the type invariant says of the records in hand.
LEMMA Typed ==
    ASSUME TypeOK
    PROVE  /\ intent # NoIntent =>
                 /\ intent \in Ratchet
                 /\ intent.n \in 1..MaxRatchets
                 /\ intent.prior \in SellIds
                 /\ intent.priorStop \in Levels /\ intent.stop \in Levels
                 /\ intent.stage \in Stages
                 /\ intent.status \in OpenStatuses \cup TerminalStatuses
                 /\ intent.restore \in SellIds \cup {NoOrder}
                 /\ Replacement \in SellIds
                 /\ <<"restore", intent.n>> \in SellIds
           /\ upd # NoPosition =>
                 upd \in Tracked /\ upd.stop \in SellIds \cup {NoOrder} /\ upd.px \in 0..MaxLevel
           /\ pos # NoPosition =>
                 pos \in Tracked /\ pos.stop \in SellIds \cup {NoOrder} /\ pos.px \in 0..MaxLevel
           /\ Base \in Levels /\ Levels \subseteq 0..MaxLevel /\ Base \in 0..MaxLevel
           /\ 0 \in 0..MaxLevel
<1>1. ASSUME intent # NoIntent
      PROVE  /\ intent \in Ratchet
             /\ intent.n \in 1..MaxRatchets
             /\ intent.prior \in SellIds
             /\ intent.priorStop \in Levels /\ intent.stop \in Levels
             /\ intent.stage \in Stages
             /\ intent.status \in OpenStatuses \cup TerminalStatuses
             /\ intent.restore \in SellIds \cup {NoOrder}
  <2>1. intent \in Ratchet
    BY <1>1 DEF TypeOK
  <2>2. QED
    BY <2>1 DEF Ratchet
<1>2. intent # NoIntent => Replacement \in SellIds /\ <<"restore", intent.n>> \in SellIds
  BY <1>1, Ids DEF Replacement
<1>3. ASSUME upd # NoPosition
      PROVE  upd \in Tracked /\ upd.stop \in SellIds \cup {NoOrder} /\ upd.px \in 0..MaxLevel
  <2>1. upd \in Tracked
    BY <1>3 DEF TypeOK
  <2>2. QED
    BY <2>1 DEF Tracked
<1>4. ASSUME pos # NoPosition
      PROVE  pos \in Tracked /\ pos.stop \in SellIds \cup {NoOrder} /\ pos.px \in 0..MaxLevel
  <2>1. pos \in Tracked
    BY <1>4 DEF TypeOK
  <2>2. QED
    BY <2>1 DEF Tracked
<1>5. /\ Base \in Levels /\ Levels \subseteq 0..MaxLevel /\ Base \in 0..MaxLevel
      /\ 0 \in 0..MaxLevel
  BY BoundsAssumption DEF Base, Levels
<1>6. QED
  BY <1>1, <1>2, <1>3, <1>4, <1>5

\* A writable intent is one the tables hold.
LEMMA OpenIntent == ASSUME IsOpen(intent) PROVE intent # NoIntent
BY DEF IsOpen

\* The writes of the handoff, seen from the intent.
LEMMA IntentMoves ==
    ASSUME TypeOK, IsOpen(intent)
    PROVE  /\ \A stage \in Stages : Staged(stage) =>
                 /\ intent' \in Ratchet /\ IsOpen(intent)' /\ intent'.stage = stage
                 /\ intent'.n = intent.n /\ intent'.stop = intent.stop
                 /\ intent'.prior = intent.prior /\ intent'.restore = intent.restore
                 /\ intent'.priorStop = intent.priorStop
           /\ \A status \in TerminalStatuses : Resolved(status) =>
                 /\ intent' \in Ratchet /\ ~IsOpen(intent)' /\ intent'.stage = intent.stage
                 /\ intent'.n = intent.n /\ intent'.stop = intent.stop
                 /\ intent'.prior = intent.prior /\ intent'.restore = intent.restore
                 /\ intent'.priorStop = intent.priorStop /\ intent'.status = status
<1>1. intent \in Ratchet /\ intent.status \in OpenStatuses
  BY Typed DEF IsOpen
<1>2. NoIntent \notin Ratchet
  BY SentinelsAssumption
<1>3. ASSUME NEW stage \in Stages, Staged(stage)
      PROVE  /\ intent' \in Ratchet /\ IsOpen(intent)' /\ intent'.stage = stage
             /\ intent'.n = intent.n /\ intent'.stop = intent.stop
             /\ intent'.prior = intent.prior /\ intent'.restore = intent.restore
             /\ intent'.priorStop = intent.priorStop
  <2>1. intent' = WithHandoff(intent, stage, NoOrder)
    BY <1>3 DEF Staged
  <2>2. QED
    BY <1>1, <1>2, <2>1, Intents DEF IsOpen
<1>4. ASSUME NEW status \in TerminalStatuses, Resolved(status)
      PROVE  /\ intent' \in Ratchet /\ ~IsOpen(intent)' /\ intent'.stage = intent.stage
             /\ intent'.n = intent.n /\ intent'.stop = intent.stop
             /\ intent'.prior = intent.prior /\ intent'.restore = intent.restore
             /\ intent'.priorStop = intent.priorStop /\ intent'.status = status
  <2>1. intent' = WithResolution(intent, status)
    BY <1>4 DEF Resolved
  <2>2. status \notin OpenStatuses
    BY DEF OpenStatuses, TerminalStatuses
  <2>3. QED
    BY <1>1, <2>1, <2>2, Intents DEF IsOpen
<1>5. QED
  BY <1>3, <1>4

\* The first step of a resumed recovery is the one of its stage.
LEMMA Resumes ==
    ASSUME NEW stage \in Stages
    PROVE  /\ ResumeAt(stage) \in InHandoff \cap Places
           /\ ResumeAt(stage) \notin {"find", "close", "releasing", "committed", "adopted"}
           /\ ResumeAt(stage) \in {"prior", "cancel", "canceling"} => stage \in Early
           /\ ResumeAt(stage) \in {"pending", "submit", "placed"} =>
                 stage \in {"prior_stop_dead_zero_fill", "replacement_submit_pending"}
           /\ ResumeAt(stage) = "classify" => stage = "replacement_submitted"
           /\ ResumeAt(stage) \in {"restore", "restored"} => stage = "restore_submit_pending"
           /\ ResumeAt(stage) = "proof" => stage = "restore_submitted"
BY DEF ResumeAt, Stages, InHandoff, Places, Early

\* The broker and the reconciliation pass leave the handler alone.
LEMMA AroundTheHandler ==
    ASSUME IInv, \/ \E o \in SellIds : Fill(o) \/ Dies(o)
                 \/ Reconcile
                 \/ UNCHANGED vars
    PROVE  IInv'
<1> USE DEF IInv
<1>1. ASSUME UNCHANGED <<durable, handler>> PROVE Handler'
  BY <1>1 DEF Handler, AtStage, IsOpen, durable, handler
<1>2. ASSUME NEW o \in SellIds, Fill(o) PROVE IInv'
  <2>1. orders' \in [SellIds -> Order] /\ held' \in Int
    <3>1. orders \in [SellIds -> Order] /\ held \in Int
      BY DEF TypeOK
    <3>2. held' = held - 1
      BY <1>2 DEF Fill
    <3>3. held' \in Int
      BY <3>1, <3>2
    <3>4. orders' \in [SellIds -> Order]
      BY <1>2, <3>1, BrokerMoves
    <3>5. QED
      BY <3>3, <3>4
  <2>2. QED
    BY <1>1, <1>2, <2>1 DEF Fill, TypeOK, durable, handler
<1>3. ASSUME NEW o \in SellIds, Dies(o) PROVE IInv'
  <2>1. orders' \in [SellIds -> Order] /\ held' \in Int
    BY <1>3, BrokerMoves DEF Dies, TypeOK
  <2>2. budget' \in 0..Budget
    BY <1>3, BudgetLeft DEF Dies, TypeOK
  <2>3. QED
    BY <1>1, <1>3, <2>1, <2>2 DEF Dies, TypeOK, durable, handler
<1>4. CASE Reconcile
  BY <1>1, <1>4 DEF Reconcile, TypeOK, broker, durable, handler
<1>5. CASE UNCHANGED vars
  BY <1>1, <1>5 DEF vars, TypeOK, broker, durable, handler
<1>6. QED
  BY <1>2, <1>3, <1>4, <1>5

\* The manager and the flat start, go on after a recovery, and end.
LEMMA StartsAndEnds ==
    ASSUME IInv, \/ \E w \in {"manage", "flat"} : BeginRecovery(w) \/ BeginClean(w)
                 \/ AfterRecovery \/ ManageEnds \/ CrashRestart
    PROVE  IInv'
<1> USE DEF IInv
<1>1. ASSUME NEW w \in {"manage", "flat"}, BeginRecovery(w) PROVE IInv'
  <2>1. /\ pos # NoPosition /\ pos \in Tracked /\ IsOpen(intent) /\ intent.stage \in Stages
        /\ intent' = intent /\ at' = ResumeAt(intent.stage) /\ upd' = pos
    BY <1>1, OpenIntent, Typed DEF BeginRecovery, durable
  <2>2. TypeOK'
    BY <1>1, <2>1, Resumes DEF BeginRecovery, TypeOK, broker, durable
  <2>3. Handler'
    BY <2>1, Resumes DEF Handler, AtStage, IsOpen, InHandoff, Clean
  <2>4. QED
    BY <2>2, <2>3
<1>2. ASSUME NEW w \in {"manage", "flat"}, NEW p \in Tracked
      PROVE  /\ FirstPlace(w, p) \in {"find", "ratchet", "protect"}
             /\ FirstPlace(w, p) = "find" => p.stop = NoOrder
  BY DEF FirstPlace
<1>3. ASSUME NEW w \in {"manage", "flat"}, BeginClean(w) PROVE IInv'
  <2>1. /\ pos # NoPosition /\ pos \in Tracked /\ ~IsOpen(intent)
        /\ intent' = intent /\ at' = FirstPlace(w, pos) /\ upd' = pos
    BY <1>3, Typed DEF BeginClean, durable
  <2>2. TypeOK'
    BY <1>2, <1>3, <2>1 DEF BeginClean, TypeOK, broker, durable, Places
  <2>3. Handler'
    BY <1>2, <2>1 DEF Handler, AtStage, IsOpen, InHandoff, Clean
  <2>4. QED
    BY <2>2, <2>3
<1>4. ASSUME Returns, UNCHANGED intent PROVE Handler'
  BY <1>4 DEF Returns, Handler, AtStage, IsOpen, InHandoff, Clean
<1>5. CASE AfterRecovery
  <2>1. CASE pos = NoPosition \/ IsOpen(intent)
    BY <1>4, <1>5, <2>1 DEF AfterRecovery, Returns, TypeOK, broker, durable, Places
  <2>2. CASE ~(pos = NoPosition \/ IsOpen(intent))
    <3>1. /\ pos # NoPosition /\ pos \in Tracked /\ ~IsOpen(intent) /\ who \in {"manage", "flat"}
          /\ intent' = intent /\ upd' = pos /\ who' = who /\ rec' = FALSE
          /\ at' = IF FirstPlace(who, pos) = "ratchet" /\ pos # upd THEN "changed"
                   ELSE FirstPlace(who, pos)
      BY <1>5, <2>2, Typed DEF AfterRecovery, durable, TypeOK
    <3>2. at' \in {"changed", "find", "ratchet", "protect"} /\ (at' = "find" => pos.stop = NoOrder)
      BY <1>2, <3>1
    <3>3. TypeOK'
      BY <1>5, <3>1, <3>2 DEF AfterRecovery, TypeOK, broker, durable, Places
    <3>4. Handler'
      BY <3>1, <3>2 DEF Handler, AtStage, IsOpen, InHandoff, Clean
    <3>5. QED
      BY <3>3, <3>4
  <2>3. QED
    BY <2>1, <2>2
<1>6. CASE ManageEnds
  <2>1. pos' \in Tracked \cup {NoPosition}
    BY <1>6 DEF ManageEnds, TypeOK
  <2>2. TypeOK'
    BY <1>6, <2>1 DEF ManageEnds, Returns, TypeOK, broker, durable, Places
  <2>3. QED
    BY <1>4, <1>6, <2>2 DEF ManageEnds, durable
<1>7. CASE CrashRestart
  <2>1. budget' \in 0..Budget
    BY <1>7, BudgetLeft DEF CrashRestart, TypeOK
  <2>2. TypeOK'
    BY <1>7, <2>1 DEF CrashRestart, Returns, TypeOK, broker, durable, Places
  <2>3. QED
    BY <1>4, <1>7, <2>2 DEF CrashRestart, durable
<1>8. QED
  BY <1>1, <1>3, <1>5, <1>6, <1>7

\* An order the missing-protection pass finds or places.
LEMMA Protections ==
    ASSUME TypeOK
    PROVE  /\ \A o \in WorkingStops : o \in SellIds /\ orders[o].px \in 0..MaxLevel
           /\ FreeArms # {} =>
                 /\ <<"armed", Min(FreeArms)>> \in SellIds
                 /\ \/ orders[<<"armed", Min(FreeArms)>>].st = "none"
                    \/ /\ orders[<<"armed", Min(FreeArms)>>].st = "dead"
                       /\ orders[<<"armed", Min(FreeArms)>>].acked
                       /\ <<"armed", Min(FreeArms)>> \notin Named
<1>1. ASSUME NEW o \in WorkingStops PROVE o \in SellIds /\ orders[o].px \in 0..MaxLevel
  <2>1. o \in SellIds
    BY DEF WorkingStops, WorkingSells
  <2>2. orders[o] \in Order
    BY <2>1 DEF TypeOK
  <2>3. QED
    BY <2>1, <2>2 DEF Order
<1>2. FreeArms \subseteq Nat /\ FreeArms \subseteq 1..Arms
  BY BoundsAssumption DEF FreeArms
<1>3. ASSUME FreeArms # {}
      PROVE  /\ <<"armed", Min(FreeArms)>> \in SellIds
             /\ \/ orders[<<"armed", Min(FreeArms)>>].st = "none"
                \/ /\ orders[<<"armed", Min(FreeArms)>>].st = "dead"
                   /\ orders[<<"armed", Min(FreeArms)>>].acked
                   /\ <<"armed", Min(FreeArms)>> \notin Named
  <2>1. PICK i : i = Min(FreeArms)
    OBVIOUS
  <2>2. i \in FreeArms
    BY <1>2, <1>3, <2>1, MinIsMember
  <2>3. <<"armed", i>> \in SellIds
    BY <1>2, <2>2, Ids
  <2>4. \/ orders[<<"armed", i>>].st = "none"
        \/ /\ orders[<<"armed", i>>].st = "dead" /\ orders[<<"armed", i>>].acked
           /\ <<"armed", i>> \notin Named
    BY <2>2 DEF FreeArms
  <2>5. QED
    BY <2>1, <2>3, <2>4
<1>4. QED
  BY <1>1, <1>3

\* The missing-protection pass.
LEMMA Protecting ==
    ASSUME IInv, FindsProtection \/ \E outcome \in Outcomes : ArmsProtection(outcome)
    PROVE  IInv'
<1> USE DEF IInv
<1>1. CASE FindsProtection
  <2>1. PICK o \in WorkingStops : upd' = WithStop(upd, o, orders[o].px)
    BY <1>1 DEF FindsProtection
  <2>2. /\ upd \in Tracked /\ o \in SellIds /\ orders[o].px \in 0..MaxLevel
        /\ at = "find" /\ at' = "changed" /\ ~IsOpen(intent) /\ intent' = intent
    BY <1>1, Typed, Protections DEF FindsProtection, Handler, Clean, durable
  <2>3. upd' \in Tracked
    BY <2>1, <2>2, Positions
  <2>4. TypeOK'
    BY <1>1, <2>2, <2>3 DEF FindsProtection, TypeOK, broker, durable, Places
  <2>5. Handler'
    <3>1. upd' # NoPosition
      BY <2>3, SentinelsAssumption
    <3>2. QED
      BY <2>2, <3>1 DEF Handler, AtStage, IsOpen, InHandoff, Clean
  <2>6. QED
    BY <2>4, <2>5
<1>2. ASSUME NEW outcome \in Outcomes, ArmsProtection(outcome) PROVE IInv'
  <2> DEFINE o == <<"armed", Min(FreeArms)>>
  <2>1. /\ upd \in Tracked /\ o \in SellIds /\ at = "find" /\ ~IsOpen(intent) /\ intent' = intent
        /\ orders \in [SellIds -> Order]
    BY <1>2, Typed, Protections DEF ArmsProtection, Handler, Clean, durable, TypeOK
  <2>2. /\ orders' = IF outcome = "refused" THEN orders
                     ELSE [orders EXCEPT ![o] = Resting(Base, outcome = "ack")]
        /\ IF outcome = "ack" THEN /\ upd' = WithStop(upd, o, Base)
                                   /\ at' = "changed"
                                   /\ UNCHANGED <<who, rec>>
                              ELSE Returns
    BY <1>2 DEF ArmsProtection
  <2> HIDE DEF o
  <2>3. orders' \in [SellIds -> Order]
    <3>1. Resting(Base, outcome = "ack") \in Order
      BY Orders, Typed
    <3>2. QED
      BY <2>1, <2>2, <3>1
  <2>4. budget' \in 0..Budget
    BY <1>2, BudgetLeft DEF ArmsProtection, TypeOK
  <2>5. WithStop(upd, o, Base) \in Tracked
    BY <2>1, Positions, Typed
  <2>6. TypeOK'
    BY <1>2, <2>2, <2>3, <2>4, <2>5 DEF ArmsProtection, Returns, TypeOK, durable, Places
  <2>7. at' \in {"changed", "idle"} /\ (at' = "changed" => upd' # NoPosition)
    BY <2>2, <2>5, SentinelsAssumption DEF Returns
  <2>8. Handler'
    BY <2>1, <2>7 DEF Handler, AtStage, IsOpen, InHandoff, Clean
  <2>9. QED
    BY <2>6, <2>8
<1>3. QED
  BY <1>1, <1>2

\* The forced flat.
LEMMA Flattening ==
    ASSUME IInv, Flat
    PROVE  IInv'
<1> USE DEF IInv
<1>1. CASE RequestRelease
  <2>1. /\ upd \in Tracked /\ upd.stop \in SellIds \cup {NoOrder} /\ ~IsOpen(intent)
        /\ intent' = intent /\ upd' = upd /\ upd # NoPosition
        /\ orders \in [SellIds -> Order]
    BY <1>1, Typed DEF RequestRelease, Goto, Handler, Clean, TypeOK, durable
  <2>2. orders' \in [SellIds -> Order]
    BY <1>1, <2>1, BrokerMoves DEF RequestRelease
  <2>3. \/ at' = "close" /\ upd.stop = NoOrder
        \/ at' = "releasing" /\ upd.stop # NoOrder
    BY <1>1 DEF RequestRelease, Goto
  <2>4. TypeOK'
    BY <1>1, <2>2, <2>3 DEF RequestRelease, Goto, TypeOK, durable, Places
  <2>5. Handler'
    BY <2>1, <2>3 DEF Handler, AtStage, IsOpen, InHandoff, Clean
  <2>6. QED
    BY <2>4, <2>5
<1>2. ASSUME NEW canceled \in BOOLEAN, ReleaseReadback(canceled) PROVE IInv'
  <2>1. upd \in Tracked /\ ~IsOpen(intent) /\ intent' = intent
    BY <1>2, Typed DEF ReleaseReadback, Handler, Clean, durable
  <2>2. budget' \in 0..Budget
    BY <1>2, Paid DEF ReleaseReadback, TypeOK
  <2>3. Naked(upd) \in Tracked /\ Naked(upd).stop = NoOrder
    BY <2>1, Positions
  <2>4. TypeOK'
    BY <1>2, <2>2, <2>3 DEF ReleaseReadback, Returns, TypeOK, broker, durable, Places
  <2>5. \/ at' = "close" /\ upd' = Naked(upd)
        \/ at' = "idle"
    BY <1>2 DEF ReleaseReadback, Returns
  <2>6. Handler'
    BY <2>1, <2>3, <2>5, SentinelsAssumption DEF Handler, AtStage, IsOpen, InHandoff, Clean
  <2>7. QED
    BY <2>4, <2>6
<1>3. ASSUME NEW outcome \in Outcomes, SubmitClose(outcome) PROVE IInv'
  <2>1. /\ upd \in Tracked /\ intent' = intent /\ at' = "idle"
        /\ orders \in [SellIds -> Order]
    BY <1>3, Typed DEF SubmitClose, Returns, Handler, TypeOK, durable
  <2>2. orders' \in [SellIds -> Order]
    BY <1>3, <2>1, BrokerMoves, Ids, Typed DEF SubmitClose
  <2>3. budget' \in 0..Budget
    BY <1>3, Paid DEF SubmitClose, TypeOK
  <2>4. [upd EXCEPT !.exit = TRUE] \in Tracked
    BY <2>1, Positions
  <2>5. TypeOK'
    BY <1>3, <2>2, <2>3, <2>4 DEF SubmitClose, Returns, TypeOK, durable, Places
  <2>6. Handler'
    BY <2>1 DEF Handler, AtStage, IsOpen, InHandoff, Clean
  <2>7. QED
    BY <2>5, <2>6
<1>4. QED
  BY <1>1, <1>2, <1>3 DEF Flat

\* Where the handoff leaves the handler when it cannot go on.
LEMMA Leaves ==
    ASSUME TypeOK, upd # NoPosition, LeftUnproved
    PROVE  /\ \/ rec /\ at' = "resume" /\ upd' = upd /\ latched' = latched
              \/ /\ ~rec /\ at' = "persist" /\ upd' = Naked(upd) /\ latched' = TRUE
           /\ who' = who /\ rec' = rec /\ upd' \in Tracked /\ latched' \in BOOLEAN
<1>1. Naked(upd) \in Tracked /\ upd \in Tracked
  BY Typed, Positions
<1>2. rec \in BOOLEAN /\ latched \in BOOLEAN
  BY DEF TypeOK
<1>3. QED
  BY <1>1, <1>2 DEF LeftUnproved, Goto

\* And when one of its orders sold the position.
LEMMA Sells ==
    ASSUME TypeOK, FilledDuringHandoff
    PROVE  /\ Resolved("confirmed") /\ pos' = NoPosition /\ row' = row /\ latched' = latched
           /\ \/ rec /\ at' = "resume" /\ upd' = upd /\ who' = who /\ rec' = rec
              \/ /\ ~rec /\ at' = "idle" /\ upd' = NoPosition /\ who' = "manage" /\ rec' = FALSE
BY DEF FilledDuringHandoff, Goto, Returns

\* And when it trusts a stop again.
LEMMA Adopts ==
    ASSUME TypeOK, upd # NoPosition, NEW o \in SellIds, NEW px \in 0..MaxLevel, NEW status,
           Adopted(o, px, status)
    PROVE  /\ \/ /\ rec /\ at' = "adopted" /\ pos' = WithStop(upd, o, px) /\ upd' = upd
                 /\ intent' = intent
              \/ /\ ~rec /\ at' = "persist" /\ pos' = pos /\ upd' = WithStop(upd, o, px)
                 /\ Resolved(status)
           /\ who' = who /\ rec' = rec /\ upd' \in Tracked /\ pos' \in Tracked \cup {NoPosition}
           /\ WithStop(upd, o, px) \in Tracked /\ WithStop(upd, o, px).stop = o
<1>1. WithStop(upd, o, px) \in Tracked /\ upd \in Tracked /\ WithStop(upd, o, px).stop = o
  BY Typed, Positions
<1>2. rec \in BOOLEAN /\ pos \in Tracked \cup {NoPosition}
  BY DEF TypeOK
<1>3. QED
  BY <1>1, <1>2 DEF Adopted, Goto

\* A ratchet is prepared: a new intent, its prior stop the tracked one.
LEMMA Prepares ==
    ASSUME IInv, NEW l \in Levels, PrepareRatchet(l)
    PROVE  /\ IInv'
           /\ ~IsOpen(intent) /\ IsOpen(intent)' /\ intent' # NoIntent
           /\ intent'.n = IF intent = NoIntent THEN 1 ELSE intent.n + 1
           /\ intent'.prior = upd.stop /\ intent'.stop = l /\ l > row
           /\ intent'.stage = "prior_stop_cancel_pending" /\ intent'.restore = NoOrder
           /\ at' = "cancel" /\ upd' = upd
<1> USE DEF IInv
<1> DEFINE n == IF intent = NoIntent THEN 1 ELSE intent.n + 1
           new == [n |-> n, prior |-> upd.stop, priorStop |-> upd.px, stop |-> l,
                   stage |-> "prior_stop_cancel_pending", status |-> "prepared",
                   restore |-> NoOrder]
<1>1. /\ upd \in Tracked /\ upd # NoPosition /\ upd.stop \in SellIds /\ upd.px \in Levels
      /\ ~IsOpen(intent) /\ l > row
      /\ n <= MaxRatchets /\ intent' = new /\ at' = "cancel"
      /\ UNCHANGED <<orders, held, pos, row, latched, budget, who, rec, upd>>
  BY Typed DEF PrepareRatchet, Goto, Handler, Clean, TypeOK, broker
<1>2. n \in 1..MaxRatchets
  <2>1. intent # NoIntent => intent.n \in 1..MaxRatchets
    BY Typed
  <2>2. MaxRatchets \in Nat
    BY BoundsAssumption
  <2>3. QED
    BY <1>1, <2>1, <2>2
<1>3. "prior_stop_cancel_pending" \in Stages /\ "prepared" \in OpenStatuses
      /\ "prior_stop_cancel_pending" \in Early /\ "prior_stop_cancel_pending" \notin Late
  BY DEF Stages, OpenStatuses, Early, Late
<1> HIDE DEF n
<1>4. new \in Ratchet
  BY <1>1, <1>2, <1>3 DEF Ratchet
<1>5. intent' \in Ratchet /\ IsOpen(intent)' /\ intent' # NoIntent
  BY <1>1, <1>3, <1>4, SentinelsAssumption DEF IsOpen
<1>6. /\ intent'.n = n /\ intent'.prior = upd.stop /\ intent'.stop = l
      /\ intent'.stage = "prior_stop_cancel_pending" /\ intent'.restore = NoOrder
  BY <1>1
<1> HIDE DEF new
<1>7. TypeOK'
  BY <1>1, <1>5 DEF TypeOK, Places
<1>8. Handler'
  BY <1>1, <1>3, <1>5, <1>6 DEF Handler, AtStage, InHandoff, Clean
<1>9. QED
  BY <1>1, <1>5, <1>6, <1>7, <1>8 DEF n

\* What holds at a step of the handoff.
LEMMA InTheHandoff ==
    ASSUME IInv, at \in InHandoff
    PROVE  /\ IsOpen(intent) /\ intent # NoIntent /\ intent \in Ratchet
           /\ upd # NoPosition /\ upd \in Tracked
           /\ intent.prior \in SellIds /\ Replacement \in SellIds
           /\ intent.stop \in 0..MaxLevel /\ intent.priorStop \in 0..MaxLevel
           /\ intent.stop \in Levels /\ intent.stage \in Stages
           /\ intent.stage \in Late => intent.restore \in SellIds
<1>1. IsOpen(intent) /\ upd # NoPosition
  BY DEF IInv, Handler, InHandoff
<1>2. intent # NoIntent
  BY <1>1, OpenIntent
<1>3. intent.stage \in Late => intent.restore \in SellIds
  BY <1>1, <1>2, Typed DEF IInv, Handler
<1>4. QED
  BY <1>1, <1>2, <1>3, Typed DEF IInv

\* The handler after a step of the handoff that keeps its type, by where it
\* goes and what the intent is.
LEMMA HandlerGoes ==
    ASSUME TypeOK', upd' # NoPosition \/ at' = "idle",
           \/ at' \in {"idle", "resume", "persist"}
           \/ at' \in InHandoff /\ IsOpen(intent)' /\ AtStage',
           IsOpen(intent)' /\ intent'.stage \in Late => intent'.restore = <<"restore", intent'.n>>
    PROVE  Handler'
BY DEF Handler, InHandoff, Clean, AtStage

\* The handoff ends in a sale.
LEMMA AfterSale ==
    ASSUME IInv, at \in InHandoff, FilledDuringHandoff, UNCHANGED broker, budget' \in 0..Budget
    PROVE  IInv'
<1>1. intent' \in Ratchet /\ ~IsOpen(intent)' /\ upd # NoPosition
  BY InTheHandoff, Sells, IntentMoves DEF IInv, TerminalStatuses
<1>2. TypeOK'
  BY <1>1, Sells DEF IInv, TypeOK, broker, Places
<1>3. QED
  BY <1>1, <1>2, Sells, HandlerGoes DEF IInv

\* The handoff is left unproved, its intent as it was or resolved.
LEMMA AfterLeave ==
    ASSUME IInv, at \in InHandoff, LeftUnproved, UNCHANGED <<broker, pos, row>>,
           budget' \in 0..Budget,
           UNCHANGED intent \/ Resolved("failed")
    PROVE  IInv'
<1>1. /\ at' \in {"resume", "persist"} /\ upd' \in Tracked /\ latched' \in BOOLEAN
      /\ who' = who /\ rec' = rec /\ upd' # NoPosition
  BY InTheHandoff, Leaves, SentinelsAssumption DEF IInv
<1>2. /\ intent' \in Ratchet
      /\ IsOpen(intent)' => intent' = intent
  BY InTheHandoff, IntentMoves DEF IInv, TerminalStatuses
<1>3. TypeOK'
  BY <1>1, <1>2 DEF IInv, TypeOK, broker, Places
<1>4. IsOpen(intent)' /\ intent'.stage \in Late => intent'.restore = <<"restore", intent'.n>>
  BY <1>2, InTheHandoff DEF IInv, Handler
<1>5. QED
  BY <1>1, <1>3, <1>4, HandlerGoes DEF IInv

\* The handoff goes on at the next durable stage.
LEMMA AfterStage ==
    ASSUME IInv, at \in InHandoff, NEW stage \in Stages, NEW where \in InHandoff,
           Staged(stage), Goto(where), UNCHANGED <<broker, pos>>, budget' \in 0..Budget,
           AtStage', stage \in Late => intent.stage \in Late
    PROVE  IInv'
<1>1. /\ intent' \in Ratchet /\ IsOpen(intent)' /\ intent'.stage = stage
      /\ intent'.n = intent.n /\ intent'.restore = intent.restore /\ upd' # NoPosition
  BY InTheHandoff, IntentMoves DEF IInv, Goto
<1>2. TypeOK'
  BY <1>1 DEF IInv, TypeOK, Staged, Goto, broker, Places, InHandoff
<1>3. IsOpen(intent)' /\ intent'.stage \in Late => intent'.restore = <<"restore", intent'.n>>
  BY <1>1, InTheHandoff DEF IInv, Handler
<1>4. QED
  BY <1>1, <1>2, <1>3, HandlerGoes DEF IInv, Goto

\* The handoff goes on at the same stage.
LEMMA AfterStep ==
    ASSUME IInv, at \in InHandoff, NEW where \in InHandoff,
           Goto(where), UNCHANGED <<held, pos, intent, latched>>, budget' \in 0..Budget,
           orders' \in [SellIds -> Order], row' \in Levels, AtStage'
    PROVE  IInv'
<1>1. upd' # NoPosition /\ IsOpen(intent)'
  BY InTheHandoff DEF IInv, Goto, IsOpen
<1>2. TypeOK'
  BY DEF IInv, TypeOK, Goto, Places, InHandoff
<1>3. IsOpen(intent)' /\ intent'.stage \in Late => intent'.restore = <<"restore", intent'.n>>
  BY InTheHandoff DEF IInv, Handler
<1>4. QED
  BY <1>1, <1>2, <1>3, HandlerGoes DEF IInv, Goto

\* A stop is trusted again.
LEMMA AfterAdoption ==
    ASSUME IInv, at \in {"committed", "proof"}, NEW o \in SellIds, NEW px \in 0..MaxLevel,
           NEW status \in TerminalStatuses,
           Adopted(o, px, status), UNCHANGED <<broker, row, latched>>, budget' \in 0..Budget
    PROVE  IInv'
<1>1. at \in InHandoff /\ intent.stage \in {"replacement_submitted", "restore_submitted"}
  BY DEF IInv, Handler, AtStage, InHandoff
<1>2. /\ who' = who /\ rec' = rec /\ upd' \in Tracked /\ pos' \in Tracked \cup {NoPosition}
      /\ upd' # NoPosition
      /\ \/ at' = "adopted" /\ intent' = intent
         \/ at' = "persist" /\ Resolved(status)
  BY <1>1, InTheHandoff, Adopts, SentinelsAssumption DEF IInv
<1>3. /\ intent' \in Ratchet
      /\ at' = "persist" => ~IsOpen(intent)'
  BY <1>1, <1>2, InTheHandoff, IntentMoves DEF IInv
<1>4. TypeOK'
  BY <1>2, <1>3 DEF IInv, TypeOK, broker, Places
<1>5. CASE at' = "adopted"
  <2>1. intent' = intent /\ IsOpen(intent)' /\ AtStage'
    BY <1>1, <1>2, <1>5, InTheHandoff DEF AtStage, IsOpen
  <2>2. intent'.stage \in Late => intent'.restore = <<"restore", intent'.n>>
    BY <1>1, <2>1, InTheHandoff DEF IInv, Handler
  <2>3. QED
    BY <1>2, <1>4, <1>5, <2>1, <2>2, HandlerGoes DEF IInv, InHandoff
<1>6. CASE at' = "persist"
  BY <1>2, <1>3, <1>4, <1>6, HandlerGoes DEF IInv
<1>7. QED
  BY <1>2, <1>5, <1>6

\* The steps about the prior stop.
LEMMA PriorSteps ==
    ASSUME IInv, \/ \E outcome \in Readings : PriorReadback(outcome)
                 \/ \E canceled \in BOOLEAN : CancelReadback(canceled)
                 \/ RequestCancel \/ SubmitPending
    PROVE  IInv'
<1>1. at \in InHandoff
  BY DEF PriorReadback, CancelReadback, RequestCancel, SubmitPending, InHandoff
<1>2. IsOpen(intent) /\ intent.prior \in SellIds
  BY <1>1, InTheHandoff
<1>3. /\ orders \in [SellIds -> Order] /\ budget \in 0..Budget /\ row \in Levels /\ TypeOK
  BY DEF IInv, TypeOK
<1>4. /\ \A stage \in {"prior_stop_dead_zero_fill", "replacement_submit_pending"} :
            /\ stage \in Stages /\ stage \notin Late
            /\ Staged(stage) => intent'.stage = stage
      /\ {"cancel", "canceling", "pending", "submit"} \subseteq InHandoff
  BY <1>2, <1>3, IntentMoves DEF Stages, Late, InHandoff
<1>5. ASSUME NEW outcome \in Readings, PriorReadback(outcome) PROVE IInv'
  <2>1. at = "prior" /\ intent.stage \in Early
    BY <1>5 DEF PriorReadback, IInv, Handler, AtStage
  <2>2. budget' \in 0..Budget /\ UNCHANGED broker
    BY <1>3, <1>5, Paid DEF PriorReadback
  <2>3. CASE outcome = "fill"
    <3>1. FilledDuringHandoff
      BY <1>5, <2>3 DEF PriorReadback
    <3>2. QED
      BY <1>1, <2>2, <3>1, AfterSale
  <2>4. CASE outcome = "dead_zero_fill"
    <3>1. Staged("prior_stop_dead_zero_fill") /\ Goto("pending") /\ UNCHANGED pos
      BY <1>5, <2>4 DEF PriorReadback
    <3>2. AtStage'
      BY <1>4, <3>1 DEF Goto, AtStage
    <3>3. QED
      BY <1>1, <1>4, <2>2, <3>1, <3>2, AfterStage
  <2>5. CASE outcome \notin {"fill", "dead_zero_fill"}
    <3>1. Goto("cancel") /\ UNCHANGED <<durable, pos>>
      BY <1>5, <2>5 DEF PriorReadback
    <3>2. AtStage'
      BY <2>1, <3>1 DEF Goto, AtStage, durable
    <3>3. QED
      BY <1>1, <1>3, <1>4, <2>2, <3>1, <3>2, AfterStep DEF broker, durable
  <2>6. QED
    BY <2>3, <2>4, <2>5
<1>6. ASSUME NEW canceled \in BOOLEAN, CancelReadback(canceled) PROVE IInv'
  <2>1. budget' \in 0..Budget /\ UNCHANGED <<broker, pos>>
    BY <1>3, <1>6, Paid DEF CancelReadback
  <2>2. CASE canceled
    <3>1. Staged("prior_stop_dead_zero_fill") /\ Goto("pending") /\ UNCHANGED pos
      BY <1>6, <2>2 DEF CancelReadback
    <3>2. AtStage'
      BY <1>4, <3>1 DEF Goto, AtStage
    <3>3. QED
      BY <1>1, <1>4, <2>1, <3>1, <3>2, AfterStage
  <2>3. CASE ~canceled
    <3>1. LeftUnproved /\ UNCHANGED <<intent, row>>
      BY <1>6, <2>3 DEF CancelReadback
    <3>2. QED
      BY <1>1, <2>1, <3>1, AfterLeave
  <2>4. QED
    BY <2>2, <2>3
<1>7. CASE RequestCancel
  <2>1. orders' \in [SellIds -> Order]
    BY <1>2, <1>3, <1>7, BrokerMoves DEF RequestCancel
  <2>2. AtStage'
    BY <1>7 DEF RequestCancel, IInv, Handler, AtStage, Goto, durable
  <2>3. QED
    BY <1>1, <1>3, <1>4, <1>7, <2>1, <2>2, AfterStep DEF RequestCancel, durable
<1>8. CASE SubmitPending
  <2>1. AtStage'
    BY <1>4, <1>8 DEF SubmitPending, Goto, AtStage
  <2>2. QED
    BY <1>1, <1>3, <1>4, <1>8, <2>1, AfterStage DEF SubmitPending
<1>9. QED
  BY <1>5, <1>6, <1>7, <1>8

\* The steps about the replacement.
LEMMA ReplacementSteps ==
    ASSUME IInv, \/ \E outcome \in Readings : ReplacementReadback(outcome)
                 \/ \E outcome \in Outcomes : SubmitReplacement(outcome)
                 \/ ReplacementPlaced \/ CommitReplacement
    PROVE  IInv'
<1>1. at \in InHandoff
  BY DEF ReplacementReadback, SubmitReplacement, ReplacementPlaced, CommitReplacement, InHandoff
<1>2. /\ IsOpen(intent) /\ intent \in Ratchet /\ Replacement \in SellIds
      /\ intent.stop \in 0..MaxLevel /\ intent.stop \in Levels
      /\ upd \in Tracked /\ upd # NoPosition /\ <<"restore", intent.n>> \in SellIds
  BY <1>1, InTheHandoff, Typed DEF IInv
<1>3. /\ orders \in [SellIds -> Order] /\ budget \in 0..Budget /\ row \in Levels /\ TypeOK
  BY DEF IInv, TypeOK
<1>4. /\ "replacement_submitted" \in Stages \ Late /\ "restore_submit_pending" \in Stages
      /\ "confirmed" \in TerminalStatuses
      /\ {"placed", "classify", "committed", "restore"} \subseteq InHandoff
  BY DEF Stages, Late, TerminalStatuses, InHandoff
<1>5. ASSUME NEW outcome \in Readings, ReplacementReadback(outcome) PROVE IInv'
  <2>1. at = "classify" /\ intent.stage = "replacement_submitted"
    BY <1>5 DEF ReplacementReadback, IInv, Handler, AtStage
  <2>2. budget' \in 0..Budget /\ UNCHANGED broker
    BY <1>3, <1>5, Paid DEF ReplacementReadback
  <2>3. CASE outcome = "fill"
    <3>1. FilledDuringHandoff
      BY <1>5, <2>3 DEF ReplacementReadback
    <3>2. QED
      BY <1>1, <2>2, <3>1, AfterSale
  <2>4. CASE outcome = "working"
    <3>1. row' = intent.stop /\ Goto("committed") /\ UNCHANGED <<pos, intent, latched>>
      BY <1>5, <2>4 DEF ReplacementReadback
    <3>2. AtStage'
      BY <2>1, <3>1 DEF Goto, AtStage
    <3>3. QED
      BY <1>1, <1>2, <1>3, <1>4, <2>2, <3>1, <3>2, AfterStep DEF broker
  <2>5. CASE outcome = "dead_zero_fill"
    <3> DEFINE r == <<"restore", intent.n>>
    <3>1. /\ intent' = WithHandoff(intent, "restore_submit_pending", r)
          /\ Goto("restore") /\ UNCHANGED <<pos, row, latched>>
      BY <1>5, <2>5 DEF ReplacementReadback
    <3>2. r \in SellIds /\ r # NoOrder
      BY <1>2, Ids
    <3> HIDE DEF r
    <3>3. /\ intent' \in Ratchet /\ intent'.stage = "restore_submit_pending"
          /\ intent'.status = intent.status /\ intent'.n = intent.n /\ intent'.restore = r
      <4>1. r \in SellIds \cup {NoOrder} /\ "restore_submit_pending" \in Stages
        BY <1>4, <3>2
      <4>2. LET j == WithHandoff(intent, "restore_submit_pending", r)
            IN  /\ j \in Ratchet /\ j.stage = "restore_submit_pending"
                /\ j.status = intent.status /\ j.n = intent.n
                /\ j.restore = IF r = NoOrder THEN intent.restore ELSE r
        BY <1>2, <4>1, Intents
      <4>3. QED
        BY <3>1, <3>2, <4>2
    <3>4. IsOpen(intent)' /\ AtStage' /\ upd' # NoPosition /\ at' = "restore"
      BY <1>2, <3>1, <3>3, SentinelsAssumption DEF IsOpen, AtStage, Goto
    <3>5. TypeOK'
      BY <2>2, <3>1, <3>3 DEF IInv, TypeOK, Goto, broker, Places
    <3>6. QED
      BY <1>4, <3>3, <3>4, <3>5, HandlerGoes DEF IInv, r
  <2>6. CASE outcome \notin {"fill", "working", "dead_zero_fill"}
    <3>1. LeftUnproved /\ UNCHANGED <<pos, intent, row>>
      BY <1>5, <2>6 DEF ReplacementReadback
    <3>2. QED
      BY <1>1, <2>2, <3>1, AfterLeave
  <2>7. QED
    BY <2>3, <2>4, <2>5, <2>6
<1>6. ASSUME NEW outcome \in Outcomes, SubmitReplacement(outcome) PROVE IInv'
  <2>1. orders' \in [SellIds -> Order] /\ budget' \in 0..Budget
    BY <1>2, <1>3, <1>6, BrokerMoves, Paid DEF SubmitReplacement
  <2>2. AtStage'
    BY <1>6 DEF SubmitReplacement, IInv, Handler, AtStage, Goto, durable
  <2>3. QED
    BY <1>1, <1>3, <1>4, <1>6, <2>1, <2>2, AfterStep DEF SubmitReplacement, durable
<1>7. CASE ReplacementPlaced
  <2>1. AtStage'
    BY <1>2, <1>3, <1>4, <1>7, IntentMoves DEF ReplacementPlaced, Goto, AtStage
  <2>2. QED
    BY <1>1, <1>3, <1>4, <1>7, <2>1, AfterStage DEF ReplacementPlaced
<1>8. CASE CommitReplacement
  BY <1>2, <1>3, <1>4, <1>8, AfterAdoption DEF CommitReplacement
<1>9. QED
  BY <1>5, <1>6, <1>7, <1>8

\* The steps about the restore, and the end of a recovered handoff.
LEMMA RestoreSteps ==
    ASSUME IInv, \/ \E outcome \in Readings : RestoreReadback(outcome)
                 \/ \E outcome \in Outcomes : SubmitRestore(outcome)
                 \/ RestorePlaced \/ ResolveAdopted
    PROVE  IInv'
<1>1. at \in InHandoff
  BY DEF RestoreReadback, SubmitRestore, RestorePlaced, ResolveAdopted, InHandoff
<1>2. /\ IsOpen(intent) /\ intent \in Ratchet /\ intent.priorStop \in 0..MaxLevel
      /\ upd \in Tracked /\ upd # NoPosition
      /\ intent.stage \in Late => intent.restore \in SellIds
  BY <1>1, InTheHandoff
<1>3. /\ orders \in [SellIds -> Order] /\ budget \in 0..Budget /\ row \in Levels /\ TypeOK
  BY DEF IInv, TypeOK
<1>4. /\ {"restore_submit_pending", "restore_submitted"} \subseteq Stages \cap Late
      /\ {"confirmed", "failed"} \subseteq TerminalStatuses
      /\ {"restored", "proof"} \subseteq InHandoff
  BY DEF Stages, Late, TerminalStatuses, InHandoff
<1>5. ASSUME NEW outcome \in Readings, RestoreReadback(outcome) PROVE IInv'
  <2>1. at = "proof" /\ intent.stage = "restore_submitted"
    BY <1>5 DEF RestoreReadback, IInv, Handler, AtStage
  <2>2. budget' \in 0..Budget /\ UNCHANGED <<broker, row>>
    BY <1>3, <1>5, Paid DEF RestoreReadback
  <2>3. CASE outcome = "fill"
    <3>1. FilledDuringHandoff
      BY <1>5, <2>3 DEF RestoreReadback
    <3>2. QED
      BY <1>1, <2>2, <3>1, AfterSale
  <2>4. CASE outcome = "working"
    <3>1. Adopted(intent.restore, intent.priorStop, "failed") /\ UNCHANGED latched
      BY <1>5, <2>4 DEF RestoreReadback
    <3>2. QED
      BY <1>2, <1>4, <2>1, <2>2, <3>1, AfterAdoption
  <2>5. CASE outcome = "dead_zero_fill"
    <3>1. Resolved("failed") /\ LeftUnproved /\ UNCHANGED pos
      BY <1>5, <2>5 DEF RestoreReadback
    <3>2. QED
      BY <1>1, <2>2, <3>1, AfterLeave
  <2>6. CASE outcome \notin {"fill", "working", "dead_zero_fill"}
    <3>1. LeftUnproved /\ UNCHANGED <<pos, intent>>
      BY <1>5, <2>6 DEF RestoreReadback
    <3>2. QED
      BY <1>1, <2>2, <3>1, AfterLeave
  <2>7. QED
    BY <2>3, <2>4, <2>5, <2>6
<1>6. ASSUME NEW outcome \in Outcomes, SubmitRestore(outcome) PROVE IInv'
  <2>1. intent.restore \in SellIds
    BY <1>2, <1>4, <1>6 DEF SubmitRestore, IInv, Handler, AtStage
  <2>2. orders' \in [SellIds -> Order] /\ budget' \in 0..Budget
    BY <1>2, <1>3, <1>6, <2>1, BrokerMoves, Paid DEF SubmitRestore
  <2>3. AtStage'
    BY <1>6 DEF SubmitRestore, IInv, Handler, AtStage, Goto, durable
  <2>4. QED
    BY <1>1, <1>3, <1>4, <1>6, <2>2, <2>3, AfterStep DEF SubmitRestore, durable
<1>7. CASE RestorePlaced
  <2>1. intent.stage \in Late
    BY <1>4, <1>7 DEF RestorePlaced, IInv, Handler, AtStage
  <2>2. AtStage'
    BY <1>2, <1>3, <1>4, <1>7, IntentMoves DEF RestorePlaced, Goto, AtStage
  <2>3. QED
    BY <1>1, <1>3, <1>4, <1>7, <2>1, <2>2, AfterStage DEF RestorePlaced
<1>8. CASE ResolveAdopted
  <2>1. intent' \in Ratchet /\ ~IsOpen(intent)'
    BY <1>2, <1>3, <1>4, <1>8, IntentMoves DEF ResolveAdopted
  <2>2. TypeOK'
    BY <1>3, <1>8, <2>1 DEF ResolveAdopted, Goto, TypeOK, broker, Places
  <2>3. QED
    BY <1>2, <1>8, <2>1, <2>2, HandlerGoes DEF IInv, ResolveAdopted, Goto
<1>9. QED
  BY <1>5, <1>6, <1>7, <1>8

\* Every step keeps the types and the handler's assumptions.
LEMMA Step ==
    ASSUME IInv, [Next]_vars
    PROVE  IInv'
<1>1. CASE Handoff
  BY <1>1, Prepares, PriorSteps, ReplacementSteps, RestoreSteps DEF Handoff
<1>2. CASE Manage
  BY <1>2, StartsAndEnds, Protecting DEF Manage
<1>3. CASE FlatStarts
  BY <1>3, StartsAndEnds DEF FlatStarts
<1>4. QED
  BY <1>1, <1>2, <1>3, Flattening, StartsAndEnds, AroundTheHandler DEF Next

\* The first state.
LEMMA Start == Init => IInv
<1> SUFFICES ASSUME Init PROVE IInv
  OBVIOUS
<1>1. orders \in [SellIds -> Order]
  <2>1. Base \in 0..MaxLevel
    BY BoundsAssumption DEF Base
  <2>2. Resting(Base, TRUE) \in Order /\ Absent \in Order
    BY <2>1, Orders
  <2>3. QED
    BY <2>2 DEF Init
<1>2. pos \in Tracked
  BY Ids, BoundsAssumption DEF Init, Tracked, Base
<1>3. TypeOK
  <2>1. Base \in Levels /\ Budget \in 0..Budget
    BY BoundsAssumption DEF Base, Levels
  <2>2. /\ held = 1 /\ intent = NoIntent /\ row = Base /\ latched = FALSE /\ at = "idle"
        /\ who = "manage" /\ rec = FALSE /\ upd = NoPosition /\ budget = Budget
    BY DEF Init
  <2>3. at \in Places /\ held \in Int
    BY <2>2 DEF Places
  <2>4. QED
    BY <1>1, <1>2, <2>1, <2>2, <2>3 DEF TypeOK
<1>4. Handler
  BY DEF Init, Handler, AtStage, InHandoff, Clean, IsOpen
<1>5. QED
  BY <1>3, <1>4 DEF IInv

\* The invariant the theorems below build on.
LEMMA AlwaysIInv == Spec => []IInv
<1>1. IInv /\ [Next]_vars => IInv'
  BY Step
<1>2. QED
  BY Start, <1>1, PTL DEF Spec

\* TypeOK: every variable keeps its type.
THEOREM TypeCorrect == Spec => []TypeOK
<1>1. IInv => TypeOK
  BY DEF IInv
<1>2. QED
  BY AlwaysIInv, <1>1, PTL

-----------------------------------------------------------------------------
(* A resolved intent tells what became of its orders                       *)

\* How one order gets to the broker.
ReplacementSent(o) == /\ at = "submit" /\ o = Replacement /\ orders[o].st = "none"
                      /\ orders'[o].st = "working" /\ orders'[o].px = intent.stop
                      /\ OthersKept(o) /\ UNCHANGED <<held, pos, intent, row, upd>> /\ at' = "placed"
RestoreSent(o) == /\ at = "restore" /\ o = intent.restore /\ orders[o].st = "none"
                  /\ orders'[o].st = "working"
                  /\ OthersKept(o) /\ UNCHANGED <<held, pos, intent, row, upd>> /\ at' = "restored"
CloseSent(o) == /\ at = "close" /\ o = <<"close", 1>> /\ orders[o].st = "none"
                /\ orders'[o].st = "working"
                /\ OthersKept(o) /\ UNCHANGED <<held, intent, row>> /\ at' = "idle"
                /\ upd' = NoPosition
                /\ pos' = [upd EXCEPT !.exit = TRUE]
ArmSent(o) == /\ at = "find" /\ o[1] = "armed"
              /\ \/ orders[o].st = "none"
                 \/ orders[o].st = "dead" /\ orders[o].acked /\ o \notin Named
              /\ orders'[o].st = "working"
              /\ OthersKept(o) /\ UNCHANGED <<held, pos, intent, row>>
              /\ \/ orders'[o].acked /\ upd' = WithStop(upd, o, Base) /\ at' = "changed"
                 \/ ~orders'[o].acked /\ at' = "idle" /\ upd' = NoPosition
BrokerStep(o) == /\ \/ Becomes(o, "filled") /\ held' = held - 1
                    \/ Becomes(o, "dead") /\ held' = held
                 /\ UNCHANGED <<pos, intent, row, at, upd, rec>>
OrdersSame == \A o \in SellIds : Kept(o)

\* What a step does to the book.
LEMMA BookMoves ==
    ASSUME IInv, [Next]_vars
    PROVE  \/ OrdersSame /\ UNCHANGED held
           \/ \E o \in SellIds : \/ ReplacementSent(o) \/ RestoreSent(o) \/ CloseSent(o)
                                 \/ ArmSent(o) \/ BrokerStep(o)
<1>1. /\ TypeOK /\ orders \in [SellIds -> Order]
      /\ IsOpen(intent) => intent # NoIntent
  BY OpenIntent DEF IInv, TypeOK
<1>2. ASSUME UNCHANGED broker PROVE OrdersSame /\ UNCHANGED held
  BY <1>2 DEF broker, OrdersSame, Kept
<1>3. ASSUME NEW o \in SellIds, Kept(o), OthersKept(o) PROVE OrdersSame
  BY <1>3 DEF OrdersSame, Kept, OthersKept
<1>4. ASSUME NEW px, NEW acked \in BOOLEAN
      PROVE  /\ Resting(px, acked).st = "working" /\ Resting(px, acked).px = px
             /\ Resting(px, acked).acked = acked
  BY DEF Resting
<1>5. ASSUME NEW o \in SellIds, Fill(o) PROVE BrokerStep(o)
  BY <1>1, <1>5, BrokerMoves DEF Fill, BrokerStep, durable, handler
<1>6. ASSUME NEW o \in SellIds, Dies(o) PROVE BrokerStep(o)
  BY <1>1, <1>6, BrokerMoves DEF Dies, BrokerStep, durable, handler
<1>7. CASE RequestCancel
  <2>1. at \in InHandoff
    BY <1>7 DEF RequestCancel, InHandoff
  <2>2. intent.prior \in SellIds
    BY <2>1, InTheHandoff
  <2>3. QED
    BY <1>1, <1>3, <1>7, <2>2, BrokerMoves DEF RequestCancel
<1>8. CASE RequestRelease
  <2>1. CASE upd.stop = NoOrder
    BY <1>8, <2>1 DEF RequestRelease, OrdersSame, Kept
  <2>2. CASE upd.stop # NoOrder
    <3>1. upd.stop \in SellIds
      BY <1>1, <1>8, <2>2, Typed DEF RequestRelease, IInv, Handler
    <3>2. QED
      BY <1>1, <1>3, <1>8, <2>2, <3>1, BrokerMoves DEF RequestRelease
  <2>3. QED
    BY <2>1, <2>2
<1>9. ASSUME NEW outcome \in Outcomes, SubmitReplacement(outcome)
      PROVE  (OrdersSame /\ UNCHANGED held) \/ ReplacementSent(Replacement)
  <2>1. at \in InHandoff
    BY <1>9 DEF SubmitReplacement, InHandoff
  <2>2. Replacement \in SellIds /\ intent.stop \in 0..MaxLevel
    BY <2>1, InTheHandoff
  <2>3. \/ UNCHANGED orders
        \/ orders[Replacement].st = "none" /\ Placed(Replacement, intent.stop, TRUE)
    BY <1>1, <1>9, <2>2, BrokerMoves DEF SubmitReplacement
  <2>4. CASE UNCHANGED orders
    BY <1>9, <2>4 DEF SubmitReplacement, OrdersSame, Kept
  <2>5. CASE orders[Replacement].st = "none" /\ Placed(Replacement, intent.stop, TRUE)
    <3>1. orders'[Replacement].st = "working" /\ orders'[Replacement].px = intent.stop
      BY <2>5 DEF Placed, Resting
    <3>2. QED
      BY <1>9, <2>5, <3>1 DEF SubmitReplacement, Placed, ReplacementSent, Goto, durable
  <2>6. QED
    BY <2>3, <2>4, <2>5
<1>10. ASSUME NEW outcome \in Outcomes, SubmitRestore(outcome)
       PROVE  (OrdersSame /\ UNCHANGED held) \/ RestoreSent(intent.restore)
  <2>1. at \in InHandoff /\ intent.stage \in Late
    BY <1>10 DEF SubmitRestore, InHandoff, IInv, Handler, AtStage, Late
  <2>2. intent.restore \in SellIds /\ intent.priorStop \in 0..MaxLevel
    BY <2>1, InTheHandoff
  <2>3. \/ UNCHANGED orders
        \/ orders[intent.restore].st = "none" /\ Placed(intent.restore, intent.priorStop, TRUE)
    BY <1>1, <1>10, <2>2, BrokerMoves DEF SubmitRestore
  <2>4. CASE UNCHANGED orders
    BY <1>10, <2>4 DEF SubmitRestore, OrdersSame, Kept
  <2>5. CASE orders[intent.restore].st = "none" /\ Placed(intent.restore, intent.priorStop, TRUE)
    <3>1. orders'[intent.restore].st = "working"
      BY <2>5 DEF Placed, Resting
    <3>2. QED
      BY <1>10, <2>5, <3>1 DEF SubmitRestore, Placed, RestoreSent, Goto, durable
  <2>6. QED
    BY <2>3, <2>4, <2>5
<1>11. ASSUME NEW outcome \in Outcomes, SubmitClose(outcome)
       PROVE  (OrdersSame /\ UNCHANGED held) \/ CloseSent(<<"close", 1>>)
  <2>1. <<"close", 1>> \in SellIds /\ 0 \in 0..MaxLevel
    BY <1>1, Ids, Typed
  <2>2. PICK c : c = <<"close", 1>>
    OBVIOUS
  <2>3. UNCHANGED orders \/ (orders[c].st = "none" /\ Placed(c, 0, TRUE))
    BY <1>1, <1>11, <2>1, <2>2, BrokerMoves DEF SubmitClose
  <2>4. CASE UNCHANGED orders
    BY <1>11, <2>4 DEF SubmitClose, OrdersSame, Kept
  <2>5. CASE orders[c].st = "none" /\ Placed(c, 0, TRUE)
    <3>1. orders'[c].st = "working"
      BY <2>5 DEF Placed, Resting
    <3>2. CloseSent(c)
      BY <1>11, <2>2, <2>5, <3>1 DEF SubmitClose, Placed, CloseSent, Returns, durable
    <3>3. QED
      BY <2>2, <3>2
  <2>6. QED
    BY <2>3, <2>4, <2>5
<1>12. ASSUME NEW outcome \in Outcomes, ArmsProtection(outcome)
       PROVE  (OrdersSame /\ UNCHANGED held) \/ \E o \in SellIds : ArmSent(o)
  <2>1. PICK o : o = <<"armed", Min(FreeArms)>>
    OBVIOUS
  <2>2. /\ o \in SellIds
        /\ \/ orders[o].st = "none"
           \/ orders[o].st = "dead" /\ orders[o].acked /\ o \notin Named
        /\ o[1] = "armed"
    BY <1>1, <1>12, <2>1, Protections DEF ArmsProtection
  <2>3. /\ orders' = IF outcome = "refused" THEN orders
                     ELSE [orders EXCEPT ![o] = Resting(Base, outcome = "ack")]
        /\ IF outcome = "ack" THEN upd' = WithStop(upd, o, Base) /\ at' = "changed"
                              ELSE at' = "idle" /\ upd' = NoPosition
        /\ at = "find" /\ UNCHANGED <<held, pos, intent, row>>
    BY <1>12, <2>1 DEF ArmsProtection, Returns, durable
  <2>4. CASE outcome = "refused"
    BY <2>3, <2>4 DEF OrdersSame, Kept
  <2>5. CASE outcome # "refused"
    <3>1. orders'[o] = Resting(Base, outcome = "ack") /\ OthersKept(o)
      BY <1>1, <2>2, <2>3, <2>5 DEF OthersKept
    <3>2. orders'[o].st = "working" /\ orders'[o].acked = (outcome = "ack")
      <4>1. PICK b \in BOOLEAN : b = (outcome = "ack")
        OBVIOUS
      <4>2. orders'[o] = Resting(Base, b)
        BY <3>1, <4>1
      <4>3. orders'[o].st = "working" /\ orders'[o].acked = b
        BY <4>2 DEF Resting
      <4>4. QED
        BY <4>1, <4>3
    <3>3. ArmSent(o)
      BY <2>2, <2>3, <3>1, <3>2 DEF ArmSent
    <3>4. QED
      BY <2>2, <3>3
  <2>6. QED
    BY <2>4, <2>5
<1>13. CASE Handoff
  <2>1. CASE UNCHANGED broker
    BY <1>2, <2>1
  <2>2. CASE \E outcome \in Outcomes : SubmitReplacement(outcome)
    <3>1. at \in InHandoff
      BY <2>2 DEF SubmitReplacement, InHandoff
    <3>2. QED
      BY <1>9, <2>2, <3>1, InTheHandoff
  <2>3. CASE \E outcome \in Outcomes : SubmitRestore(outcome)
    <3>1. at \in InHandoff /\ intent.stage \in Late
      BY <2>3 DEF SubmitRestore, InHandoff, IInv, Handler, AtStage, Late
    <3>2. QED
      BY <1>10, <2>3, <3>1, InTheHandoff
  <2>4. QED
    BY <1>7, <1>13, <2>1, <2>2, <2>3
       DEF Handoff, PrepareRatchet, PriorReadback, ReplacementReadback, RestoreReadback,
           CancelReadback, SubmitPending, ReplacementPlaced, CommitReplacement,
           ResolveAdopted, RestorePlaced
<1>14. CASE Manage \/ FlatStarts \/ Reconcile \/ CrashRestart
  BY <1>2, <1>12, <1>14
     DEF Manage, FlatStarts, BeginRecovery, BeginClean, AfterRecovery, ManageEnds,
         FindsProtection, Reconcile, CrashRestart
<1>15. CASE Flat
  BY <1>2, <1>8, <1>11, <1>15, Ids DEF Flat, ReleaseReadback
<1>16. CASE UNCHANGED vars
  BY <1>2, <1>16 DEF vars
<1>17. QED
  BY <1>5, <1>6, <1>13, <1>14, <1>15, <1>16 DEF Next

\* The replacements at the broker: those of earlier handoffs and this one's,
\* which is dead once the restore begins.
Book ==
    /\ intent = NoIntent => \A n \in 1..MaxRatchets : orders[<<"replacement", n>>].st = "none"
    /\ intent # NoIntent =>
          /\ \A n \in 1..MaxRatchets : n > intent.n => orders[<<"replacement", n>>].st = "none"
          /\ orders[Replacement].st # "none" => orders[Replacement].px = intent.stop
          /\ intent.stage \in Late => /\ orders[Replacement].st = "dead"
                                      /\ intent.restore = <<"restore", intent.n>>
          /\ intent.status = "failed" => intent.stage \in Late

\* What was proved before the intent is resolved in a later step.
Settled ==
    /\ at = "committed" => row = intent.stop
    /\ at = "adopted" => IF intent.stage = "restore_submitted"
                         THEN orders[intent.restore].st # "none" ELSE row = intent.stop

Truth == Book /\ Settled /\ ResolvedOutcomeIsTrue

\* An order that is known stays known; sold and dead are for good, but for the
\* number of an armed stop.
LEMMA Lasting ==
    ASSUME IInv, [Next]_vars, NEW q \in SellIds
    PROVE  /\ orders[q].st = "filled" => orders'[q].st = "filled"
           /\ q[1] # "armed" /\ orders[q].st # "none" =>
                 orders'[q].st # "none" /\ orders'[q].px = orders[q].px
           /\ q[1] # "armed" /\ orders[q].st = "dead" => orders'[q].st = "dead"
           /\ q[1] = "replacement" /\ orders[q].st = "none" =>
                 orders'[q].st = "none" \/ ReplacementSent(q)
<1>1. CASE OrdersSame
  BY <1>1 DEF OrdersSame, Kept
<1>2. ASSUME NEW o \in SellIds,
             ReplacementSent(o) \/ RestoreSent(o) \/ CloseSent(o) \/ ArmSent(o) \/ BrokerStep(o)
      PROVE  /\ orders[q].st = "filled" => orders'[q].st = "filled"
             /\ q[1] # "armed" /\ orders[q].st # "none" =>
                   orders'[q].st # "none" /\ orders'[q].px = orders[q].px
             /\ q[1] # "armed" /\ orders[q].st = "dead" => orders'[q].st = "dead"
             /\ q[1] = "replacement" /\ orders[q].st = "none" =>
                   orders'[q].st = "none" \/ ReplacementSent(q)
  <2>1. CASE q # o
    <3>1. orders'[q] = orders[q]
      BY <1>2, <2>1 DEF ReplacementSent, RestoreSent, CloseSent, ArmSent, BrokerStep, Becomes, OthersKept
    <3>2. QED
      BY <3>1
  <2>2. CASE q = o
    <3>1. CASE ReplacementSent(o)
      BY <2>2, <3>1 DEF ReplacementSent
    <3>2. CASE RestoreSent(o)
      <4>1. at \in InHandoff /\ intent.stage \in Late
        BY <3>2 DEF RestoreSent, IInv, Handler, AtStage, InHandoff, Late
      <4>2. o = <<"restore", intent.n>>
        BY <3>2, <4>1, InTheHandoff DEF RestoreSent, IInv, Handler
      <4>3. o[1] = "restore"
        BY <4>2
      <4>4. QED
        BY <2>2, <3>2, <4>3 DEF RestoreSent
    <3>3. CASE CloseSent(o)
      <4>1. o[1] = "close"
        BY <3>3 DEF CloseSent
      <4>2. QED
        BY <2>2, <3>3, <4>1 DEF CloseSent
    <3>4. CASE ArmSent(o)
      BY <2>2, <3>4 DEF ArmSent
    <3>5. CASE BrokerStep(o)
      BY <2>2, <3>5 DEF BrokerStep, Becomes
    <3>6. QED
      BY <1>2, <3>1, <3>2, <3>3, <3>4, <3>5
  <2>3. QED
    BY <2>1, <2>2
<1>3. QED
  BY <1>1, <1>2, BookMoves

\* What a reading that is not ambiguous proves.
LEMMA Readback ==
    ASSUME NEW o, NEW outcome, Classify(o, outcome)
    PROVE  /\ outcome = "fill" => orders[o].st = "filled"
           /\ outcome = "working" => orders[o].st = "working"
           /\ outcome = "dead_zero_fill" => orders[o].st = "dead"
<1>1. outcome = "ambiguous" \/ outcome = Proved(o)
  BY DEF Classify
<1>2. /\ Proved(o) = "fill" => orders[o].st = "filled"
      /\ Proved(o) = "working" => orders[o].st = "working"
      /\ Proved(o) = "dead_zero_fill" => orders[o].st = "dead"
  BY DEF Proved
<1>3. QED
  BY <1>1, <1>2

\* Steps that write neither the intent nor the row.
LEMMA BookKept ==
    ASSUME IInv, Book, ResolvedOutcomeIsTrue, [Next]_vars, UNCHANGED <<intent, row>>
    PROVE  Book' /\ ResolvedOutcomeIsTrue'
<1>1. ASSUME NEW n \in 1..MaxRatchets
      PROVE  /\ <<"replacement", n>> \in SellIds
             /\ orders[<<"replacement", n>>].st # "none" =>
                   /\ orders'[<<"replacement", n>>].st # "none"
                   /\ orders'[<<"replacement", n>>].px = orders[<<"replacement", n>>].px
             /\ orders[<<"replacement", n>>].st = "dead" =>
                   orders'[<<"replacement", n>>].st = "dead"
             /\ orders[<<"replacement", n>>].st = "none" =>
                   \/ orders'[<<"replacement", n>>].st = "none"
                   \/ /\ intent # NoIntent /\ n = intent.n
                      /\ orders'[<<"replacement", n>>].px = intent.stop
                      /\ orders'[<<"replacement", n>>].st = "working"
                      /\ intent.stage \notin Late
  <2>1. PICK q : q = <<"replacement", n>>
    OBVIOUS
  <2>2. q \in SellIds /\ q[1] = "replacement" /\ q[2] = n
    BY <2>1, Ids
  <2>3. ASSUME ReplacementSent(q)
        PROVE  intent # NoIntent /\ n = intent.n /\ intent.stage \notin Late
    <3>1. at \in InHandoff /\ intent.stage \notin Late
      BY <2>3 DEF ReplacementSent, IInv, Handler, AtStage, InHandoff, Late
    <3>2. q = <<"replacement", intent.n>>
      BY <2>3 DEF ReplacementSent, Replacement
    <3>3. QED
      BY <2>2, <3>1, <3>2, InTheHandoff
  <2>4. QED
    BY <2>1, <2>2, <2>3, Lasting DEF ReplacementSent
<1>2. ASSUME NEW o \in SellIds, orders[o].st = "filled" PROVE orders'[o].st = "filled"
  BY <1>2, Lasting
<1>3. Replacement' = Replacement /\ (intent # NoIntent => intent.n \in 1..MaxRatchets)
  BY Typed DEF Replacement, IInv
<1>4. Book'
  BY <1>1, <1>3 DEF Book, Replacement
<1>5. ASSUME row > Base
      PROVE  \E n \in 1..MaxRatchets :
                LET o == orders'[<<"replacement", n>>] IN o.st # "none" /\ o.px = row
  BY <1>1, <1>5 DEF ResolvedOutcomeIsTrue
<1>6. ASSUME intent # NoIntent, intent.status = "confirmed"
      PROVE  \/ row >= intent.stop
             \/ \E o \in {intent.prior, Replacement, intent.restore} \ {NoOrder} :
                   orders'[o].st = "filled"
  <2>1. {intent.prior, Replacement, intent.restore} \ {NoOrder} \subseteq SellIds
    BY <1>6, Typed DEF IInv
  <2>2. QED
    BY <1>2, <1>6, <2>1 DEF ResolvedOutcomeIsTrue
<1>7. ASSUME intent # NoIntent, intent.status = "failed"
      PROVE  orders'[Replacement].st = "dead" /\ orders'[intent.restore].st # "none"
  <2>1. orders[Replacement].st = "dead" /\ orders[intent.restore].st # "none"
    BY <1>7 DEF ResolvedOutcomeIsTrue
  <2>2. orders'[Replacement].st = "dead"
    BY <1>1, <1>3, <1>7, <2>1 DEF Replacement
  <2>3. PICK r : r = <<"restore", intent.n>>
    OBVIOUS
  <2>4. r = intent.restore /\ r \in SellIds /\ r[1] # "armed"
    BY <1>3, <1>7, <2>3, Ids DEF Book
  <2>5. QED
    BY <2>1, <2>2, <2>4, Lasting
<1>8. QED
  BY <1>3, <1>4, <1>5, <1>6, <1>7 DEF ResolvedOutcomeIsTrue

\* Steps that resolve the intent.
LEMMA BookResolved ==
    ASSUME IInv, Book, ResolvedOutcomeIsTrue, IsOpen(intent), UNCHANGED <<orders, row>>,
           NEW status \in TerminalStatuses, Resolved(status),
           status = "confirmed" =>
              \/ row >= intent.stop
              \/ \E o \in {intent.prior, Replacement, intent.restore} \ {NoOrder} :
                    orders[o].st = "filled",
           status = "failed" => intent.stage \in Late /\ orders[intent.restore].st # "none"
    PROVE  Book' /\ ResolvedOutcomeIsTrue'
<1>1. /\ intent # NoIntent /\ intent' # NoIntent /\ intent'.stage = intent.stage
      /\ intent'.n = intent.n /\ intent'.stop = intent.stop
      /\ intent'.prior = intent.prior /\ intent'.restore = intent.restore
      /\ intent'.status = status
  BY IntentMoves, OpenIntent, SentinelsAssumption DEF IInv
<1>2. Replacement' = Replacement
  BY <1>1 DEF Replacement
<1>3. Book'
  BY <1>1, <1>2 DEF Book
<1>4. QED
  BY <1>1, <1>2, <1>3 DEF Book, ResolvedOutcomeIsTrue

\* Steps to the next stage.
LEMMA BookStaged ==
    ASSUME IInv, Book, ResolvedOutcomeIsTrue, IsOpen(intent), UNCHANGED orders,
           NEW stage \in Stages, Staged(stage), stage \in Late => intent.stage \in Late
    PROVE  Book' /\ ResolvedOutcomeIsTrue'
<1>1. /\ intent # NoIntent /\ intent' # NoIntent /\ intent'.stage = stage
      /\ intent'.n = intent.n /\ intent'.stop = intent.stop
      /\ intent'.prior = intent.prior /\ intent'.restore = intent.restore
      /\ IsOpen(intent)' /\ row' = row
  BY IntentMoves, OpenIntent, SentinelsAssumption DEF IInv, Staged
<1>2. Replacement' = Replacement
  BY <1>1 DEF Replacement
<1>3. intent'.status \notin {"confirmed", "failed"}
  BY <1>1 DEF IsOpen, OpenStatuses
<1>4. Book'
  BY <1>1, <1>2, <1>3 DEF Book
<1>5. QED
  BY <1>1, <1>3, <1>4 DEF ResolvedOutcomeIsTrue

\* The steps of the handoff.
LEMMA TruthInHandoff ==
    ASSUME IInv, Truth, [Next]_vars, Handoff
    PROVE  Truth'
<1> USE DEF Truth
<1>1. ASSUME at' \notin {"committed", "adopted"} PROVE Settled'
  BY <1>1 DEF Settled
<1>2. /\ {"prior_stop_dead_zero_fill", "replacement_submit_pending",
          "replacement_submitted"} \subseteq Stages \ Late
      /\ {"restore_submit_pending", "restore_submitted"} \subseteq Stages \cap Late
      /\ {"confirmed", "failed"} \subseteq TerminalStatuses
  BY DEF Stages, Late, TerminalStatuses
<1>3. ASSUME NEW l \in Levels, PrepareRatchet(l) PROVE Truth'
  <2>1. /\ ~IsOpen(intent) /\ IsOpen(intent)' /\ intent' # NoIntent
        /\ intent'.n = IF intent = NoIntent THEN 1 ELSE intent.n + 1
        /\ intent'.stage = "prior_stop_cancel_pending"
        /\ at' = "cancel" /\ orders' = orders /\ row' = row
        /\ intent' \in Ratchet /\ intent'.n \in 1..MaxRatchets
    <3>1. TypeOK'
      BY <1>3, Prepares DEF IInv
    <3>2. intent' # NoIntent
      BY <1>3, Prepares
    <3>3. intent' \in Ratchet
      BY <3>1, <3>2 DEF TypeOK
    <3>4. intent'.n \in 1..MaxRatchets
      BY <3>3 DEF Ratchet
    <3>5. QED
      BY <1>3, <3>3, <3>4, Prepares DEF PrepareRatchet, broker
  <2>2. /\ intent'.stage \notin Late /\ intent'.status \notin {"confirmed", "failed"}
    BY <2>1 DEF IsOpen, OpenStatuses, Late
  <2>3. \A n \in 1..MaxRatchets : n >= intent'.n => orders'[<<"replacement", n>>].st = "none"
    <3>1. CASE intent = NoIntent
      BY <2>1, <3>1 DEF Book
    <3>2. CASE intent # NoIntent
      <4>1. intent.n \in 1..MaxRatchets
        BY <3>2, Typed DEF IInv
      <4>2. QED
        BY <2>1, <3>2, <4>1 DEF Book
    <3>3. QED
      BY <3>1, <3>2
  <2>4. Replacement' = <<"replacement", intent'.n>> /\ orders'[Replacement'].st = "none"
    BY <2>1, <2>3 DEF Replacement
  <2>5. Book'
    BY <2>1, <2>2, <2>3, <2>4 DEF Book
  <2>6. ResolvedOutcomeIsTrue'
    BY <2>1, <2>2 DEF ResolvedOutcomeIsTrue
  <2>7. QED
    BY <1>1, <2>1, <2>5, <2>6
<1>4. ASSUME at \in InHandoff
      PROVE  /\ IsOpen(intent) /\ intent # NoIntent /\ intent \in Ratchet
             /\ intent.prior \in {intent.prior, Replacement, intent.restore} \ {NoOrder}
             /\ Replacement \in {intent.prior, Replacement, intent.restore} \ {NoOrder}
             /\ intent.stage \in Late =>
                   intent.restore \in {intent.prior, Replacement, intent.restore} \ {NoOrder}
  BY <1>4, InTheHandoff, Ids
<1>5. ASSUME NEW outcome \in Readings, PriorReadback(outcome) PROVE Truth'
  <2>1. at \in InHandoff /\ UNCHANGED orders /\ Classify(intent.prior, outcome)
    BY <1>5 DEF PriorReadback, InHandoff, broker
  <2>2. CASE outcome = "fill"
    <3>1. Resolved("confirmed") /\ UNCHANGED row /\ at' \in {"resume", "idle"}
      BY <1>5, <2>2, Sells DEF PriorReadback, IInv
    <3>2. orders[intent.prior].st = "filled"
      BY <2>1, <2>2, Readback
    <3>3. QED
      BY <1>1, <1>2, <1>4, <2>1, <3>1, <3>2, BookResolved
  <2>3. CASE outcome = "dead_zero_fill"
    <3>1. Staged("prior_stop_dead_zero_fill") /\ at' = "pending"
      BY <1>5, <2>3 DEF PriorReadback, Goto
    <3>2. QED
      BY <1>1, <1>2, <1>4, <2>1, <3>1, BookStaged
  <2>4. CASE outcome \notin {"fill", "dead_zero_fill"}
    <3>1. UNCHANGED <<intent, row>> /\ at' = "cancel"
      BY <1>5, <2>4 DEF PriorReadback, Goto, durable
    <3>2. QED
      BY <1>1, <3>1, BookKept
  <2>5. QED
    BY <2>2, <2>3, <2>4
<1>6. ASSUME NEW canceled \in BOOLEAN, CancelReadback(canceled) PROVE Truth'
  <2>1. at \in InHandoff /\ UNCHANGED orders
    BY <1>6 DEF CancelReadback, InHandoff, broker
  <2>2. CASE canceled
    <3>1. Staged("prior_stop_dead_zero_fill") /\ at' = "pending"
      BY <1>6, <2>2 DEF CancelReadback, Goto
    <3>2. QED
      BY <1>1, <1>2, <1>4, <2>1, <3>1, BookStaged
  <2>3. CASE ~canceled
    <3>1. UNCHANGED <<intent, row>> /\ LeftUnproved
      BY <1>6, <2>3 DEF CancelReadback
    <3>2. at' \in {"resume", "persist"}
      BY <2>1, <3>1, InTheHandoff, Leaves DEF IInv
    <3>3. QED
      BY <1>1, <3>1, <3>2, BookKept
  <2>4. QED
    BY <2>2, <2>3
<1>7. CASE RequestCancel
  BY <1>1, <1>7, BookKept DEF RequestCancel, Goto, durable
<1>8. CASE SubmitPending
  <2>1. /\ at \in InHandoff /\ UNCHANGED orders
        /\ Staged("replacement_submit_pending") /\ at' = "submit"
    BY <1>8 DEF SubmitPending, Goto, broker, InHandoff
  <2>2. QED
    BY <1>1, <1>2, <1>4, <2>1, BookStaged
<1>9. ASSUME NEW outcome \in Outcomes, SubmitReplacement(outcome) \/ SubmitRestore(outcome)
      PROVE  Truth'
  BY <1>1, <1>9, BookKept DEF SubmitReplacement, SubmitRestore, Goto, durable
<1>10. CASE ReplacementPlaced
  <2>1. /\ at \in InHandoff /\ UNCHANGED orders
        /\ Staged("replacement_submitted") /\ at' = "classify"
    BY <1>10 DEF ReplacementPlaced, Goto, broker, InHandoff
  <2>2. QED
    BY <1>1, <1>2, <1>4, <2>1, BookStaged
<1>11. ASSUME NEW outcome \in Readings, ReplacementReadback(outcome) PROVE Truth'
  <2>1. /\ at \in InHandoff /\ UNCHANGED orders /\ Classify(Replacement, outcome)
        /\ intent.stage = "replacement_submitted"
    BY <1>11 DEF ReplacementReadback, InHandoff, broker, IInv, Handler, AtStage
  <2>2. CASE outcome = "fill"
    <3>1. Resolved("confirmed") /\ UNCHANGED row /\ at' \in {"resume", "idle"}
      BY <1>11, <2>2, Sells DEF ReplacementReadback, IInv
    <3>2. orders[Replacement].st = "filled"
      BY <2>1, <2>2, Readback
    <3>3. QED
      BY <1>1, <1>2, <1>4, <2>1, <3>1, <3>2, BookResolved
  <2>3. CASE outcome = "working"
    <3>1. row' = intent.stop /\ intent' = intent /\ at' = "committed"
      BY <1>11, <2>3 DEF ReplacementReadback, Goto
    <3>2. orders[Replacement].st = "working" /\ orders[Replacement].px = intent.stop
      BY <1>4, <2>1, <2>3, Readback DEF Book
    <3>3. intent.n \in 1..MaxRatchets /\ Replacement = <<"replacement", intent.n>>
      BY <1>4, <2>1, Typed DEF IInv, Replacement
    <3>4. intent.status \notin {"confirmed", "failed"}
      BY <1>4, <2>1 DEF IsOpen, OpenStatuses
    <3>5. ResolvedOutcomeIsTrue'
      BY <2>1, <3>1, <3>2, <3>3, <3>4 DEF ResolvedOutcomeIsTrue
    <3>6. Book'
      BY <2>1, <3>1 DEF Book, Replacement
    <3>7. QED
      BY <3>1, <3>5, <3>6 DEF Settled
  <2>4. CASE outcome = "dead_zero_fill"
    <3> DEFINE r == <<"restore", intent.n>>
    <3>1. /\ intent' = WithHandoff(intent, "restore_submit_pending", r)
          /\ at' = "restore" /\ row' = row
      BY <1>11, <2>4 DEF ReplacementReadback, Goto
    <3>2. r \in SellIds /\ r # NoOrder
      BY <1>4, <2>1, Typed, Ids DEF IInv
    <3> HIDE DEF r
    <3>3. /\ intent' \in Ratchet /\ intent'.stage = "restore_submit_pending"
          /\ intent'.status = intent.status /\ intent'.n = intent.n /\ intent'.restore = r
          /\ intent'.stop = intent.stop
      <4>1. r \in SellIds \cup {NoOrder} /\ "restore_submit_pending" \in Stages
        BY <1>2, <3>2
      <4>2. LET j == WithHandoff(intent, "restore_submit_pending", r)
            IN  /\ j \in Ratchet /\ j.stage = "restore_submit_pending"
                /\ j.status = intent.status /\ j.n = intent.n /\ j.stop = intent.stop
                /\ j.restore = IF r = NoOrder THEN intent.restore ELSE r
        BY <1>4, <2>1, <4>1, Intents
      <4>3. QED
        BY <3>1, <3>2, <4>2
    <3>4. /\ orders[Replacement].st = "dead" /\ Replacement' = Replacement
          /\ intent.status \notin {"confirmed", "failed"} /\ intent' # NoIntent
      BY <1>4, <2>1, <2>4, <3>3, Readback, SentinelsAssumption DEF IsOpen, OpenStatuses, Replacement
    <3>5. Book'
      BY <1>4, <2>1, <3>3, <3>4 DEF Book, r
    <3>6. ResolvedOutcomeIsTrue'
      BY <2>1, <3>1, <3>3, <3>4 DEF ResolvedOutcomeIsTrue
    <3>7. QED
      BY <1>1, <3>1, <3>5, <3>6
  <2>5. CASE outcome \notin {"fill", "working", "dead_zero_fill"}
    <3>1. UNCHANGED <<intent, row>> /\ LeftUnproved
      BY <1>11, <2>5 DEF ReplacementReadback
    <3>2. at' \in {"resume", "persist"}
      BY <2>1, <3>1, InTheHandoff, Leaves DEF IInv
    <3>3. QED
      BY <1>1, <3>1, <3>2, BookKept
  <2>6. QED
    BY <2>2, <2>3, <2>4, <2>5
<1>12. CASE CommitReplacement
  <2>1. /\ at = "committed" /\ at \in InHandoff /\ UNCHANGED <<orders, row>>
        /\ Adopted(Replacement, intent.stop, "confirmed") /\ intent.stage = "replacement_submitted"
    BY <1>12 DEF CommitReplacement, InHandoff, broker, IInv, Handler, AtStage
  <2>2. row = intent.stop /\ row \in Levels
    BY <2>1 DEF Settled, IInv, TypeOK
  <2>3. \/ at' = "adopted" /\ intent' = intent
        \/ at' = "persist" /\ Resolved("confirmed")
    BY <2>1, InTheHandoff, Adopts DEF IInv
  <2>4. CASE at' = "adopted" /\ intent' = intent
    BY <2>1, <2>2, <2>4, BookKept DEF Settled
  <2>5. CASE at' = "persist" /\ Resolved("confirmed")
    <3>1. row >= intent.stop
      BY <2>2 DEF Levels
    <3>2. QED
      BY <1>1, <1>2, <1>4, <2>1, <2>5, <3>1, BookResolved
  <2>6. QED
    BY <2>3, <2>4, <2>5
<1>13. CASE ResolveAdopted
  <2>1. /\ at = "adopted" /\ at \in InHandoff /\ UNCHANGED <<orders, row>> /\ at' = "resume"
        /\ Resolved(IF intent.stage = "restore_submitted" THEN "failed" ELSE "confirmed")
        /\ row \in Levels
    BY <1>13 DEF ResolveAdopted, Goto, InHandoff, broker, IInv, TypeOK
  <2>2. CASE intent.stage = "restore_submitted"
    BY <1>1, <1>2, <1>4, <2>1, <2>2, BookResolved DEF Settled
  <2>3. CASE intent.stage # "restore_submitted"
    <3>1. row = intent.stop
      BY <2>1, <2>3 DEF Settled
    <3>2. row >= intent.stop
      BY <2>1, <3>1 DEF Levels
    <3>3. QED
      BY <1>1, <1>2, <1>4, <2>1, <2>3, <3>2, BookResolved
  <2>4. QED
    BY <2>2, <2>3
<1>14. CASE RestorePlaced
  <2>1. /\ at \in InHandoff /\ UNCHANGED orders /\ intent.stage \in Late
        /\ Staged("restore_submitted") /\ at' = "proof"
    BY <1>2, <1>14 DEF RestorePlaced, Goto, broker, InHandoff, IInv, Handler, AtStage
  <2>2. QED
    BY <1>1, <1>2, <1>4, <2>1, BookStaged
<1>15. ASSUME NEW outcome \in Readings, RestoreReadback(outcome) PROVE Truth'
  <2>1. /\ at = "proof" /\ at \in InHandoff /\ UNCHANGED <<orders, row>>
        /\ Classify(intent.restore, outcome)
        /\ intent.stage = "restore_submitted" /\ intent.stage \in Late
    BY <1>2, <1>15 DEF RestoreReadback, InHandoff, broker, IInv, Handler, AtStage
  <2>2. CASE outcome = "fill"
    <3>1. Resolved("confirmed") /\ at' \in {"resume", "idle"}
      BY <1>15, <2>2, Sells DEF RestoreReadback, IInv
    <3>2. orders[intent.restore].st = "filled"
      BY <2>1, <2>2, Readback
    <3>3. QED
      BY <1>1, <1>2, <1>4, <2>1, <3>1, <3>2, BookResolved
  <2>3. CASE outcome = "working"
    <3>1. Adopted(intent.restore, intent.priorStop, "failed")
      BY <1>15, <2>3 DEF RestoreReadback
    <3>2. \/ at' = "adopted" /\ intent' = intent
          \/ at' = "persist" /\ Resolved("failed")
      BY <2>1, <3>1, InTheHandoff, Adopts DEF IInv
    <3>3. orders[intent.restore].st # "none"
      BY <2>1, <2>3, Readback
    <3>4. CASE at' = "adopted" /\ intent' = intent
      BY <2>1, <3>3, <3>4, BookKept DEF Settled
    <3>5. CASE at' = "persist" /\ Resolved("failed")
      BY <1>1, <1>2, <1>4, <2>1, <3>3, <3>5, BookResolved
    <3>6. QED
      BY <3>2, <3>4, <3>5
  <2>4. CASE outcome = "dead_zero_fill"
    <3>1. Resolved("failed") /\ LeftUnproved
      BY <1>15, <2>4 DEF RestoreReadback
    <3>2. at' \in {"resume", "persist"} /\ orders[intent.restore].st # "none"
      BY <2>1, <2>4, <3>1, InTheHandoff, Leaves, Readback DEF IInv
    <3>3. QED
      BY <1>1, <1>2, <1>4, <2>1, <3>1, <3>2, BookResolved
  <2>5. CASE outcome \notin {"fill", "working", "dead_zero_fill"}
    <3>1. UNCHANGED intent /\ LeftUnproved
      BY <1>15, <2>5 DEF RestoreReadback
    <3>2. at' \in {"resume", "persist"}
      BY <2>1, <3>1, InTheHandoff, Leaves DEF IInv
    <3>3. QED
      BY <1>1, <2>1, <3>1, <3>2, BookKept
  <2>6. QED
    BY <2>2, <2>3, <2>4, <2>5
<1>16. QED
  BY <1>3, <1>5, <1>6, <1>7, <1>8, <1>9, <1>10, <1>11, <1>12, <1>13, <1>14, <1>15 DEF Handoff

\* Every other step leaves intent and row alone.
LEMMA TruthStep ==
    ASSUME IInv, Truth, [Next]_vars
    PROVE  Truth'
<1>1. CASE ~Handoff
  <2>1. /\ UNCHANGED <<intent, row>>
        /\ \/ at' = at
           \/ at' \notin {"committed", "adopted"}
    <3>1. CASE Manage \/ FlatStarts
      <4>1. ASSUME NEW w, BeginRecovery(w) PROVE at' \notin {"committed", "adopted"}
        BY <4>1, OpenIntent, Typed, Resumes DEF BeginRecovery, IInv
      <4>2. ASSUME NEW w, NEW p PROVE FirstPlace(w, p) \notin {"committed", "adopted"}
        BY DEF FirstPlace
      <4>3. QED
        BY <3>1, <4>1, <4>2
           DEF Manage, FlatStarts, BeginRecovery, BeginClean, AfterRecovery, ManageEnds,
               FindsProtection, ArmsProtection, Returns, durable
    <3>2. CASE Flat
      BY <3>2 DEF Flat, RequestRelease, ReleaseReadback, SubmitClose, Goto, Returns, durable
    <3>3. QED
      BY <1>1, <3>1, <3>2
         DEF Next, Fill, Dies, Reconcile, CrashRestart, Returns, vars, durable, handler
  <2>2. Book' /\ ResolvedOutcomeIsTrue'
    BY <2>1, BookKept DEF Truth
  <2>3. Settled'
    <3>1. CASE at' \notin {"committed", "adopted"}
      BY <3>1 DEF Settled
    <3>2. CASE at' = at /\ at' \in {"committed", "adopted"}
      <4>1. at \in InHandoff /\ intent' = intent /\ row' = row
        BY <2>1, <3>2 DEF InHandoff
      <4>2. ASSUME intent.stage = "restore_submitted", orders[intent.restore].st # "none"
            PROVE  orders'[intent.restore].st # "none"
        <5>1. intent.restore = <<"restore", intent.n>> /\ <<"restore", intent.n>> \in SellIds
          BY <4>1, <4>2, InTheHandoff, Typed DEF IInv, Handler, Late
        <5>2. intent.restore \in SellIds /\ intent.restore[1] # "armed"
          BY <5>1
        <5>3. QED
          BY <4>2, <5>2, Lasting
      <4>3. QED
        BY <3>2, <4>1, <4>2 DEF Truth, Settled
    <3>3. QED
      BY <2>1, <3>1, <3>2
  <2>4. QED
    BY <2>2, <2>3 DEF Truth
<1>2. QED
  BY <1>1, TruthInHandoff

\* Nothing is resolved and nothing was replaced at first.
LEMMA TruthStarts == Init => Truth
<1> SUFFICES ASSUME Init PROVE Truth
  OBVIOUS
<1>1. intent = NoIntent /\ row = Base /\ at = "idle"
  BY DEF Init
<1>2. ASSUME NEW n \in 1..MaxRatchets PROVE orders[<<"replacement", n>>].st = "none"
  <2>1. <<"replacement", n>> \in SellIds /\ <<"replacement", n>> # <<"armed", 1>>
    BY Ids
  <2>2. orders[<<"replacement", n>>] = Absent
    BY <2>1 DEF Init
  <2>3. QED
    BY <2>2 DEF Absent
<1>3. ~(row > Base)
  BY <1>1 DEF Base
<1>4. QED
  BY <1>1, <1>2, <1>3 DEF Truth, Book, Settled, ResolvedOutcomeIsTrue

\* ResolvedOutcomeIsTrue: "confirmed" and "failed" tell what became of the
\* orders of the handoff, and the committed stop is a price the broker held.
THEOREM ResolutionsAreTrue == Spec => []ResolvedOutcomeIsTrue
<1>1. IInv /\ Truth /\ [Next]_vars => Truth'
  BY TruthStep
<1>2. Truth => ResolvedOutcomeIsTrue
  BY DEF Truth
<1>3. QED
  BY AlwaysIInv, TruthStarts, <1>1, <1>2, PTL DEF Spec

-----------------------------------------------------------------------------
(* One SELL order at a time                                                *)

\* No armed stop was lost on the way to an answer.
Answered == \A o \in ArmedStops : orders[o].st = "none" \/ orders[o].acked

Live(o) == orders[o].st \in {"working", "filled"}
OnlyLive(x) == \A o \in SellIds : Live(o) => o = x

\* The broker's side: at most one order can sell or has sold the contract.
Lone ==
    /\ \A o, q \in SellIds : Live(o) /\ Live(q) => o = q
    /\ (\E o \in SellIds : orders[o].st = "filled") => held = 0
    /\ (\A o \in SellIds : orders[o].st # "filled") => held = 1

\* The order the durable stage of an open intent speaks of.
Expected ==
    IF intent.stage \in Early THEN intent.prior
    ELSE IF intent.stage \in Late THEN intent.restore ELSE Replacement

\* The program's side: whichever record it goes by names that order.  The
\* tracker is not to be trusted while the handler has yet to persist its own
\* copy, nor while an intent is open.
Aware ==
    /\ pos = NoPosition => held = 0
    /\ orders[<<"close", 1>>].st # "none" => held = 0 \/ (pos # NoPosition /\ pos.exit)
    /\ pos # NoPosition /\ pos.exit => at = "idle"
    /\ upd # NoPosition => ~upd.exit
    /\ IsOpen(intent) => OnlyLive(Expected)
    /\ ~IsOpen(intent) /\ pos # NoPosition /\ ~pos.exit /\ at \notin {"changed", "persist"} =>
          OnlyLive(pos.stop)
    /\ ~IsOpen(intent) /\ at \in Clean \cup {"persist"} => OnlyLive(upd.stop)
    /\ at = "adopted" /\ pos # NoPosition => OnlyLive(pos.stop)

Sole == Answered => Lone /\ Aware

\* A lost answer stays lost.
LEMMA LostForGood ==
    ASSUME IInv, [Next]_vars, Answered'
    PROVE  Answered
<1> SUFFICES ASSUME NEW q \in ArmedStops PROVE orders[q].st = "none" \/ orders[q].acked
  BY DEF Answered
<1>1. q \in SellIds /\ (orders'[q].st = "none" \/ orders'[q].acked)
  BY DEF Answered, ArmedStops
<1>2. CASE OrdersSame
  BY <1>1, <1>2 DEF OrdersSame, Kept
<1>3. ASSUME NEW o \in SellIds,
             ReplacementSent(o) \/ RestoreSent(o) \/ CloseSent(o) \/ ArmSent(o) \/ BrokerStep(o)
      PROVE  orders[q].st = "none" \/ orders[q].acked
  <2>1. CASE q # o
    <3>1. orders'[q] = orders[q]
      BY <1>1, <1>3, <2>1
         DEF ReplacementSent, RestoreSent, CloseSent, ArmSent, BrokerStep, Becomes, OthersKept
    <3>2. QED
      BY <1>1, <3>1
  <2>2. CASE q = o
    BY <1>1, <1>3, <2>2
       DEF ReplacementSent, RestoreSent, CloseSent, ArmSent, BrokerStep, Becomes
  <2>3. QED
    BY <2>1, <2>2
<1>4. QED
  BY <1>2, <1>3, BookMoves

\* An order that is sent when nothing is live becomes the only live one.
LEMMA SentAlone ==
    ASSUME NEW o \in SellIds, Lone, \A q \in SellIds : ~Live(q),
           orders'[o].st = "working", OthersKept(o), UNCHANGED held
    PROVE  Lone' /\ OnlyLive(o)'
<1>1. ASSUME NEW q \in SellIds
      PROVE  /\ orders'[q].st \in {"working", "filled"} => q = o
             /\ orders'[q].st # "filled"
  BY DEF OthersKept, Live
<1>2. held = 1
  BY DEF Lone, Live
<1>3. QED
  BY <1>1, <1>2 DEF Lone, Live, OnlyLive

\* The state from which each order is sent has nothing live.
LEMMA NothingLive ==
    ASSUME IInv, Aware
    PROVE  /\ at = "submit" /\ orders[Replacement].st = "none" => \A q \in SellIds : ~Live(q)
           /\ at = "restore" /\ orders[intent.restore].st = "none" => \A q \in SellIds : ~Live(q)
           /\ at \in {"find", "close"} => \A q \in SellIds : ~Live(q)
<1>1. ASSUME at = "submit", orders[Replacement].st = "none" PROVE \A q \in SellIds : ~Live(q)
  <2>1. IsOpen(intent) /\ Expected = Replacement
    BY <1>1 DEF IInv, Handler, AtStage, InHandoff, Expected, Early, Late
  <2>2. QED
    BY <1>1, <2>1 DEF Aware, OnlyLive, Live
<1>2. ASSUME at = "restore", orders[intent.restore].st = "none" PROVE \A q \in SellIds : ~Live(q)
  <2>1. IsOpen(intent) /\ Expected = intent.restore
    BY <1>2 DEF IInv, Handler, AtStage, InHandoff, Expected, Early, Late
  <2>2. QED
    BY <1>2, <2>1 DEF Aware, OnlyLive, Live
<1>3. ASSUME at \in {"find", "close"} PROVE \A q \in SellIds : ~Live(q)
  <2>1. ~IsOpen(intent) /\ upd.stop = NoOrder /\ at \in Clean
    BY <1>3 DEF IInv, Handler, Clean
  <2>2. QED
    BY <2>1, Ids DEF Aware, OnlyLive
<1>4. QED
  BY <1>1, <1>2, <1>3

\* Steps that touch an order.
LEMMA SoleSending ==
    ASSUME IInv, IInv', Lone, Aware, Answered', NEW o \in SellIds,
           ReplacementSent(o) \/ RestoreSent(o) \/ CloseSent(o) \/ ArmSent(o) \/ BrokerStep(o)
    PROVE  Lone' /\ Aware'
<1>1. CASE ReplacementSent(o)
  <2>1. Lone' /\ OnlyLive(o)'
    BY <1>1, NothingLive, SentAlone DEF ReplacementSent
  <2>2. /\ IsOpen(intent)' /\ Expected' = o /\ at' = "placed" /\ intent' = intent /\ pos' = pos
        /\ upd' = upd /\ held' = held /\ at = "submit"
    BY <1>1 DEF ReplacementSent, IInv, Handler, AtStage, InHandoff, Expected, Early, Late, IsOpen,
                Replacement
  <2>3. o # <<"close", 1>>
    BY <1>1 DEF ReplacementSent, Replacement
  <2>4. orders'[<<"close", 1>>].st = orders[<<"close", 1>>].st
    BY <1>1, <2>3, Ids DEF ReplacementSent, OthersKept
  <2>5. Aware'
    BY <2>1, <2>2, <2>4 DEF Aware, Clean
  <2>6. QED
    BY <2>1, <2>5
<1>2. CASE RestoreSent(o)
  <2>1. Lone' /\ OnlyLive(o)'
    BY <1>2, NothingLive, SentAlone DEF RestoreSent
  <2>2. /\ IsOpen(intent)' /\ Expected' = o /\ at' = "restored" /\ intent' = intent /\ pos' = pos
        /\ upd' = upd /\ held' = held /\ at = "restore"
    BY <1>2 DEF RestoreSent, IInv, Handler, AtStage, InHandoff, Expected, Early, Late, IsOpen
  <2>3. o # <<"close", 1>>
    BY <1>2, <2>2 DEF RestoreSent, IInv, Handler, AtStage, InHandoff, Late
  <2>4. orders'[<<"close", 1>>].st = orders[<<"close", 1>>].st
    BY <1>2, <2>3, Ids DEF RestoreSent, OthersKept
  <2>5. Aware'
    BY <2>1, <2>2, <2>4 DEF Aware, Clean
  <2>6. QED
    BY <2>1, <2>5
<1>3. CASE CloseSent(o)
  <2>1. Lone' /\ OnlyLive(o)'
    BY <1>3, NothingLive, SentAlone DEF CloseSent
  <2>2. /\ at' = "idle" /\ intent' = intent /\ upd' = NoPosition /\ ~IsOpen(intent)
        /\ upd \in Tracked /\ pos' = [upd EXCEPT !.exit = TRUE]
    BY <1>3, Typed DEF CloseSent, IInv, Handler, Clean
  <2>3. pos' # NoPosition /\ pos'.exit
    <3>1. [upd EXCEPT !.exit = TRUE] \in Tracked
      BY <2>2, Positions
    <3>2. [upd EXCEPT !.exit = TRUE].exit
      BY <2>2 DEF Tracked
    <3>3. QED
      BY <2>2, <3>1, <3>2, SentinelsAssumption
  <2>4. Aware'
    BY <2>2, <2>3 DEF Aware, Clean, IsOpen
  <2>5. QED
    BY <2>1, <2>4
<1>4. CASE ArmSent(o)
  <2>1. Lone' /\ OnlyLive(o)'
    BY <1>4, NothingLive, SentAlone DEF ArmSent
  <2>2. orders'[o].acked
    BY <1>4 DEF ArmSent, Answered, ArmedStops
  <2>3. /\ at' = "changed" /\ at = "find" /\ intent' = intent /\ ~IsOpen(intent)
        /\ pos' = pos /\ held' = held
        /\ upd \in Tracked /\ upd # NoPosition /\ upd' = WithStop(upd, o, Base)
        /\ Base \in 0..MaxLevel
    BY <1>4, <2>2, Typed DEF ArmSent, IInv, Handler, Clean
  <2>4. upd'.stop = o /\ ~upd'.exit
    <3>1. upd'.stop = o
      BY <2>3, Positions
    <3>2. WithStop(upd, o, Base).exit = upd.exit
      BY <2>3 DEF WithStop, Tracked
    <3>3. QED
      BY <2>3, <3>1, <3>2 DEF Aware
  <2>5. o # <<"close", 1>>
    BY <1>4 DEF ArmSent
  <2>6. orders'[<<"close", 1>>].st = orders[<<"close", 1>>].st
    BY <1>4, <2>5, Ids DEF ArmSent, OthersKept
  <2>7. Aware'
    BY <2>1, <2>3, <2>4, <2>6 DEF Aware, Clean, IsOpen
  <2>8. QED
    BY <2>1, <2>7
<1>5. CASE BrokerStep(o)
  <2>1. /\ orders[o].st = "working" /\ OthersKept(o)
        /\ UNCHANGED <<pos, intent, row, at, upd, rec>>
        /\ \/ orders'[o].st = "filled" /\ held' = held - 1
           \/ orders'[o].st = "dead" /\ held' = held
    BY <1>5 DEF BrokerStep, Becomes
  <2>2. ASSUME NEW q \in SellIds, orders'[q].st \in {"working", "filled"} PROVE Live(q)
    BY <2>1, <2>2 DEF Live, OthersKept
  <2>3. \A q \in SellIds : orders[q].st # "filled"
    BY <2>1 DEF Lone, Live
  <2>4. held = 1
    BY <2>3 DEF Lone
  <2>5. /\ \A x, y \in SellIds : Live(x)' /\ Live(y)' => x = y
        /\ (\E q \in SellIds : orders'[q].st = "filled") => held' = 0
        /\ (\A q \in SellIds : orders'[q].st # "filled") => held' = 1
    <3>1. \A x, y \in SellIds : Live(x)' /\ Live(y)' => x = y
      BY <2>2 DEF Lone, Live
    <3>2. CASE orders'[o].st = "filled" /\ held' = held - 1
      BY <2>4, <3>1, <3>2
    <3>3. CASE orders'[o].st = "dead" /\ held' = held
      BY <2>1, <2>3, <2>4, <3>1, <3>3 DEF OthersKept
    <3>4. QED
      BY <2>1, <3>2, <3>3
  <2>6. held' = 0 \/ held' = held
    BY <2>1, <2>4
  <2>7. \A x : OnlyLive(x) => \A q \in SellIds : orders'[q].st \in {"working", "filled"} => q = x
    BY <2>2 DEF OnlyLive
  <2>8. Expected' = Expected /\ IsOpen(intent)' = IsOpen(intent)
    BY <2>1 DEF Expected, Replacement, IsOpen
  <2>9. orders'[<<"close", 1>>].st # "none" => orders[<<"close", 1>>].st # "none"
    BY <2>1, Ids DEF OthersKept
  <2>10. /\ (pos = NoPosition => held' = 0)
         /\ (orders'[<<"close", 1>>].st # "none" => held' = 0 \/ (pos # NoPosition /\ pos.exit))
    BY <2>6, <2>9 DEF Aware
  <2>11. Aware'
    BY <2>1, <2>7, <2>8, <2>10 DEF Aware, OnlyLive, Live
  <2>12. QED
    BY <2>5, <2>11 DEF Lone
<1>6. QED
  BY <1>1, <1>2, <1>3, <1>4, <1>5

\* The book as it was, the primed properties in terms of it.
LEMMA SameBook ==
    ASSUME OrdersSame, UNCHANGED held
    PROVE  /\ Lone => Lone'
           /\ \A x : OnlyLive(x) =>
                 \A q \in SellIds : orders'[q].st \in {"working", "filled"} => q = x
           /\ orders'[<<"close", 1>>].st = orders[<<"close", 1>>].st
<1>1. \A q \in SellIds : orders'[q].st = orders[q].st
  BY DEF OrdersSame, Kept
<1>2. QED
  BY <1>1, Ids DEF Lone, OnlyLive, Live

\* Aware after a step that leaves the book as it was.
LEMMA AwareOf ==
    ASSUME OrdersSame, UNCHANGED held, Aware,
           pos' = NoPosition => held = 0,
           orders[<<"close", 1>>].st # "none" => held = 0 \/ (pos' # NoPosition /\ pos'.exit),
           pos' # NoPosition /\ pos'.exit => at' = "idle",
           upd' # NoPosition => ~upd'.exit,
           IsOpen(intent)' => OnlyLive(Expected'),
           ~IsOpen(intent)' /\ pos' # NoPosition /\ ~pos'.exit /\ at' \notin {"changed", "persist"} =>
              OnlyLive(pos'.stop),
           ~IsOpen(intent)' /\ at' \in Clean \cup {"persist"} => OnlyLive(upd'.stop),
           at' = "adopted" /\ pos' # NoPosition => OnlyLive(pos'.stop)
    PROVE  Aware'
BY SameBook DEF Aware, OnlyLive, Live

\* What reconciliation makes of the tracker.
LEMMA SoleReconciled ==
    ASSUME IInv, Lone, Aware, pos' \in Tracked \cup {NoPosition}, ReconciledTo(pos'),
           UNCHANGED <<orders, held, intent>>,
           UNCHANGED <<at, upd>> \/ (at' = "idle" /\ upd' = NoPosition)
    PROVE  Lone' /\ Aware'
<1>1. held \in {0, 1}
  BY DEF Lone
<1>2. pos' = NoPosition <=> held = 0
  BY <1>1 DEF ReconciledTo
<1>3. pos' # NoPosition => /\ pos' \in Tracked
                           /\ pos'.exit = (pos # NoPosition /\ pos.exit)
                           /\ \A q \in SellIds : orders[q].st # "filled"
  BY <1>1, <1>2 DEF ReconciledTo, Lone
<1>4. ASSUME pos' # NoPosition, ~pos'.exit PROVE OnlyLive(pos'.stop)
  <2>1. held = 1 /\ pos # NoPosition /\ ~pos.exit
    BY <1>1, <1>2, <1>3, <1>4 DEF Aware
  <2>2. orders[<<"close", 1>>].st = "none"
    BY <2>1 DEF Aware
  <2>3. ASSUME NEW q \in SellIds, Live(q) PROVE q \in WorkingStops
    <3>1. orders[q].st = "working" /\ q # <<"close", 1>>
      BY <1>3, <1>4, <2>2, <2>3 DEF Live
    <3>2. q[1] # "close"
      BY <3>1 DEF SellIds
    <3>3. QED
      BY <3>1, <3>2 DEF WorkingStops, WorkingSells
  <2>4. CASE WorkingStops = {}
    BY <2>3, <2>4 DEF OnlyLive
  <2>5. CASE WorkingStops # {}
    <3>1. PICK o \in WorkingStops : pos' = WithStop(pos', o, orders[o].px)
      BY <2>1, <2>5 DEF ReconciledTo
    <3>2. o \in SellIds /\ Live(o) /\ orders[o].px \in 0..MaxLevel
      BY Protections DEF WorkingStops, WorkingSells, Live, IInv
    <3>3. WithStop(pos', o, orders[o].px).stop = o
      BY <1>3, <1>4, <3>2, Positions
    <3>4. pos'.stop = o
      BY <3>1, <3>3
    <3>5. QED
      BY <3>2, <3>4 DEF OnlyLive, Lone
  <2>6. QED
    BY <2>4, <2>5
<1>5. OrdersSame /\ IsOpen(intent)' = IsOpen(intent) /\ Expected' = Expected
  BY DEF OrdersSame, Kept, IsOpen, Expected, Replacement
<1>6. pos' # NoPosition /\ pos'.exit => at' = "idle"
  BY <1>3 DEF Aware
<1>7. orders[<<"close", 1>>].st # "none" => held = 0 \/ (pos' # NoPosition /\ pos'.exit)
  BY <1>1, <1>2, <1>3 DEF Aware
<1>8. /\ upd' # NoPosition => ~upd'.exit
      /\ IsOpen(intent)' => OnlyLive(Expected')
      /\ ~IsOpen(intent)' /\ at' \in Clean \cup {"persist"} => OnlyLive(upd'.stop)
  BY <1>5 DEF Aware, Clean
<1>9. at' = "adopted" /\ pos' # NoPosition => OnlyLive(pos'.stop)
  BY <1>4, <1>6
<1>10. Aware'
  BY <1>2, <1>4, <1>5, <1>6, <1>7, <1>8, <1>9, AwareOf
<1>11. QED
  BY <1>5, <1>10, SameBook

\* The handler starts, goes on after a recovery, and ends.
LEMMA SoleAround ==
    ASSUME IInv, Lone, Aware, OrdersSame, UNCHANGED held,
           \/ \E w \in {"manage", "flat"} : BeginRecovery(w) \/ BeginClean(w)
           \/ AfterRecovery \/ ManageEnds \/ FindsProtection
           \/ \E outcome \in Outcomes : ArmsProtection(outcome)
           \/ Flat
    PROVE  Aware'
<1>1. ASSUME UNCHANGED intent
      PROVE  IsOpen(intent)' = IsOpen(intent) /\ Expected' = Expected
  BY <1>1 DEF IsOpen, Expected, Replacement
<1>2. ASSUME NEW w \in {"manage", "flat"}, BeginRecovery(w) PROVE Aware'
  <2>1. /\ pos # NoPosition /\ ~pos.exit /\ IsOpen(intent) /\ intent.stage \in Stages
        /\ at' = ResumeAt(intent.stage) /\ upd' = pos /\ intent' = intent /\ pos' = pos
    BY <1>2, OpenIntent, Typed DEF BeginRecovery, durable, IInv
  <2>2. at' # "adopted"
    BY <2>1, Resumes
  <2>3. QED
    BY <1>1, <2>1, <2>2, AwareOf DEF Aware
<1>3. ASSUME NEW w \in {"manage", "flat"}, BeginClean(w) PROVE Aware'
  <2>1. /\ pos # NoPosition /\ ~pos.exit /\ ~IsOpen(intent) /\ at = "idle"
        /\ at' \in {"protect", "find", "ratchet"} /\ upd' = pos /\ intent' = intent /\ pos' = pos
    BY <1>3 DEF BeginClean, FirstPlace, durable
  <2>2. OnlyLive(pos.stop)
    BY <2>1 DEF Aware
  <2>3. QED
    BY <1>1, <2>1, <2>2, AwareOf DEF Aware
<1>4. CASE AfterRecovery
  <2>1. at = "resume" /\ intent' = intent /\ pos' = pos
    BY <1>4 DEF AfterRecovery, durable
  <2>2. CASE pos = NoPosition \/ IsOpen(intent)
    <3>1. at' = "idle" /\ upd' = NoPosition
      BY <1>4, <2>2 DEF AfterRecovery, Returns
    <3>2. QED
      BY <1>1, <2>1, <2>2, <3>1, AwareOf DEF Aware, Clean
  <2>3. CASE ~(pos = NoPosition \/ IsOpen(intent))
    <3>1. at' \in {"protect", "find", "ratchet", "changed"} /\ upd' = pos
      BY <1>4, <2>3 DEF AfterRecovery, FirstPlace
    <3>2. ~pos.exit /\ OnlyLive(pos.stop)
      BY <2>1, <2>3 DEF Aware
    <3>3. QED
      BY <1>1, <2>1, <2>3, <3>1, <3>2, AwareOf DEF Aware
  <2>4. QED
    BY <2>2, <2>3
<1>5. CASE ManageEnds
  <2>1. /\ at \in {"ratchet", "changed", "persist"} /\ at' = "idle" /\ upd' = NoPosition
        /\ intent' = intent /\ pos' = IF at = "ratchet" THEN pos ELSE upd
        /\ upd # NoPosition
    BY <1>5 DEF ManageEnds, Returns, durable, IInv, Handler
  <2>2. /\ pos' = NoPosition => held = 0
        /\ pos # NoPosition => ~pos.exit
        /\ orders[<<"close", 1>>].st # "none" => held = 0
    BY <2>1 DEF Aware
  <2>3. ~IsOpen(intent) /\ pos' # NoPosition => OnlyLive(pos'.stop)
    BY <2>1, <2>2 DEF Aware, Clean
  <2>4. QED
    BY <1>1, <2>1, <2>2, <2>3, AwareOf DEF Aware, Clean
<1>6. CASE FindsProtection
  <2>1. at = "find" /\ WorkingStops # {}
    BY <1>6 DEF FindsProtection
  <2>2. QED
    BY <2>1, NothingLive DEF WorkingStops, WorkingSells, Live
<1>7. ASSUME NEW outcome \in Outcomes, ArmsProtection(outcome) PROVE Aware'
  <2>1. PICK o : o = <<"armed", Min(FreeArms)>>
    OBVIOUS
  <2>2. /\ at = "find" /\ intent' = intent /\ pos' = pos
        /\ \/ at' = "changed" /\ upd' = WithStop(upd, o, Base)
           \/ at' = "idle" /\ upd' = NoPosition
    BY <1>7, <2>1 DEF ArmsProtection, Returns, durable
  <2>3. /\ upd \in Tracked /\ ~upd.exit /\ ~IsOpen(intent) /\ upd # NoPosition
        /\ \A q \in SellIds : ~Live(q)
    BY <2>2, NothingLive, Typed DEF IInv, Handler, Clean, Aware
  <2>4. WithStop(upd, o, Base).exit = upd.exit
    BY <2>3 DEF WithStop, Tracked
  <2>5. \A x : OnlyLive(x)
    BY <2>3 DEF OnlyLive
  <2>6. QED
    BY <1>1, <2>2, <2>3, <2>4, <2>5, AwareOf DEF Aware
<1>8. CASE RequestRelease
  <2>1. /\ at = "protect" /\ at' \in {"close", "releasing"} /\ intent' = intent /\ pos' = pos
        /\ upd' = upd /\ ~IsOpen(intent)
    BY <1>8 DEF RequestRelease, Goto, durable, IInv, Handler, Clean
  <2>2. QED
    BY <1>1, <2>1, AwareOf DEF Aware, Clean
<1>9. ASSUME NEW canceled \in BOOLEAN, ReleaseReadback(canceled) PROVE Aware'
  <2>1. /\ at = "releasing" /\ intent' = intent /\ pos' = pos /\ ~IsOpen(intent)
        /\ upd \in Tracked /\ upd # NoPosition
        /\ CancelConfirmed(upd.stop, canceled)
    BY <1>9, Typed DEF ReleaseReadback, durable, IInv, Handler, Clean
  <2>2. CASE canceled
    <3>1. at' = "close" /\ upd' = Naked(upd) /\ orders[upd.stop].st = "dead"
      BY <1>9, <2>1, <2>2 DEF ReleaseReadback, CancelConfirmed
    <3>2. \A x : OnlyLive(x)
      BY <2>1, <3>1 DEF Aware, Clean, OnlyLive, Live
    <3>3. Naked(upd).exit = upd.exit
      BY <2>1 DEF Naked, WithStop, Tracked
    <3>4. QED
      BY <1>1, <2>1, <3>1, <3>2, <3>3, AwareOf DEF Aware
  <2>3. CASE ~canceled
    <3>1. at' = "idle" /\ upd' = NoPosition
      BY <1>9, <2>3 DEF ReleaseReadback, Returns
    <3>2. QED
      BY <1>1, <2>1, <3>1, AwareOf DEF Aware, Clean
  <2>4. QED
    BY <2>2, <2>3
<1>10. ASSUME NEW outcome \in Outcomes, SubmitClose(outcome) PROVE Aware'
  <2>1. /\ at = "close" /\ at' = "idle" /\ intent' = intent /\ upd' = NoPosition
        /\ pos' = [upd EXCEPT !.exit = TRUE] /\ upd \in Tracked /\ ~IsOpen(intent)
    BY <1>10, Typed DEF SubmitClose, Returns, durable, IInv, Handler, Clean
  <2>2. pos' # NoPosition /\ pos'.exit
    <3>1. [upd EXCEPT !.exit = TRUE] \in Tracked
      BY <2>1, Positions
    <3>2. [upd EXCEPT !.exit = TRUE].exit
      BY <2>1 DEF Tracked
    <3>3. QED
      BY <2>1, <3>1, <3>2, SentinelsAssumption
  <2>3. QED
    BY <1>1, <2>1, <2>2, AwareOf DEF Aware, Clean
<1>11. QED
  BY <1>2, <1>3, <1>4, <1>5, <1>6, <1>7, <1>8, <1>9, <1>10 DEF Flat

\* A sale during the handoff.
LEMMA SoleSold ==
    ASSUME IInv, Lone, Aware, at \in InHandoff, OrdersSame, UNCHANGED held,
           FilledDuringHandoff, NEW o \in SellIds, orders[o].st = "filled"
    PROVE  Aware'
<1>1. held = 0
  BY DEF Lone
<1>2. pos' = NoPosition /\ at' \in {"idle", "resume"} /\ (upd' = NoPosition \/ upd' = upd)
  BY Sells DEF IInv
<1>3. ~IsOpen(intent)'
  BY InTheHandoff, Sells, IntentMoves DEF IInv, TerminalStatuses
<1>4. QED
  BY <1>1, <1>2, <1>3, AwareOf DEF Aware, Clean

\* The intent stays open: about the same order, or with nothing live.
LEMMA SoleOpen ==
    ASSUME IInv, Lone, Aware, at \in InHandoff, OrdersSame, UNCHANGED <<held, pos>>,
           IsOpen(intent)', Expected' = Expected \/ \A x : OnlyLive(x),
           at' # "adopted", upd' \in Tracked, ~upd'.exit
    PROVE  Aware'
<1>1. IsOpen(intent) /\ at # "idle"
  BY InTheHandoff DEF InHandoff
<1>2. pos # NoPosition => ~pos.exit
  BY <1>1 DEF Aware
<1>3. OnlyLive(Expected')
  BY <1>1 DEF Aware
<1>4. QED
  BY <1>1, <1>2, <1>3, AwareOf DEF Aware

\* The handoff is left.
LEMMA SoleLeft ==
    ASSUME IInv, Lone, Aware, at \in InHandoff, OrdersSame, UNCHANGED <<held, pos>>,
           LeftUnproved,
           UNCHANGED intent \/ (Resolved("failed") /\ \A x : OnlyLive(x))
    PROVE  Aware'
<1>1. IsOpen(intent) /\ upd \in Tracked /\ upd # NoPosition /\ ~upd.exit /\ at # "idle"
  BY InTheHandoff DEF Aware, InHandoff
<1>2. Naked(upd).exit = upd.exit
  BY <1>1 DEF Naked, WithStop, Tracked
<1>3. /\ at' \in {"resume", "persist"} /\ upd' \in Tracked /\ ~upd'.exit
  BY <1>1, <1>2, Leaves DEF IInv
<1>4. CASE UNCHANGED intent
  BY <1>1, <1>3, <1>4, SoleOpen DEF IsOpen, Expected, Replacement
<1>5. CASE Resolved("failed") /\ \A x : OnlyLive(x)
  <2>1. ~IsOpen(intent)'
    BY <1>1, <1>5, IntentMoves DEF IInv, TerminalStatuses
  <2>2. QED
    BY <1>1, <1>3, <1>5, <2>1, AwareOf DEF Aware
<1>6. QED
  BY <1>4, <1>5

\* A stop is trusted again: the one the stage speaks of.
LEMMA SoleAdopted ==
    ASSUME IInv, Lone, Aware, at \in {"committed", "proof"}, OrdersSame, UNCHANGED held,
           NEW o \in SellIds, NEW px \in 0..MaxLevel, NEW status \in TerminalStatuses,
           Adopted(o, px, status), o = Expected
    PROVE  Aware'
<1>1. at \in InHandoff
  BY DEF InHandoff
<1>2. /\ IsOpen(intent) /\ upd \in Tracked /\ upd # NoPosition /\ ~upd.exit /\ at # "idle"
      /\ OnlyLive(o)
  BY <1>1, InTheHandoff DEF Aware, InHandoff
<1>3. WithStop(upd, o, px).exit = upd.exit
  BY <1>2 DEF WithStop, Tracked
<1>4. /\ \/ /\ at' = "adopted" /\ pos' = WithStop(upd, o, px) /\ upd' = upd /\ intent' = intent
         \/ /\ at' = "persist" /\ pos' = pos /\ upd' = WithStop(upd, o, px) /\ Resolved(status)
      /\ WithStop(upd, o, px) \in Tracked /\ WithStop(upd, o, px).stop = o
  BY <1>2, Adopts DEF IInv
<1>5. WithStop(upd, o, px) # NoPosition
  BY <1>4, SentinelsAssumption
<1>6. /\ orders[<<"close", 1>>].st # "none" => held = 0
      /\ pos # NoPosition => ~pos.exit
  BY <1>2 DEF Aware
<1>7. CASE at' = "adopted" /\ intent' = intent /\ pos' = WithStop(upd, o, px) /\ upd' = upd
  <2>1. IsOpen(intent)' /\ Expected' = Expected
    BY <1>2, <1>7 DEF IsOpen, Expected, Replacement
  <2>2. QED
    BY <1>2, <1>3, <1>4, <1>5, <1>6, <1>7, <2>1, AwareOf DEF Clean
<1>8. CASE at' = "persist" /\ pos' = pos /\ upd' = WithStop(upd, o, px) /\ Resolved(status)
  <2>1. ~IsOpen(intent)'
    BY <1>2, <1>8, IntentMoves DEF IInv
  <2>2. QED
    BY <1>2, <1>3, <1>4, <1>5, <1>6, <1>8, <2>1, AwareOf DEF Aware
<1>9. QED
  BY <1>4, <1>7, <1>8

\* The steps of the handoff that leave the book as it was.
LEMMA SoleInHandoff ==
    ASSUME IInv, Lone, Aware, OrdersSame, UNCHANGED held, Handoff
    PROVE  Aware'
<1>1. ASSUME at \in InHandoff
      PROVE  /\ IsOpen(intent) /\ intent # NoIntent /\ intent \in Ratchet
             /\ upd \in Tracked /\ upd # NoPosition /\ ~upd.exit
             /\ intent.prior \in SellIds /\ Replacement \in SellIds
             /\ intent.stop \in 0..MaxLevel /\ intent.priorStop \in 0..MaxLevel
             /\ intent.stage \in Late => intent.restore \in SellIds
             /\ OnlyLive(Expected)
  BY <1>1, InTheHandoff DEF Aware
<1>2. ASSUME NEW o \in SellIds, orders[o].st = "dead", OnlyLive(o) PROVE \A x : OnlyLive(x)
  BY <1>2 DEF OnlyLive, Live
<1>3. ASSUME at \in InHandoff, NEW stage \in Stages, Staged(stage), Goto("pending") \/ Goto("submit")
                \/ Goto("classify") \/ Goto("proof"), UNCHANGED pos,
             \/ \A x : OnlyLive(x)
             \/ {intent.stage, stage} \cap (Early \cup Late) = {}
             \/ {intent.stage, stage} \subseteq Late
      PROVE  Aware'
  <2>1. /\ IsOpen(intent)' /\ intent'.stage = stage /\ intent'.n = intent.n
        /\ intent'.prior = intent.prior /\ intent'.restore = intent.restore
        /\ at' # "adopted" /\ upd' = upd
    BY <1>1, <1>3, IntentMoves DEF IInv, Goto
  <2>2. Early \cap Late = {}
    BY DEF Early, Late
  <2>3. Expected' = Expected \/ \A x : OnlyLive(x)
    BY <1>3, <2>1, <2>2 DEF Expected, Replacement
  <2>4. QED
    BY <1>1, <1>3, <2>1, <2>3, SoleOpen
<1>4. ASSUME at \in InHandoff, UNCHANGED <<pos, intent>>, upd' = upd, at' # "adopted"
      PROVE  Aware'
  BY <1>1, <1>4, SoleOpen DEF IsOpen, Expected, Replacement
<1>5. /\ {"prior_stop_dead_zero_fill", "replacement_submit_pending",
          "replacement_submitted"} \subseteq Stages
      /\ {"prior_stop_dead_zero_fill", "replacement_submit_pending",
          "replacement_submitted"} \cap (Early \cup Late) = {}
      /\ {"restore_submit_pending", "restore_submitted"} \subseteq Stages \cap Late
      /\ {"confirmed", "failed"} \subseteq TerminalStatuses
  BY DEF Stages, Early, Late, TerminalStatuses
<1>6. ASSUME NEW l \in Levels, PrepareRatchet(l) PROVE Aware'
  <2>1. /\ ~IsOpen(intent) /\ IsOpen(intent)' /\ intent'.prior = upd.stop
        /\ intent'.stage \in Early /\ at' = "cancel" /\ upd' = upd /\ pos' = pos
        /\ at \in {"ratchet", "changed"}
    BY <1>6, Prepares DEF PrepareRatchet, Early
  <2>2. Expected' = upd.stop /\ OnlyLive(upd.stop)
    BY <2>1 DEF Expected, Aware, Clean
  <2>3. QED
    BY <2>1, <2>2, AwareOf DEF Aware, Clean
<1>7. ASSUME NEW outcome \in Readings, PriorReadback(outcome) PROVE Aware'
  <2>1. /\ at \in InHandoff /\ Classify(intent.prior, outcome) /\ Expected = intent.prior
    BY <1>7 DEF PriorReadback, InHandoff, IInv, Handler, AtStage, Expected
  <2>2. CASE outcome = "fill"
    <3>1. FilledDuringHandoff
      BY <1>7, <2>2 DEF PriorReadback
    <3>2. QED
      BY <1>1, <2>1, <2>2, <3>1, Readback, SoleSold
  <2>3. CASE outcome = "dead_zero_fill"
    <3>1. Staged("prior_stop_dead_zero_fill") /\ Goto("pending") /\ UNCHANGED pos
      BY <1>7, <2>3 DEF PriorReadback
    <3>2. \A x : OnlyLive(x)
      BY <1>1, <1>2, <2>1, <2>3, Readback
    <3>3. QED
      BY <1>3, <1>5, <2>1, <3>1, <3>2
  <2>4. CASE outcome \notin {"fill", "dead_zero_fill"}
    BY <1>4, <1>7, <2>1, <2>4 DEF PriorReadback, Goto, durable
  <2>5. QED
    BY <2>2, <2>3, <2>4
<1>8. ASSUME NEW canceled \in BOOLEAN, CancelReadback(canceled) PROVE Aware'
  <2>1. /\ at \in InHandoff /\ Expected = intent.prior /\ UNCHANGED pos
        /\ CancelConfirmed(intent.prior, canceled)
    BY <1>8 DEF CancelReadback, InHandoff, IInv, Handler, AtStage, Expected
  <2>2. CASE canceled
    <3>1. Staged("prior_stop_dead_zero_fill") /\ Goto("pending")
      BY <1>8, <2>2 DEF CancelReadback
    <3>2. orders[intent.prior].st = "dead"
      BY <2>1, <2>2 DEF CancelConfirmed
    <3>3. \A x : OnlyLive(x)
      BY <1>1, <1>2, <2>1, <3>2
    <3>4. QED
      BY <1>3, <1>5, <2>1, <3>1, <3>3
  <2>3. CASE ~canceled
    <3>1. LeftUnproved /\ UNCHANGED intent
      BY <1>8, <2>3 DEF CancelReadback
    <3>2. QED
      BY <2>1, <3>1, SoleLeft
  <2>4. QED
    BY <2>2, <2>3
<1>9. CASE RequestCancel
  BY <1>4, <1>9 DEF RequestCancel, Goto, durable, InHandoff
<1>10. CASE SubmitPending
  <2>1. /\ at \in InHandoff /\ intent.stage \notin Early \cup Late
        /\ Staged("replacement_submit_pending") /\ Goto("submit") /\ UNCHANGED pos
    BY <1>10 DEF SubmitPending, InHandoff, IInv, Handler, AtStage, Early, Late
  <2>2. QED
    BY <1>3, <1>5, <2>1
<1>11. ASSUME NEW outcome \in Outcomes, SubmitReplacement(outcome) \/ SubmitRestore(outcome)
       PROVE  Aware'
  BY <1>4, <1>11 DEF SubmitReplacement, SubmitRestore, Goto, durable, InHandoff
<1>12. CASE ReplacementPlaced
  <2>1. /\ at \in InHandoff /\ intent.stage \notin Early \cup Late
        /\ Staged("replacement_submitted") /\ Goto("classify") /\ UNCHANGED pos
    BY <1>12 DEF ReplacementPlaced, InHandoff, IInv, Handler, AtStage, Early, Late
  <2>2. QED
    BY <1>3, <1>5, <2>1
<1>13. ASSUME NEW outcome \in Readings, ReplacementReadback(outcome) PROVE Aware'
  <2>1. /\ at \in InHandoff /\ Classify(Replacement, outcome) /\ Expected = Replacement
    BY <1>13 DEF ReplacementReadback, InHandoff, IInv, Handler, AtStage, Expected, Early, Late
  <2>2. CASE outcome = "fill"
    <3>1. FilledDuringHandoff
      BY <1>13, <2>2 DEF ReplacementReadback
    <3>2. QED
      BY <1>1, <2>1, <2>2, <3>1, Readback, SoleSold
  <2>3. CASE outcome = "working"
    BY <1>4, <1>13, <2>1, <2>3 DEF ReplacementReadback, Goto
  <2>4. CASE outcome = "dead_zero_fill"
    <3> DEFINE r == <<"restore", intent.n>>
    <3>1. /\ intent' = WithHandoff(intent, "restore_submit_pending", r)
          /\ at' = "restore" /\ UNCHANGED <<pos, upd>>
      BY <1>13, <2>4 DEF ReplacementReadback, Goto
    <3>2. r \in SellIds \cup {NoOrder}
      BY <1>1, <2>1, Typed DEF IInv
    <3> HIDE DEF r
    <3>3. intent' \in Ratchet /\ intent'.status = intent.status
      <4>1. intent \in Ratchet /\ "restore_submit_pending" \in Stages
        BY <1>1, <1>5, <2>1
      <4>2. LET j == WithHandoff(intent, "restore_submit_pending", r)
            IN  j \in Ratchet /\ j.status = intent.status
        BY <3>2, <4>1, Intents
      <4>3. QED
        BY <3>1, <4>2
    <3>4. IsOpen(intent)'
      BY <1>1, <2>1, <3>3, SentinelsAssumption DEF IsOpen
    <3>5. \A x : OnlyLive(x)
      BY <1>1, <1>2, <2>1, <2>4, Readback
    <3>6. QED
      BY <1>1, <2>1, <3>1, <3>4, <3>5, SoleOpen
  <2>5. CASE outcome \notin {"fill", "working", "dead_zero_fill"}
    <3>1. LeftUnproved /\ UNCHANGED <<pos, intent>>
      BY <1>13, <2>5 DEF ReplacementReadback
    <3>2. QED
      BY <2>1, <3>1, SoleLeft
  <2>6. QED
    BY <2>2, <2>3, <2>4, <2>5
<1>14. CASE CommitReplacement
  <2>1. /\ at = "committed" /\ at \in InHandoff /\ Expected = Replacement
        /\ Adopted(Replacement, intent.stop, "confirmed")
    BY <1>14 DEF CommitReplacement, InHandoff, IInv, Handler, AtStage, Expected, Early, Late
  <2>2. QED
    BY <1>1, <1>5, <2>1, SoleAdopted
<1>15. CASE ResolveAdopted
  <2>1. at = "adopted" /\ at \in InHandoff /\ at' = "resume" /\ UNCHANGED <<pos, upd>>
    BY <1>15 DEF ResolveAdopted, Goto, InHandoff
  <2>2. ~IsOpen(intent)'
    BY <1>1, <1>5, <1>15, <2>1, IntentMoves DEF ResolveAdopted, IInv
  <2>3. QED
    BY <2>1, <2>2, AwareOf DEF Aware, Clean
<1>16. CASE RestorePlaced
  <2>1. /\ at \in InHandoff /\ intent.stage \in Late
        /\ Staged("restore_submitted") /\ Goto("proof") /\ UNCHANGED pos
    BY <1>16 DEF RestorePlaced, InHandoff, IInv, Handler, AtStage, Late
  <2>2. QED
    BY <1>3, <1>5, <2>1
<1>17. ASSUME NEW outcome \in Readings, RestoreReadback(outcome) PROVE Aware'
  <2>1. /\ at = "proof" /\ at \in InHandoff /\ Classify(intent.restore, outcome)
        /\ intent.stage \in Late /\ Expected = intent.restore
    BY <1>17 DEF RestoreReadback, InHandoff, IInv, Handler, AtStage, Expected, Early, Late
  <2>2. CASE outcome = "fill"
    <3>1. FilledDuringHandoff
      BY <1>17, <2>2 DEF RestoreReadback
    <3>2. QED
      BY <1>1, <2>1, <2>2, <3>1, Readback, SoleSold
  <2>3. CASE outcome = "working"
    <3>1. Adopted(intent.restore, intent.priorStop, "failed")
      BY <1>17, <2>3 DEF RestoreReadback
    <3>2. QED
      BY <1>1, <1>5, <2>1, <3>1, SoleAdopted
  <2>4. CASE outcome = "dead_zero_fill"
    <3>1. Resolved("failed") /\ LeftUnproved /\ UNCHANGED pos
      BY <1>17, <2>4 DEF RestoreReadback
    <3>2. \A x : OnlyLive(x)
      BY <1>1, <1>2, <2>1, <2>4, Readback
    <3>3. QED
      BY <2>1, <3>1, <3>2, SoleLeft
  <2>5. CASE outcome \notin {"fill", "working", "dead_zero_fill"}
    <3>1. LeftUnproved /\ UNCHANGED <<pos, intent>>
      BY <1>17, <2>5 DEF RestoreReadback
    <3>2. QED
      BY <2>1, <3>1, SoleLeft
  <2>6. QED
    BY <2>2, <2>3, <2>4, <2>5
<1>18. QED
  BY <1>6, <1>7, <1>8, <1>9, <1>10, <1>11, <1>12, <1>13, <1>14, <1>15, <1>16, <1>17 DEF Handoff

\* Every step keeps the one SELL order.
LEMMA SoleStep ==
    ASSUME IInv, Sole, [Next]_vars
    PROVE  Sole'
<1> SUFFICES ASSUME Answered' PROVE Lone' /\ Aware'
  BY DEF Sole
<1>1. Lone /\ Aware
  BY LostForGood DEF Sole
<1>2. ASSUME NEW o \in SellIds,
             ReplacementSent(o) \/ RestoreSent(o) \/ CloseSent(o) \/ ArmSent(o) \/ BrokerStep(o)
      PROVE  Lone' /\ Aware'
  BY <1>1, <1>2, Step, SoleSending
<1>3. CASE OrdersSame /\ UNCHANGED held
  <2>1. Lone'
    BY <1>1, <1>3, SameBook
  <2>2. CASE Handoff
    BY <1>1, <1>3, <2>1, <2>2, SoleInHandoff
  <2>3. CASE Manage \/ FlatStarts \/ Flat
    BY <1>1, <1>3, <2>1, <2>3, SoleAround DEF Manage, FlatStarts
  <2>4. CASE Reconcile
    BY <1>1, <2>4, SoleReconciled DEF Reconcile, broker, durable, handler
  <2>5. CASE CrashRestart
    BY <1>1, <2>5, SoleReconciled DEF CrashRestart, Returns, broker, durable
  <2>6. CASE \E o \in SellIds : Fill(o) \/ Dies(o)
    <3>1. PICK o \in SellIds : Becomes(o, "filled") \/ Becomes(o, "dead")
      BY <2>6, BrokerMoves DEF IInv, TypeOK
    <3>2. QED
      BY <1>3, <3>1 DEF Becomes, OrdersSame, Kept
  <2>7. CASE UNCHANGED vars
    <3>1. UNCHANGED <<intent, pos, at, upd>>
      BY <2>7 DEF vars, durable, handler
    <3>2. IsOpen(intent)' = IsOpen(intent) /\ Expected' = Expected
      BY <3>1 DEF IsOpen, Expected, Replacement
    <3>3. QED
      BY <1>1, <1>3, <2>1, <3>1, <3>2, AwareOf DEF Aware
  <2>8. QED
    BY <2>2, <2>3, <2>4, <2>5, <2>6, <2>7 DEF Next
<1>4. QED
  BY <1>2, <1>3, BookMoves

\* At first the only order is the entry's own stop, and the tracker names it.
LEMMA SoleStarts == Init => Sole
<1> SUFFICES ASSUME Init PROVE Lone /\ Aware
  BY DEF Sole
<1>1. PICK a : a = <<"armed", 1>>
  OBVIOUS
<1>2. /\ a \in SellIds /\ orders[a].st = "working"
      /\ \A o \in SellIds : o # a => orders[o].st = "none"
  BY <1>1, Ids DEF Init, Resting, Absent
<1>3. /\ held = 1 /\ intent = NoIntent /\ at = "idle" /\ upd = NoPosition
      /\ pos = [stop |-> a, px |-> Base, exit |-> FALSE]
  BY <1>1 DEF Init
<1>4. pos.stop = a /\ ~pos.exit
  BY <1>3
<1>5. pos # NoPosition
  <2>1. pos \in Tracked
    BY <1>2, <1>3, BoundsAssumption DEF Tracked, Base
  <2>2. QED
    BY <2>1, SentinelsAssumption
<1>6. orders[<<"close", 1>>].st = "none"
  BY <1>1, <1>2, Ids
<1>7. OnlyLive(a)
  BY <1>2 DEF OnlyLive, Live
<1>8. Lone
  BY <1>2, <1>3 DEF Lone, Live
<1>9. QED
  BY <1>3, <1>4, <1>5, <1>6, <1>7, <1>8 DEF Aware, IsOpen, Clean

\* AtMostOneSell: no two SELL orders compete for the contract and none
\* outlives it, unless the answer of an armed stop was lost.
THEOREM SellsNeverCompete == Spec => []AtMostOneSell
<1>1. IInv /\ Sole /\ [Next]_vars => Sole'
  BY SoleStep
<1>2. ASSUME Sole PROVE AtMostOneSell
  <2> SUFFICES ASSUME Answered PROVE Cardinality(WorkingSells) <= held
    BY DEF AtMostOneSell, Answered
  <2>1. Lone
    BY <1>2 DEF Sole
  <2>2. CASE WorkingSells = {}
    <3>1. Cardinality(WorkingSells) = 0
      BY <2>2, FS_EmptySet
    <3>2. held \in {0, 1}
      BY <2>1 DEF Lone
    <3>3. QED
      BY <3>1, <3>2
  <2>3. CASE WorkingSells # {}
    <3>1. PICK o : o \in WorkingSells
      BY <2>3
    <3>2. WorkingSells = {o}
      BY <2>1, <3>1 DEF WorkingSells, Lone, Live
    <3>3. Cardinality(WorkingSells) = 1
      BY <3>2, FS_Singleton
    <3>4. \A q \in SellIds : orders[q].st # "filled"
      BY <2>1, <3>1 DEF WorkingSells, Lone, Live
    <3>5. held = 1
      BY <2>1, <3>4 DEF Lone
    <3>6. QED
      BY <3>3, <3>5
  <2>4. QED
    BY <2>2, <2>3
<1>3. QED
  BY AlwaysIInv, SoleStarts, <1>1, <1>2, PTL DEF Spec
=============================================================================
