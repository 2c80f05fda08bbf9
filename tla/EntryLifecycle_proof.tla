------------------------ MODULE EntryLifecycle_proof ------------------------
(***************************************************************************)
(* Proofs about EntryLifecycle, for any number of trades, any quantity and *)
(* any number of faults and restarts.                                      *)
(***************************************************************************)
EXTENDS EntryLifecycle, TLAPS

\* The broker's side of a trade: its contracts are the fills of its two orders,
\* an order fills up to its size, and a replacement stands only beside a first
\* order that died without a fill.
Ledger ==
    \A t \in Trades :
        /\ held[t] = orders[t][1].filled + orders[t][2].filled
        /\ \A k \in OrderNumbers :
              /\ orders[t][k].filled <= orders[t][k].qty
              /\ orders[t][k].st = "working" => orders[t][k].filled < orders[t][k].qty
              /\ orders[t][k].st = "none" => orders[t][k].filled = 0
        /\ orders[t][2].st # "none" => SafeToReplaceOrClose(t, 1)

\* Where the entry coroutine is in the life of its trade's orders.
Attempt ==
    /\ pc = "idle" => T = 0
    /\ pc # "idle" =>
          /\ T \in Trades /\ plan.qty # 0 /\ cash[T] # "none"
          /\ IF K = 1 THEN orders[T][2].st = "none" ELSE SafeToReplaceOrClose(T, 1)
    /\ pc \in {"intent", "risk", "place"} => orders[T][K].st = "none"
    /\ pc \in {"reprice", "reprice_readback"} => K = 1
    /\ \A t \in Trades : cash[t] = "none" =>
          orders[t][1].st = "none" /\ orders[t][2].st = "none"

\* Whatever may still fill, or has, is on record under the number of an order.
Identity ==
    /\ \A t \in Trades : row[t].ord = 0 => ~Busy(t)
    /\ pc \notin {"idle", "intent", "no_fill"} => row[T].ord # 0

\* A portfolio is no newer than the account.
Snapshot ==
    rpc = "fetched" =>
        /\ snap \in [held : [Trades -> Nat], stops : [Trades -> Nat]]
        /\ \A t \in Trades : snap.held[t] <= held[t]

IInv == TypeOK /\ Ledger /\ Attempt /\ Identity /\ Snapshot

-----------------------------------------------------------------------------
\* Spending a fault, or none, leaves a number of faults.
LEMMA FaultyType ==
    ASSUME faults \in 0..Budget, NEW b \in BOOLEAN, Faulty(b)
    PROVE  faults' \in 0..Budget
BY SizesAssumption DEF Faulty

\* The shapes in which the actions write plans,
Plans == [trade : 0..MaxTrades, ord : OrderNumbers, qty : 0..Quantity]

\* one or two of whose fields an action updates.
LEMMA PlanShapes ==
    ASSUME NEW p \in Plans
    PROVE  /\ \A k \in OrderNumbers : [p EXCEPT !.ord = k] \in Plans
           /\ \A q \in 0..Quantity : [p EXCEPT !.qty = q] \in Plans
           /\ \A k \in OrderNumbers, q \in 0..Quantity :
                 [p EXCEPT !.ord = k, !.qty = q] \in Plans
<1>1. ASSUME NEW r \in Plans
      PROVE  /\ \A k \in OrderNumbers : [r EXCEPT !.ord = k] \in Plans
             /\ \A q \in 0..Quantity : [r EXCEPT !.qty = q] \in Plans
  BY DEF Plans
<1>2. ASSUME NEW k \in OrderNumbers, NEW q \in 0..Quantity
      PROVE  [p EXCEPT !.ord = k, !.qty = q] \in Plans
  <2>1. [p EXCEPT !.ord = k, !.qty = q] = [[p EXCEPT !.ord = k] EXCEPT !.qty = q]
    OBVIOUS
  <2>2. QED
    BY <1>1, <2>1
<1>3. QED
  BY <1>1, <1>2

\* The plan of a new entry, and none.
LEMMA NewPlans ==
    NoPlan \in Plans /\ \A t \in Trades : [trade |-> t, ord |-> 1, qty |-> Quantity] \in Plans
<1>1. Quantity \in 0..Quantity /\ 0 \in 0..Quantity /\ 0 \in 0..MaxTrades
  BY SizesAssumption
<1>2. 1 \in OrderNumbers /\ \A t \in Trades : t \in 0..MaxTrades
  BY SizesAssumption DEF OrderNumbers, Trades
<1>3. QED
  BY <1>1, <1>2 DEF Plans, NoPlan

\* The orders of the deployment,
Orders == [Trades -> [OrderNumbers -> Order]]

\* one of which an action updates.
LEMMA OrderShapes ==
    ASSUME NEW os \in Orders, NEW t \in Trades, NEW k \in OrderNumbers
    PROVE  /\ \A o \in Order : [os EXCEPT ![t][k] = o] \in Orders
           /\ \A st \in {"none", "working", "filled", "dead"} :
                 /\ [os EXCEPT ![t][k].st = st] \in Orders
                 /\ \A n \in 0..Quantity :
                       [os EXCEPT ![t][k].filled = n, ![t][k].st = st] \in Orders
           /\ \A b \in BOOLEAN : [os EXCEPT ![t][k].cxl = b] \in Orders
           /\ [os EXCEPT ![t][k].cxl = TRUE] \in Orders
<1>1. ASSUME NEW o \in Order PROVE [os EXCEPT ![t][k] = o] \in Orders
  BY DEF Orders
<1>2. ASSUME NEW o \in Order
      PROVE  /\ \A st \in {"none", "working", "filled", "dead"} :
                   [o EXCEPT !.st = st] \in Order
             /\ \A b \in BOOLEAN : [o EXCEPT !.cxl = b] \in Order
             /\ \A n \in 0..Quantity : [o EXCEPT !.filled = n] \in Order
  BY DEF Order
<1>3. os[t][k] \in Order
  BY DEF Orders
<1>4. ASSUME NEW st \in {"none", "working", "filled", "dead"}, NEW n \in 0..Quantity
      PROVE  [os EXCEPT ![t][k].filled = n, ![t][k].st = st] \in Orders
  <2>1. [os EXCEPT ![t][k].filled = n, ![t][k].st = st]
          = [os EXCEPT ![t][k] = [[os[t][k] EXCEPT !.filled = n] EXCEPT !.st = st]]
    BY DEF Orders
  <2>2. [[os[t][k] EXCEPT !.filled = n] EXCEPT !.st = st] \in Order
    BY <1>2, <1>3
  <2>3. QED
    BY <1>1, <2>1, <2>2
<1>5. ASSUME NEW st \in {"none", "working", "filled", "dead"}
      PROVE  [os EXCEPT ![t][k].st = st] \in Orders
  BY <1>1, <1>2, <1>3
<1>6. ASSUME NEW b \in BOOLEAN PROVE [os EXCEPT ![t][k].cxl = b] \in Orders
  BY <1>1, <1>2, <1>3
<1>7. QED
  BY <1>1, <1>4, <1>5, <1>6

\* A trade holds no more than the signal asked for, because only one of its
\* orders ever bought anything.
LEMMA HeldBound ==
    ASSUME TypeOK, Ledger, NEW t \in Trades
    PROVE  held[t] <= Quantity
<1>1. /\ orders[t][1] \in Order /\ orders[t][2] \in Order
      /\ 1 \in OrderNumbers /\ 2 \in OrderNumbers
  BY DEF TypeOK, OrderNumbers
<1>2. CASE orders[t][2].st = "none"
  BY <1>1, <1>2, SizesAssumption DEF Ledger, Order
<1>3. CASE orders[t][2].st # "none"
  BY <1>1, <1>3, SizesAssumption DEF Ledger, Order, SafeToReplaceOrClose
<1>4. QED
  BY <1>2, <1>3

\* Type correctness needs the rest of the invariant: the size of an order
\* bounds its fills, and a tracked position takes its quantity from a
\* portfolio and its order number from the trade record.
LEMMA TypeStep == IInv /\ [Next]_vars => TypeOK'
<1> SUFFICES ASSUME IInv, [Next]_vars PROVE TypeOK'
  OBVIOUS
<1> USE DEF IInv, TypeOK, T, K
<1>0. orders \in Orders /\ plan \in Plans
  BY DEF Orders, Plans
<1>1. ASSUME NEW t \in Trades, NEW k \in OrderNumbers, Fills(t, k)
      PROVE  TypeOK'
  <2>1. /\ orders[t][k].filled + 1 \in 0..Quantity
        /\ held[t] + 1 \in Nat
    BY <1>1, SizesAssumption DEF Fills, MayFill, Ledger, Order
  <2>2. orders' \in [Trades -> [OrderNumbers -> Order]]
    <3>1. PICK st \in {"none", "working", "filled", "dead"} :
             orders' = [orders EXCEPT ![t][k].filled = orders[t][k].filled + 1,
                                      ![t][k].st = st]
      BY <1>1 DEF Fills, MayFill
    <3>2. PICK n \in 0..Quantity : n = orders[t][k].filled + 1
      BY <2>1
    <3>3. orders' = [orders EXCEPT ![t][k].filled = n, ![t][k].st = st]
      BY <3>1, <3>2
    <3>4. t \in Trades /\ k \in OrderNumbers /\ orders \in Orders
          /\ st \in {"none", "working", "filled", "dead"} /\ n \in 0..Quantity
      BY <1>0, <1>1, <3>1, <3>2
    <3>5. [orders EXCEPT ![t][k].filled = n, ![t][k].st = st] \in Orders
      BY ONLY <3>4, OrderShapes
    <3>6. orders' \in Orders
      BY ONLY <3>3, <3>5
    <3>7. QED
      BY <3>6 DEF Orders
  <2>3. QED
    BY <1>1, <2>1, <2>2
       DEF Fills, disk, entry, pass, bounds
<1>2. ASSUME NEW t \in Trades, NEW k \in OrderNumbers, Dies(t, k)
      PROVE  TypeOK'
  <2>1. faults' \in 0..Budget
    BY <1>2, FaultyType DEF Dies, Order
  <2>2. orders' \in [Trades -> [OrderNumbers -> Order]]
    <3>1. orders' = [orders EXCEPT ![t][k].st = "dead"]
      BY <1>2 DEF Dies
    <3>2. orders' \in Orders
      BY <1>0, <3>1, OrderShapes
    <3>3. QED
      BY <3>2 DEF Orders
  <2>3. QED
    BY <1>2, <2>1, <2>2
       DEF Dies, disk, entry, pass, bounds
<1>3. ASSUME NEW t \in Trades, Begin(t) PROVE TypeOK'
  <2>1. plan' \in Plans
    BY <1>3, NewPlans DEF Begin
  <2>2. QED
    BY <1>3, <2>1 DEF Begin, Plans, Reservation, broker, pass, bounds
<1>4. CASE Entry
  <2>1. CASE PersistIntent
    <3>1. [status |-> "hold", ord |-> K, qty |-> plan.qty] \in Row
      BY DEF Row, OrderNumbers
    <3>2. row' \in [Trades -> Row]
      BY <2>1, <3>1 DEF PersistIntent
    <3>3. QED
      BY <2>1, <3>2 DEF PersistIntent, broker, pass, bounds
  <2>2. CASE ReserveRisk
    BY <2>2 DEF ReserveRisk, Attempt, Reservation, broker, pass, bounds
  <2>3. CASE Refused
    <3>1. faults' \in 0..Budget
      BY <2>3, FaultyType DEF Refused
    <3>2. T \in Trades
      BY <2>3 DEF Refused, Attempt
    <3>3. row' \in [Trades -> Row]
      <4>1. [status |-> "closed", ord |-> 0, qty |-> 0] \in Row
        BY SizesAssumption DEF Row
      <4>2. QED
        BY <2>3, <3>2, <4>1 DEF Refused, Unsubmitted
    <3>4. cash' \in [Trades -> Reservation] /\ risk' \in [Trades -> Reservation]
      BY <2>3, <3>2 DEF Refused, Unsubmitted, Reservation
    <3>5. plan' \in Plans /\ pc' \in {"idle", "no_fill"}
      BY <1>0, <2>3, PlanShapes, NewPlans
         DEF Refused, Unsubmitted, OrderNumbers
    <3>6. QED
      BY <2>3, <3>1, <3>3, <3>4, <3>5 DEF Refused, Plans, broker, pass
  <2>4. CASE \E u \in BOOLEAN : Place(u)
    <3> PICK u \in BOOLEAN : Place(u)
      BY <2>4
    <3>1. faults' \in 0..Budget
      BY FaultyType DEF Place
    <3>2. T \in Trades /\ plan.qty \in 1..Quantity
      BY SizesAssumption DEF Place, Attempt
    <3>3. orders' \in [Trades -> [OrderNumbers -> Order]]
      <4>1. [st |-> "working", qty |-> plan.qty, filled |-> 0, cxl |-> FALSE] \in Order
        BY <3>2, SizesAssumption DEF Order
      <4>2. QED
        BY <1>0, <3>2, <4>1, OrderShapes DEF Place, Orders
    <3>4. tracker' \in [Trades -> Position \cup {NoPosition}]
      <4>1. [src |-> "live_pending", qty |-> plan.qty, ord |-> K, stop |-> FALSE]
               \in Position
        BY <3>2 DEF Position
      <4>2. tracker' \in {tracker, [tracker EXCEPT ![T] =
               [src |-> "live_pending", qty |-> plan.qty, ord |-> K, stop |-> FALSE]]}
        BY DEF Place
      <4>3. QED
        BY <3>2, <4>1, <4>2
    <3>5. pc' \in {"hold", "placed"}
      BY DEF Place
    <3>6. QED
      BY <3>1, <3>3, <3>4, <3>5 DEF Place, disk, pass
  <2>5. CASE Register
    <3>1. [status |-> "pending", ord |-> K, qty |-> plan.qty] \in Row
      BY DEF Row, OrderNumbers
    <3>2. row' \in [Trades -> Row]
      BY <2>5, <3>1 DEF Register
    <3>3. QED
      BY <2>5, <3>2 DEF Register, broker, pass, bounds
  <2>6. CASE WaitFindsFill \/ ReadbackFindsFill
    <3>1. T \in Trades /\ FoundFilled
      BY <2>6 DEF WaitFindsFill, ReadbackFindsFill, Attempt
    <3>2. orders[T][K].filled \in 0..Quantity
      BY <3>1 DEF Order
    <3>3. plan' \in Plans
      BY <1>0, <3>1, <3>2, PlanShapes DEF FoundFilled
    <3>4. QED
      BY <2>6, <3>1, <3>3
         DEF Plans, FoundFilled, WaitFindsFill, ReadbackFindsFill, broker, disk, pass, bounds
  <2>7. CASE WaitFindsDead \/ WaitTimesOut
    BY <2>7 DEF WaitFindsDead, WaitTimesOut, broker, disk, pass, bounds
  <2>8. CASE RequestCancel
    <3>1. T \in Trades
      BY <2>8 DEF RequestCancel, Attempt
    <3>2. PICK arrives \in BOOLEAN :
             /\ Faulty(~arrives)
             /\ orders' = IF arrives
                          THEN [orders EXCEPT ![T][K].cxl = MayFill(T, K)]
                          ELSE orders
      BY <2>8 DEF RequestCancel
    <3>3. faults' \in 0..Budget
      BY <3>2, FaultyType
    <3>4. orders' \in [Trades -> [OrderNumbers -> Order]]
      <4>1. MayFill(T, K) \in BOOLEAN /\ K \in OrderNumbers
        BY DEF MayFill
      <4>2. orders' \in Orders
        <5>a. PICK t \in Trades, k \in OrderNumbers, b \in BOOLEAN :
                 t = T /\ k = K /\ b = MayFill(T, K)
          BY <3>1, <4>1
        <5>b. [orders EXCEPT ![t][k].cxl = b] \in Orders
          BY <1>0, OrderShapes
        <5>1. [orders EXCEPT ![T][K].cxl = MayFill(T, K)] \in Orders
          BY <5>a, <5>b
        <5>2. QED BY <1>0, <3>2, <5>1
      <4>3. QED
        BY <4>2 DEF Orders
    <3>5. pc' \in {"reprice_readback", "cancel_readback"}
      BY <2>8 DEF RequestCancel
    <3>6. QED
      BY <2>8, <3>3, <3>4, <3>5 DEF RequestCancel, disk, pass
  <2>9. CASE ReadbackFindsDead
    <3>1. T \in Trades
      BY <2>9 DEF ReadbackFindsDead, Attempt
    <3>2. plan' \in Plans /\ pc' \in {"no_fill", "intent"}
      <4>1. \A q \in 1..plan.qty : q \in 0..Quantity
        BY SizesAssumption
      <4>2. 2 \in OrderNumbers
        BY DEF OrderNumbers
      <4>3. \/ plan' = plan
            \/ \E q \in 0..Quantity : plan' = [plan EXCEPT !.ord = 2, !.qty = q]
        BY <2>9, <4>1 DEF ReadbackFindsDead
      <4>4. plan' \in Plans
        <5>1. CASE plan' = plan
          BY <1>0, <5>1
        <5>2. ASSUME NEW q \in 0..Quantity, plan' = [plan EXCEPT !.ord = 2, !.qty = q]
              PROVE  plan' \in Plans
          BY <1>0, <4>2, <5>2, PlanShapes
        <5>3. QED
          BY <4>3, <5>1, <5>2
      <4>5. QED
        BY <2>9, <4>4 DEF ReadbackFindsDead
    <3>3. cash' \in [Trades -> Reservation]
      BY <2>9, <3>1 DEF ReadbackFindsDead, Reservation
    <3>4. QED
      BY <2>9, <3>2, <3>3 DEF ReadbackFindsDead, Plans, broker, pass, bounds
  <2>10. CASE ReplacementUnfunded
    BY <2>10 DEF ReplacementUnfunded, Attempt, Reservation, broker, pass, bounds
  <2>11. CASE ReadbackUnconfirmed
    <3>1. faults' \in 0..Budget
      <4>1. Terminal(T, K) \in BOOLEAN
        BY DEF Terminal
      <4>2. QED
        BY <2>11, <4>1, FaultyType DEF ReadbackUnconfirmed
    <3>2. QED
      BY <2>11, <3>1 DEF ReadbackUnconfirmed, broker, disk, pass
  <2>12. CASE Hold
    <3>1. [status |-> "hold", ord |-> K, qty |-> plan.qty] \in Row
      BY DEF Row, OrderNumbers
    <3>2. row' \in [Trades -> Row] /\ plan' \in Plans
      BY <2>12, <3>1, NewPlans DEF Hold
    <3>3. QED
      BY <2>12, <3>2 DEF Hold, Plans, broker, pass, bounds
  <2>13. CASE CloseNoFill
    <3>1. T \in Trades
      BY <2>13 DEF CloseNoFill, Attempt
    <3>2. row' \in [Trades -> Row]
      <4>1. \A r \in Row : [r EXCEPT !.status = "closed"] \in Row
        BY DEF Row
      <4>2. QED BY <2>13, <3>1, <4>1 DEF CloseNoFill
    <3>3. plan' \in Plans
      BY <2>13, NewPlans DEF CloseNoFill
    <3>4. tracker' \in [Trades -> Position \cup {NoPosition}]
      BY <2>13, <3>1 DEF CloseNoFill
    <3>5. cash' \in [Trades -> Reservation] /\ risk' \in [Trades -> Reservation]
      BY <2>13, <3>1 DEF CloseNoFill, Reservation
    <3>6. QED
      BY <2>13, <3>2, <3>3, <3>4, <3>5 DEF CloseNoFill, Plans, broker, pass, bounds
  <2>14. CASE \E a \in BOOLEAN : ArmFirstStop(a)
    <3> PICK a \in BOOLEAN : ArmFirstStop(a)
      BY <2>14
    <3>1. faults' \in 0..Budget
      BY FaultyType DEF ArmFirstStop, StopFits
    <3>2. T \in Trades /\ plan.qty \in 1..Quantity
      BY SizesAssumption DEF ArmFirstStop, Attempt
    <3>3. tracker' \in [Trades -> Position \cup {NoPosition}]
      <4>1. [src |-> "live_open", qty |-> plan.qty, ord |-> K, stop |-> a] \in Position
        BY <3>2 DEF Position
      <4>2. QED
        BY <3>2, <4>1 DEF ArmFirstStop
    <3>4. stops' \in [Trades -> Nat]
      BY <3>2, SizesAssumption DEF ArmFirstStop
    <3>5. QED
      BY <3>1, <3>2, <3>3, <3>4 DEF ArmFirstStop, Reservation, pass
  <2>15. CASE RecordOpen
    <3>1. [status |-> "open", ord |-> K, qty |-> plan.qty] \in Row
      BY DEF Row, OrderNumbers
    <3>2. row' \in [Trades -> Row] /\ plan' \in Plans
      BY <2>15, <3>1, NewPlans DEF RecordOpen
    <3>3. risk' \in [Trades -> Reservation]
      BY <2>15 DEF RecordOpen, Reservation
    <3>4. QED
      BY <2>15, <3>2, <3>3 DEF RecordOpen, Plans, broker, pass, bounds
  <2>16. QED
    BY <1>4, <2>1, <2>2, <2>3, <2>4, <2>5, <2>6, <2>7, <2>8, <2>9, <2>10, <2>11,
       <2>12, <2>13, <2>14, <2>15 DEF Entry
<1>5. CASE Reconcile
  <2>1. CASE \E f \in BOOLEAN : Fetch(f)
    BY <2>1, FaultyType DEF Fetch, broker, disk, entry
  <2>2. CASE Merge
    <3>1. ASSUME NEW t \in Trades PROVE Reconciled(t) \in Position \cup {NoPosition}
      <4>1. CASE snap.held[t] = 0
        BY <4>1 DEF Reconciled
      <4>2. CASE snap.held[t] # 0
        <5>1. snap.held[t] \in Nat /\ snap.held[t] <= held[t]
          BY <2>2 DEF Merge, Snapshot
        <5>2. held[t] <= Quantity
          BY HeldBound
        <5>3. row[t].ord \in {1, 2}
          BY <4>2, <5>1 DEF Identity, Busy, Row
        <5>4. snap.held[t] \in 1..Quantity
          BY <4>2, <5>1, <5>2, SizesAssumption
        <5>5. QED
          BY <4>2, <5>3, <5>4 DEF Reconciled, Position, OrderNumbers
      <4>3. QED
        BY <4>1, <4>2
    <3>2. tracker' \in [Trades -> Position \cup {NoPosition}]
      BY <2>2, <3>1 DEF Merge
    <3>3. QED
      BY <2>2, <3>2 DEF Merge, broker, disk, entry
  <2>3. CASE \E unread \in SUBSET Trades : Resolve(unread)
    <3> PICK unread \in SUBSET Trades : Resolve(unread)
      BY <2>3
    <3>1. faults' \in 0..Budget
      BY FaultyType DEF Resolve
    <3>2. tracker' \in [Trades -> Position \cup {NoPosition}]
      <4>1. ASSUME NEW t \in Trades, Recovers(t), NEW b \in BOOLEAN
            PROVE  [src |-> "live_open", qty |-> orders[t][row[t].ord].filled,
                    ord |-> row[t].ord, stop |-> b] \in Position
        <5>1. row[t].ord \in OrderNumbers
          BY <4>1 DEF Recovers, Row, OrderNumbers
        <5>2. orders[t][row[t].ord].filled \in 1..Quantity
          BY <4>1, <5>1, SizesAssumption DEF Recovers, ConfirmedFill, Order
        <5>3. QED
          BY <5>1, <5>2 DEF Position
      <4>2. ASSUME NEW t \in Trades
            PROVE  tracker[t] # NoPosition => tracker[t].stop \in BOOLEAN
        BY DEF Position
      <4>3. QED
        BY <4>1, <4>2 DEF Resolve
    <3>3. row' \in [Trades -> Row]
      BY SMTT(40) DEF Resolve, Row
    <3>4. /\ cash' \in [Trades -> Reservation]
          /\ risk' \in [Trades -> Reservation]
          /\ kept' \in [Trades -> 0..Quantity]
      BY SizesAssumption DEF Resolve, Reservation, Row
    <3>5. /\ life' \in {"none", "pending", "hold", "open", "closed"}
          /\ lost' \in BOOLEAN /\ rpc' = "resolved"
      BY DEF Resolve
    <3>6. QED
      BY <3>1, <3>2, <3>3, <3>4, <3>5 DEF Resolve, broker, entry
  <2>4. CASE WriteTracked
    <3>1. row' \in [Trades -> Row]
      <4>1. ASSUME NEW t \in Trades, NEW q \in 0..Quantity,
                   NEW st \in {"hold", "open"}, tracker[t] # NoPosition
            PROVE  /\ [status |-> st, ord |-> tracker[t].ord, qty |-> q] \in Row
                   /\ tracker[t].qty \in 0..Quantity
        BY <4>1, SizesAssumption DEF Position, Row, OrderNumbers
      <4>2. ASSUME NEW t \in Trades PROVE row'[t] \in Row
        <5>1. CASE tracker[t] = NoPosition
          <6>1. row'[t] = row[t]
            BY <2>4, <5>1 DEF WriteTracked
          <6>2. QED
            BY <6>1
        <5>2. CASE tracker[t] # NoPosition /\ kept[t] > 0
          BY <2>4, <4>1, <5>2 DEF WriteTracked
        <5>3. CASE tracker[t] # NoPosition /\ ~(kept[t] > 0)
          BY <2>4, <4>1, <5>3 DEF WriteTracked
        <5>4. QED
          BY <5>1, <5>2, <5>3
      <4>3. row' = [t \in Trades |-> row'[t]]
        BY <2>4 DEF WriteTracked
      <4>4. QED
        BY <4>2, <4>3
    <3>2. QED
      BY <2>4, <3>1, SizesAssumption
         DEF WriteTracked, Reservation, broker, entry, bounds
  <2>5. ASSUME NEW t \in Trades, Sweep(t) PROVE TypeOK'
    <3>1. CASE Skipped(t)
      BY <2>5, <3>1 DEF Sweep, entry
    <3>2. CASE ~Skipped(t)
      <4>1. PICK canceled \in BOOLEAN, accepted \in BOOLEAN :
               Protected(t, tracker[t].qty, canceled, accepted)
        BY <2>5, <3>2 DEF Sweep
      <4>2. tracker[t] \in Position
        BY <3>2 DEF Skipped
      <4>3. faults' \in 0..Budget
        BY <4>1, FaultyType DEF Protected
      <4>4. stops' \in [Trades -> Nat]
        BY <4>1, <4>2, SizesAssumption DEF Protected, Position
      <4>5. tracker' \in [Trades -> Position \cup {NoPosition}]
        BY <4>1, <4>2 DEF Protected, Position
      <4>6. /\ row' \in [Trades -> Row]
            /\ life' \in {"none", "pending", "hold", "open", "closed"}
        <5>1. [status |-> "open", ord |-> tracker[t].ord, qty |-> tracker[t].qty] \in Row
          BY <4>2, SizesAssumption DEF Position, Row, OrderNumbers
        <5>2. QED
          BY <4>1, <5>1 DEF Protected
      <4>7. QED
        BY <2>5, <4>3, <4>4, <4>5, <4>6 DEF Sweep, entry
    <3>3. QED
      BY <3>1, <3>2
  <2>6. CASE PassEnds
    BY <2>6 DEF PassEnds, broker, disk, entry, bounds
  <2>7. QED
    BY <1>5, <2>1, <2>2, <2>3, <2>4, <2>5, <2>6 DEF Reconcile
<1>6. CASE Crash
  <2>1. plan' \in Plans
    BY <1>6, NewPlans DEF Crash
  <2>2. crashes' \in 0..Crashes /\ kept' \in [Trades -> 0..Quantity]
    BY <1>6, SizesAssumption DEF Crash
  <2>3. QED
    BY <1>6, <2>1, <2>2 DEF Crash, Plans, broker, disk
<1>7. ASSUME NEW t \in Trades, ForcedFlat(t) PROVE TypeOK'
  <2>1. tracker[t] \in Position
    BY <1>7 DEF ForcedFlat
  <2>2. orders' \in [Trades -> [OrderNumbers -> Order]]
    <3>1. tracker[t].ord \in OrderNumbers
      BY <2>1 DEF Position
    <3>2. QED
      <4>1. \/ orders' = orders
            \/ orders' = [orders EXCEPT ![t][tracker[t].ord].cxl = TRUE]
        BY <1>7 DEF ForcedFlat
      <4>2. orders' \in Orders
        <5>1. CASE orders' = orders
          BY <1>0, <5>1
        <5>2. CASE orders' = [orders EXCEPT ![t][tracker[t].ord].cxl = TRUE]
          <6>1. PICK k \in OrderNumbers : orders' = [orders EXCEPT ![t][k].cxl = TRUE]
            BY <3>1, <5>2
          <6>2. QED
            BY <1>0, <6>1, OrderShapes
        <5>3. QED
          BY <4>1, <5>1, <5>2
      <4>3. QED
        BY <4>2 DEF Orders
  <2>3. row' \in [Trades -> Row]
    <3>1. \A r \in Row : [r EXCEPT !.status = "closed"] \in Row
      BY DEF Row
    <3>2. row' = row \/ row' = [row EXCEPT ![t].status = "closed"]
      BY <1>7 DEF ForcedFlat
    <3>3. QED
      BY <3>1, <3>2
  <2>4. tracker' \in [Trades -> Position \cup {NoPosition}]
    BY <1>7 DEF ForcedFlat
  <2>5. life' \in {life, "closed"} /\ lost' \in BOOLEAN
    BY <1>7 DEF ForcedFlat
  <2>6. UNCHANGED <<held, stops, cash, risk, entry, pass, faults, crashes>>
    BY <1>7 DEF ForcedFlat
  <2>7. QED
    BY <2>2, <2>3, <2>4, <2>5, <2>6 DEF entry, pass
<1>8. CASE UNCHANGED vars
  BY <1>8 DEF vars, broker, disk, entry, pass, bounds
<1>9. QED
  BY <1>1, <1>2, <1>3, <1>4, <1>5, <1>6, <1>7, <1>8 DEF Next, Broker

-----------------------------------------------------------------------------
\* What a step does to an order and to the contracts of its trade.
Same(t, k) ==
    /\ orders'[t][k].st = orders[t][k].st
    /\ orders'[t][k].qty = orders[t][k].qty
    /\ orders'[t][k].filled = orders[t][k].filled
Bought(t, k) ==
    /\ orders[t][k].st = "working"
    /\ held'[t] = held[t] + 1
    /\ orders'[t][k].filled = orders[t][k].filled + 1
    /\ orders'[t][k].qty = orders[t][k].qty
    /\ orders'[t][k].st = IF orders[t][k].filled + 1 = orders[t][k].qty
                          THEN "filled" ELSE "working"
Died(t, k) ==
    /\ orders[t][k].st = "working"
    /\ held'[t] = held[t]
    /\ orders'[t][k].st = "dead"
    /\ orders'[t][k].qty = orders[t][k].qty
    /\ orders'[t][k].filled = orders[t][k].filled
Placed(t, k) ==
    /\ pc = "place" /\ T = t /\ K = k
    /\ pc' \in {"placed", "hold"} /\ UNCHANGED plan
    /\ held'[t] = held[t]
    /\ orders'[t][k].st = "working"
    /\ orders'[t][k].qty = plan.qty
    /\ orders'[t][k].filled = 0
Moved(t, k) ==
    /\ Bought(t, k) \/ Died(t, k) \/ Placed(t, k)
    /\ \A j \in OrderNumbers \ {k} : Same(t, j)
Still(t) == held'[t] = held[t] /\ \A k \in OrderNumbers : Same(t, k)

\* A step leaves the orders of a trade alone, or one of them buys a contract,
\* dies or is placed.
LEMMA OrderMoves ==
    ASSUME IInv, [Next]_vars, NEW t \in Trades
    PROVE  Still(t) \/ \E k \in OrderNumbers : Moved(t, k)
<1>0. orders \in Orders /\ held \in [Trades -> Nat] /\ plan \in Plans
  BY DEF IInv, TypeOK, Orders, Plans
<1>1. ASSUME UNCHANGED <<orders, held>> PROVE Still(t)
  BY <1>1 DEF Still, Same
<1>2. ASSUME NEW u \in Trades, NEW k \in OrderNumbers, Fills(u, k)
      PROVE  Still(t) \/ Moved(t, k)
  <2>1. CASE u # t
    <3>1. orders'[t] = orders[t] /\ held'[t] = held[t]
      BY <1>0, <1>2, <2>1 DEF Fills, Orders
    <3>2. QED
      BY <3>1 DEF Still, Same
  <2>2. CASE u = t
    <3> DEFINE o == orders[t][k]
               st == IF o.filled + 1 = o.qty THEN "filled" ELSE o.st
    <3>1. orders'[t][k] = [[o EXCEPT !.filled = o.filled + 1] EXCEPT !.st = st]
      BY <1>0, <1>2, <2>2 DEF Fills, Orders
    <3>2. /\ \A j \in OrderNumbers \ {k} : orders'[t][j] = orders[t][j]
          /\ held'[t] = held[t] + 1
          /\ o.st = "working"
          /\ o \in Order
      BY <1>0, <1>2, <2>2 DEF Fills, Orders, MayFill
    <3>3. Bought(t, k)
      BY <3>1, <3>2 DEF Bought, Order
    <3>4. QED
      BY <3>2, <3>3 DEF Moved, Same
  <2>3. QED
    BY <2>1, <2>2
<1>3. ASSUME NEW u \in Trades, NEW k \in OrderNumbers, Dies(u, k)
      PROVE  Still(t) \/ Moved(t, k)
  <2>1. CASE u # t
    <3>1. orders'[t] = orders[t] /\ held'[t] = held[t]
      BY <1>0, <1>3, <2>1 DEF Dies, Orders
    <3>2. QED
      BY <3>1 DEF Still, Same
  <2>2. CASE u = t
    <3>1. /\ orders'[t][k] = [orders[t][k] EXCEPT !.st = "dead"]
          /\ \A j \in OrderNumbers \ {k} : orders'[t][j] = orders[t][j]
          /\ held'[t] = held[t]
          /\ orders[t][k].st = "working"
          /\ orders[t][k] \in Order
      BY <1>0, <1>3, <2>2 DEF Dies, Orders, MayFill
    <3>2. Died(t, k)
      BY <3>1 DEF Died, Order
    <3>3. QED
      BY <3>1, <3>2 DEF Moved, Same
  <2>3. QED
    BY <2>1, <2>2
<1>4. ASSUME NEW b \in BOOLEAN, Place(b)
      PROVE  Still(t) \/ \E k \in OrderNumbers : Moved(t, k)
  <2>1. T \in Trades /\ K \in OrderNumbers
    BY <1>0, <1>4 DEF IInv, Attempt, Place, Plans, K
  <2>2. CASE orders' = orders
    BY <1>1, <1>4, <2>2 DEF Place
  <2>3. CASE orders' # orders
    <3>1. orders' = [orders EXCEPT ![T][K] = [st |-> "working", qty |-> plan.qty,
                                               filled |-> 0, cxl |-> FALSE]]
      BY <1>4, <2>3 DEF Place
    <3>2. CASE t # T
      <4>1. orders'[t] = orders[t] /\ held'[t] = held[t]
        BY <1>0, <1>4, <3>1, <3>2 DEF Place, Orders
      <4>2. QED
        BY <4>1 DEF Still, Same
    <3>3. CASE t = T
      <4>1. /\ orders'[t][K] = [st |-> "working", qty |-> plan.qty,
                                 filled |-> 0, cxl |-> FALSE]
            /\ \A j \in OrderNumbers \ {K} : orders'[t][j] = orders[t][j]
            /\ held'[t] = held[t]
        BY <1>0, <1>4, <2>1, <3>1, <3>3 DEF Place, Orders
      <4>2. Moved(t, K)
        BY <1>4, <3>3, <4>1 DEF Moved, Placed, Same, Place
      <4>3. QED
        BY <2>1, <4>2
    <3>4. QED
      BY <3>2, <3>3
  <2>4. QED
    BY <2>2, <2>3
\* A requested cancel is no change of the order's standing.
<1>5. ASSUME NEW u \in Trades, NEW k \in OrderNumbers, NEW b \in BOOLEAN,
             orders' = [orders EXCEPT ![u][k].cxl = b], held' = held
      PROVE  Still(t)
  <2>1. CASE u # t
    <3>1. orders'[t] = orders[t]
      BY <1>0, <1>5, <2>1 DEF Orders
    <3>2. QED
      BY <1>5, <3>1 DEF Still, Same
  <2>2. CASE u = t
    <3>1. /\ orders'[t][k] = [orders[t][k] EXCEPT !.cxl = b]
          /\ \A j \in OrderNumbers \ {k} : orders'[t][j] = orders[t][j]
          /\ orders[t][k] \in Order
      BY <1>0, <1>5, <2>2 DEF Orders
    <3>2. Same(t, k)
      BY <3>1 DEF Same, Order
    <3>3. QED
      BY <1>5, <3>1, <3>2 DEF Still, Same
  <2>3. QED
    BY <2>1, <2>2
<1>6. ASSUME RequestCancel PROVE Still(t)
  <2>1. T \in Trades /\ K \in OrderNumbers /\ MayFill(T, K) \in BOOLEAN
    BY <1>0, <1>6 DEF IInv, Attempt, RequestCancel, Plans, K, MayFill
  <2>2. /\ orders' = orders \/ orders' = [orders EXCEPT ![T][K].cxl = MayFill(T, K)]
        /\ held' = held
    BY <1>6 DEF RequestCancel
  <2>3. QED
    BY <1>1, <1>5, <2>1, <2>2
<1>7. ASSUME NEW u \in Trades, ForcedFlat(u) PROVE Still(t)
  <2>1. tracker[u].ord \in OrderNumbers
    BY <1>7 DEF IInv, TypeOK, ForcedFlat, Position
  <2>2. /\ orders' = orders \/ orders' = [orders EXCEPT ![u][tracker[u].ord].cxl = TRUE]
        /\ held' = held
    BY <1>7 DEF ForcedFlat
  <2>3. QED
    BY <1>1, <1>5, <2>1, <2>2
<1>8. ASSUME Entry, ~RequestCancel, \A b \in BOOLEAN : ~Place(b)
      PROVE  UNCHANGED <<orders, held>>
  BY <1>8 DEF Entry, PersistIntent, ReserveRisk, Refused, Register, WaitFindsFill,
     WaitFindsDead, WaitTimesOut, ReadbackFindsFill, ReadbackFindsDead,
     ReplacementUnfunded, ReadbackUnconfirmed, Hold, CloseNoFill, ArmFirstStop,
     RecordOpen, broker
<1>9. ASSUME Reconcile \/ Crash \/ (\E u \in Trades : Begin(u)) \/ UNCHANGED vars
      PROVE  UNCHANGED <<orders, held>>
  BY <1>9 DEF Reconcile, Fetch, Merge, Resolve, WriteTracked, Sweep, PassEnds, Crash,
     Begin, vars, broker
<1>10. QED
  BY <1>1, <1>2, <1>3, <1>4, <1>6, <1>7, <1>8, <1>9 DEF Next, Broker

\* The ledger adds up after every step.
LEMMA LedgerStep == IInv /\ [Next]_vars => Ledger'
<1> SUFFICES ASSUME IInv, [Next]_vars, NEW t \in Trades
             PROVE  /\ held'[t] = orders'[t][1].filled + orders'[t][2].filled
                    /\ \A k \in OrderNumbers :
                          /\ orders'[t][k].filled <= orders'[t][k].qty
                          /\ orders'[t][k].st = "working"
                                => orders'[t][k].filled < orders'[t][k].qty
                          /\ orders'[t][k].st = "none" => orders'[t][k].filled = 0
                    /\ orders'[t][2].st # "none" => SafeToReplaceOrClose(t, 1)'
  BY DEF Ledger
<1>1. /\ \A k \in OrderNumbers : /\ orders[t][k].filled \in Nat
                                 /\ orders[t][k].qty \in Nat
      /\ held[t] \in Nat /\ 1 \in OrderNumbers /\ 2 \in OrderNumbers
      /\ \A k \in OrderNumbers : k = 1 \/ k = 2
  BY SizesAssumption DEF IInv, TypeOK, Order, OrderNumbers
<1>2. /\ held[t] = orders[t][1].filled + orders[t][2].filled
      /\ \A k \in OrderNumbers :
            /\ orders[t][k].filled <= orders[t][k].qty
            /\ orders[t][k].st = "working" => orders[t][k].filled < orders[t][k].qty
            /\ orders[t][k].st = "none" => orders[t][k].filled = 0
      /\ orders[t][2].st # "none" => orders[t][1].st = "dead" /\ orders[t][1].filled = 0
  BY DEF IInv, Ledger, SafeToReplaceOrClose
<1> USE DEF SafeToReplaceOrClose
<1>3. CASE Still(t)
  BY <1>1, <1>2, <1>3 DEF Still, Same
<1>4. ASSUME NEW k \in OrderNumbers, Bought(t, k),
             \A j \in OrderNumbers \ {k} : Same(t, j)
      PROVE  /\ held'[t] = orders'[t][1].filled + orders'[t][2].filled
             /\ \A j \in OrderNumbers :
                   /\ orders'[t][j].filled <= orders'[t][j].qty
                   /\ orders'[t][j].st = "working"
                         => orders'[t][j].filled < orders'[t][j].qty
                   /\ orders'[t][j].st = "none" => orders'[t][j].filled = 0
             /\ orders'[t][2].st # "none" => SafeToReplaceOrClose(t, 1)'
  <2>1. CASE k = 1
    BY <1>1, <1>2, <1>4, <2>1 DEF Bought, Same
  <2>2. CASE k = 2
    BY <1>1, <1>2, <1>4, <2>2 DEF Bought, Same
  <2>3. QED
    BY <1>1, <2>1, <2>2
<1>5. ASSUME NEW k \in OrderNumbers, Died(t, k),
             \A j \in OrderNumbers \ {k} : Same(t, j)
      PROVE  /\ held'[t] = orders'[t][1].filled + orders'[t][2].filled
             /\ \A j \in OrderNumbers :
                   /\ orders'[t][j].filled <= orders'[t][j].qty
                   /\ orders'[t][j].st = "working"
                         => orders'[t][j].filled < orders'[t][j].qty
                   /\ orders'[t][j].st = "none" => orders'[t][j].filled = 0
             /\ orders'[t][2].st # "none" => SafeToReplaceOrClose(t, 1)'
  <2>1. CASE k = 1
    <3>1. Same(t, 2) /\ Died(t, 1)
      BY <1>1, <1>5, <2>1
    <3>2. /\ held'[t] = held[t]
          /\ \A j \in {1, 2} : orders'[t][j].filled = orders[t][j].filled
          /\ \A j \in {1, 2} : orders'[t][j].qty = orders[t][j].qty
          /\ orders[t][1].st = "working" /\ orders'[t][1].st = "dead"
          /\ orders'[t][2].st = orders[t][2].st
      BY <3>1 DEF Died, Same
    <3>3. QED
      BY <1>1, <1>2, <3>2
  <2>2. CASE k = 2
    <3>1. Same(t, 1) /\ Died(t, 2)
      BY <1>1, <1>5, <2>2
    <3>2. /\ held'[t] = held[t]
          /\ \A j \in {1, 2} : orders'[t][j].filled = orders[t][j].filled
          /\ \A j \in {1, 2} : orders'[t][j].qty = orders[t][j].qty
          /\ orders[t][2].st = "working" /\ orders'[t][2].st = "dead"
          /\ orders'[t][1].st = orders[t][1].st
      BY <3>1 DEF Died, Same
    <3>3. QED
      BY <1>1, <1>2, <3>2
  <2>3. QED
    BY <1>1, <2>1, <2>2
<1>6. ASSUME NEW k \in OrderNumbers, Placed(t, k),
             \A j \in OrderNumbers \ {k} : Same(t, j)
      PROVE  /\ held'[t] = orders'[t][1].filled + orders'[t][2].filled
             /\ \A j \in OrderNumbers :
                   /\ orders'[t][j].filled <= orders'[t][j].qty
                   /\ orders'[t][j].st = "working"
                         => orders'[t][j].filled < orders'[t][j].qty
                   /\ orders'[t][j].st = "none" => orders'[t][j].filled = 0
             /\ orders'[t][2].st # "none" => SafeToReplaceOrClose(t, 1)'
  <2>1. /\ orders[t][k].st = "none" /\ plan.qty \in Nat /\ plan.qty # 0
        /\ IF k = 1 THEN orders[t][2].st = "none" ELSE SafeToReplaceOrClose(t, 1)
    BY <1>6, SizesAssumption DEF Placed, IInv, Attempt, TypeOK
  <2>2. CASE k = 1
    BY <1>1, <1>2, <1>6, <2>1, <2>2 DEF Placed, Same
  <2>3. CASE k = 2
    BY <1>1, <1>2, <1>6, <2>1, <2>3 DEF Placed, Same
  <2>4. QED
    BY <1>1, <2>2, <2>3
<1>7. QED
  BY <1>3, <1>4, <1>5, <1>6, OrderMoves DEF Moved

-----------------------------------------------------------------------------
\* An order that is absent stays so until its placement, one that died
\* unfilled stays so for ever, contracts stay, and only a placement makes a
\* trade busy.
LEMMA OrdersStay ==
    ASSUME IInv, [Next]_vars, NEW t \in Trades
    PROVE  /\ \A k \in OrderNumbers :
                 /\ orders[t][k].st = "none" =>
                       orders'[t][k].st = "none" \/ Placed(t, k)
                 /\ orders'[t][k].st = "none" => orders[t][k].st = "none"
                 /\ SafeToReplaceOrClose(t, k) => SafeToReplaceOrClose(t, k)'
                 /\ orders[t][k].st # "none" => orders'[t][k].qty = orders[t][k].qty
           /\ held'[t] >= held[t]
           /\ Busy(t)' => Busy(t) \/ \E k \in OrderNumbers : Placed(t, k)
<1>1. /\ \A k \in OrderNumbers : orders[t][k].filled \in Nat
      /\ held[t] \in Nat
  BY SizesAssumption DEF IInv, TypeOK, Order
<1> USE DEF SafeToReplaceOrClose, Busy, MayFill
<1>2. CASE Still(t)
  BY <1>1, <1>2 DEF Still, Same
<1>3. ASSUME NEW k \in OrderNumbers, Moved(t, k), ~Placed(t, k)
      PROVE  /\ \A j \in OrderNumbers :
                   /\ orders[t][j].st = "none" => orders'[t][j].st = "none"
                   /\ orders'[t][j].st = "none" => orders[t][j].st = "none"
                   /\ SafeToReplaceOrClose(t, j) => SafeToReplaceOrClose(t, j)'
                   /\ orders[t][j].st # "none" => orders'[t][j].qty = orders[t][j].qty
             /\ held'[t] >= held[t]
             /\ Busy(t)' => Busy(t)
  BY <1>1, <1>3 DEF Moved, Bought, Died, Same
<1>4. ASSUME NEW k \in OrderNumbers, Moved(t, k), Placed(t, k)
      PROVE  /\ \A j \in OrderNumbers :
                   /\ orders[t][j].st = "none" =>
                         orders'[t][j].st = "none" \/ Placed(t, j)
                   /\ orders'[t][j].st = "none" => orders[t][j].st = "none"
                   /\ SafeToReplaceOrClose(t, j) => SafeToReplaceOrClose(t, j)'
                   /\ orders[t][j].st # "none" => orders'[t][j].qty = orders[t][j].qty
             /\ held'[t] >= held[t]
  <2>1. orders[t][k].st = "none"
    BY <1>4 DEF Placed, IInv, Attempt
  <2>2. \A j \in OrderNumbers \ {k} : Same(t, j)
    BY <1>4, <2>1 DEF Moved
  <2>3. held'[t] = held[t] /\ orders'[t][k].st = "working"
    BY <1>4 DEF Placed
  <2>4. QED
    BY <1>1, <1>4, <2>1, <2>2, <2>3 DEF Same
<1>5. QED
  BY <1>2, <1>3, <1>4, OrderMoves

\* A trade whose cash was once reserved is known for ever.
LEMMA CashStays ==
    ASSUME IInv, [Next]_vars, NEW t \in Trades
    PROVE  cash[t] # "none" => cash'[t] # "none"
<1>1. cash \in [Trades -> Reservation]
  BY DEF IInv, TypeOK
<1>2. CASE Entry
  BY <1>1, <1>2 DEF Entry, PersistIntent, ReserveRisk, Refused, Unsubmitted, Place,
     Register, WaitFindsFill, WaitFindsDead, WaitTimesOut, RequestCancel,
     ReadbackFindsFill, ReadbackFindsDead, ReplacementUnfunded, ReadbackUnconfirmed,
     Hold, CloseNoFill, ArmFirstStop, RecordOpen, disk
<1>3. CASE Reconcile
  BY <1>1, <1>3 DEF Reconcile, Fetch, Merge, Resolve, WriteTracked, Sweep, PassEnds,
     disk
<1>4. CASE \E u \in Trades : Begin(u)
  BY <1>1, <1>4 DEF Begin
<1>5. CASE Broker \/ Crash \/ (\E u \in Trades : ForcedFlat(u)) \/ UNCHANGED vars
  BY <1>5 DEF Broker, Fills, Dies, Crash, ForcedFlat, vars, disk
<1>6. QED
  BY <1>2, <1>3, <1>4, <1>5 DEF Next

\* The coroutine's position stays true of its trade's orders.
LEMMA AttemptStep == IInv /\ [Next]_vars => Attempt'
<1> SUFFICES ASSUME IInv, [Next]_vars PROVE Attempt'
  OBVIOUS
<1>0. /\ plan \in Plans
      /\ cash \in [Trades -> Reservation]
      /\ Attempt
      /\ 1 \in OrderNumbers /\ 2 \in OrderNumbers
      /\ \A k \in OrderNumbers : k = 1 \/ k = 2
      /\ 0 \notin Trades
  BY DEF IInv, TypeOK, Plans, OrderNumbers, Trades
<1>1. ASSUME NEW t \in Trades, cash'[t] = "none"
      PROVE  orders'[t][1].st = "none" /\ orders'[t][2].st = "none"
  <2>1. cash[t] = "none"
    BY <1>1, CashStays
  <2>2. orders[t][1].st = "none" /\ orders[t][2].st = "none"
    BY <1>0, <2>1 DEF Attempt
  <2>3. \A k \in OrderNumbers : ~Placed(t, k)
    BY <1>0, <2>1 DEF Attempt, Placed
  <2>4. QED
    BY <1>0, <2>2, <2>3, OrdersStay
\* What the coroutine knows of its orders, of which it placed none in this step.
<1> DEFINE Void(t, k) == orders'[t][k].st = "dead" /\ orders'[t][k].filled = 0
<1>2. ASSUME pc # "idle", pc' \notin {"placed", "hold"}
      PROVE  /\ T \in Trades /\ cash'[T] # "none" /\ plan.qty # 0
             /\ IF K = 1 THEN orders'[T][2].st = "none"
                         ELSE Void(T, 1)
             /\ pc \in {"intent", "risk", "place"} => orders'[T][K].st = "none"
             /\ \A k \in OrderNumbers :
                   SafeToReplaceOrClose(T, k) => Void(T, k)
  <2>1. T \in Trades /\ K \in OrderNumbers
    BY <1>0, <1>2 DEF Attempt, Plans, K
  <2>2. cash'[T] # "none"
    BY <1>0, <1>2, <2>1, CashStays DEF Attempt
  <2>3. \A k \in OrderNumbers : ~Placed(T, k)
    BY <1>2 DEF Placed
  <2>4. /\ \A k \in OrderNumbers :
              /\ orders[T][k].st = "none" => orders'[T][k].st = "none"
              /\ SafeToReplaceOrClose(T, k) => Void(T, k)
    BY <2>1, <2>3, OrdersStay DEF SafeToReplaceOrClose
  <2>5. QED
    BY <1>0, <1>2, <2>1, <2>2, <2>4 DEF Attempt
<1>3. ASSUME UNCHANGED <<pc, plan>>, pc \notin {"placed", "hold"} PROVE Attempt'
  <2>1. CASE pc = "idle"
    BY <1>0, <1>1, <1>3, <2>1 DEF Attempt, T
  <2>2. CASE pc # "idle"
    BY <1>0, <1>1, <1>2, <1>3, <2>2 DEF Attempt, T, K, SafeToReplaceOrClose
  <2>3. QED
    BY <2>1, <2>2
\* A step into or within the two places where the order may be at the broker.
<1>4. ASSUME UNCHANGED plan, pc # "idle", pc' \in {"placed", "hold"} PROVE Attempt'
  <2>1. T \in Trades /\ K \in OrderNumbers /\ T' = T /\ K' = K
    BY <1>0, <1>4 DEF Attempt, Plans, T, K
  <2>2. cash'[T] # "none" /\ plan.qty # 0
    BY <1>0, <1>4, <2>1, CashStays DEF Attempt
  <2>3. K = 1 => orders'[T][2].st = "none"
    BY <1>0, <1>4, <2>1, OrdersStay DEF Attempt, Placed
  <2>4. K # 1 => SafeToReplaceOrClose(T, 1)'
    BY <1>0, <1>4, <2>1, OrdersStay DEF Attempt
  <2>5. QED
    BY <1>1, <1>4, <2>1, <2>2, <2>3, <2>4 DEF Attempt, SafeToReplaceOrClose
<1>5. CASE Broker \/ Reconcile \/ (\E t \in Trades : ForcedFlat(t)) \/ UNCHANGED vars
  <2>1. UNCHANGED <<pc, plan>>
    BY <1>5 DEF Broker, Fills, Dies, Reconcile, Fetch, Merge, Resolve, WriteTracked,
       Sweep, PassEnds, ForcedFlat, vars, entry
  <2>2. QED
    BY <1>3, <1>4, <2>1
<1>6. CASE Crash
  BY <1>0, <1>1, <1>6 DEF Crash, Attempt, NoPlan, T
<1>7. ASSUME NEW t \in Trades, Begin(t) PROVE Attempt'
  <2>1. /\ pc' = "intent" /\ T' = t /\ K' = 1 /\ plan'.qty = Quantity
        /\ cash'[t] # "none" /\ orders' = orders
    BY <1>0, <1>7 DEF Begin, T, K, broker
  <2>2. cash[t] = "none"
    BY <1>7 DEF Begin, Trades
  <2>3. QED
    BY <1>0, <1>1, <2>1, <2>2, SizesAssumption DEF Attempt
<1>8. CASE Entry
  <2>0. pc # "idle"
    BY <1>8 DEF Entry, PersistIntent, ReserveRisk, Refused, Place, Register,
       WaitFindsFill, WaitFindsDead, WaitTimesOut, RequestCancel, ReadbackFindsFill,
       ReadbackFindsDead, ReplacementUnfunded, ReadbackUnconfirmed, Hold,
       CloseNoFill, ArmFirstStop, RecordOpen
  <2>1. CASE PersistIntent \/ ReserveRisk
    BY <1>0, <1>1, <1>2, <2>0, <2>1
       DEF PersistIntent, ReserveRisk, Attempt, T, K, SafeToReplaceOrClose
  <2>2. CASE Refused
    <3>1. CASE pc' = "idle"
      BY <1>0, <1>1, <2>2, <3>1 DEF Refused, Unsubmitted, Attempt, NoPlan, T
    <3>2. CASE pc' # "idle"
      <4>1. /\ pc' = "no_fill" /\ K = 2 /\ T' = T /\ K' = 1 /\ plan'.qty = plan.qty
            /\ pc \in {"intent", "risk", "place"}
        BY <1>0, <2>2, <3>2 DEF Refused, Unsubmitted, T, K, Plans
      <4>2. QED
        BY <1>1, <1>2, <2>0, <4>1 DEF Attempt
    <3>3. QED
      BY <3>1, <3>2
  <2>3. CASE \/ \E u \in BOOLEAN : Place(u)
             \/ ReadbackUnconfirmed
    BY <1>4, <2>0, <2>3 DEF Place, ReadbackUnconfirmed
  <2>4. CASE \/ Register \/ WaitFindsDead \/ RequestCancel \/ ReplacementUnfunded
             \/ \E a \in BOOLEAN : ArmFirstStop(a)
    <3>1. /\ UNCHANGED plan
          /\ pc' \in {"wait", "no_fill", "reprice_readback", "cancel_readback", "armed"}
          /\ pc' = "reprice_readback" => pc = "reprice"
      BY <2>4 DEF Register, WaitFindsDead, RequestCancel, ReplacementUnfunded,
                  ArmFirstStop
    <3>2. QED
      BY <1>0, <1>1, <1>2, <2>0, <3>1 DEF Attempt, T, K, SafeToReplaceOrClose
  <2>5. CASE WaitTimesOut
    <3>1. CASE pc' = "hold"
      BY <1>4, <2>0, <2>5, <3>1 DEF WaitTimesOut
    <3>2. CASE pc' # "hold"
      BY <1>0, <1>1, <1>2, <2>0, <2>5, <3>2
         DEF WaitTimesOut, Attempt, T, K, SafeToReplaceOrClose
    <3>3. QED
      BY <3>1, <3>2
  <2>6. CASE WaitFindsFill \/ ReadbackFindsFill
    <3>1. FoundFilled /\ T \in Trades /\ K \in OrderNumbers
      BY <1>0, <2>0, <2>6 DEF WaitFindsFill, ReadbackFindsFill, Attempt, Plans, K
    <3>2. /\ pc' = "filled" /\ T' = T /\ K' = K
          /\ plan'.qty = orders[T][K].filled
      BY <1>0, <3>1 DEF FoundFilled, Plans, T, K
    <3>3. plan'.qty # 0
      BY <3>1, <3>2 DEF FoundFilled, ConfirmedFill
    <3>4. QED
      BY <1>1, <1>2, <2>0, <3>2, <3>3 DEF Attempt, SafeToReplaceOrClose
  <2>7. CASE ReadbackFindsDead
    <3>1. CASE pc = "cancel_readback"
      BY <1>0, <1>1, <1>2, <2>0, <2>7, <3>1
         DEF ReadbackFindsDead, Attempt, T, K, SafeToReplaceOrClose
    <3>2. CASE pc = "reprice_readback"
      <4>1. /\ K = 1 /\ pc' = "intent"
            /\ SafeToReplaceOrClose(T, 1)
        BY <1>0, <2>7, <3>2 DEF ReadbackFindsDead, Attempt
      <4>2. PICK q \in 1..plan.qty : plan' = [plan EXCEPT !.ord = 2, !.qty = q]
        BY <2>7, <3>2 DEF ReadbackFindsDead
      <4>3. T' = T /\ K' = 2 /\ plan'.qty = q
        BY <1>0, <4>2 DEF T, K, Plans
      <4>4. /\ T \in Trades /\ cash'[T] # "none"
            /\ orders'[T][2].st = "none" /\ Void(T, 1)
        BY <1>0, <1>2, <2>0, <4>1
      <4>5. QED
        BY <1>1, <4>1, <4>3, <4>4, SizesAssumption DEF Attempt, SafeToReplaceOrClose
    <3>3. QED
      BY <2>7, <3>1, <3>2 DEF ReadbackFindsDead
  <2>8. CASE Hold \/ CloseNoFill \/ RecordOpen
    BY <1>0, <1>1, <2>8 DEF Hold, CloseNoFill, RecordOpen, Attempt, NoPlan, T
  <2>9. QED
    BY <1>8, <2>1, <2>2, <2>3, <2>4, <2>5, <2>6, <2>7, <2>8 DEF Entry
<1>9. QED
  BY <1>5, <1>6, <1>7, <1>8 DEF Next

\* Only a refused entry takes the order number off its record.
LEMMA RowOrders ==
    ASSUME IInv, [Next]_vars, NEW t \in Trades
    PROVE  row'[t].ord = row[t].ord \/ row'[t].ord # 0 \/ (T = t /\ Refused)
<1>0. /\ row \in [Trades -> Row]
      /\ K \in OrderNumbers /\ 0 \notin OrderNumbers
      /\ \A u \in Trades : tracker[u] # NoPosition => tracker[u].ord \in OrderNumbers
  BY DEF IInv, TypeOK, OrderNumbers, K, Position
<1>1. ASSUME NEW r \in Row PROVE [r EXCEPT !.status = "closed"].ord = r.ord
  BY DEF Row
<1>2. CASE Entry
  <2>1. CASE CloseNoFill
    <3>1. row' = [row EXCEPT ![T] = [row[T] EXCEPT !.status = "closed"]]
      BY <2>1 DEF CloseNoFill
    <3>2. row'[t] = row[t] \/ row'[t] = [row[t] EXCEPT !.status = "closed"]
      BY <1>0, <3>1
    <3>3. QED
      BY <1>0, <1>1, <3>2
  <2>2. CASE PersistIntent \/ Register \/ Hold \/ RecordOpen
    BY <1>0, <2>2 DEF PersistIntent, Register, Hold, RecordOpen
  <2>3. CASE Refused
    BY <1>0, <2>3 DEF Refused, Unsubmitted
  <2>4. QED
    BY <1>2, <2>1, <2>2, <2>3 DEF Entry, ReserveRisk, Place, WaitFindsFill,
       WaitFindsDead, WaitTimesOut, RequestCancel, ReadbackFindsFill,
       ReadbackFindsDead, ReplacementUnfunded, ReadbackUnconfirmed, ArmFirstStop, disk
<1>3. CASE \E unread \in SUBSET Trades : Resolve(unread)
  <2>1. row'[t] = row[t] \/ row'[t] = [row[t] EXCEPT !.status = "closed"]
    BY <1>3 DEF Resolve
  <2>2. QED
    BY <1>0, <1>1, <2>1
<1>4. CASE WriteTracked
  BY <1>0, <1>4 DEF WriteTracked
<1>5. ASSUME NEW u \in Trades, Sweep(u)
      PROVE  row'[t].ord = row[t].ord \/ row'[t].ord # 0
  <2>1. CASE Skipped(u)
    BY <1>5, <2>1 DEF Sweep
  <2>2. CASE ~Skipped(u)
    <3>1. \/ row' = row
          \/ row' = [row EXCEPT ![u] = [status |-> "open", ord |-> tracker[u].ord,
                                        qty |-> tracker[u].qty]]
      BY <1>5, <2>2 DEF Sweep, Protected
    <3>2. tracker[u].ord # 0
      BY <1>0, <2>2 DEF Skipped
    <3>3. QED
      BY <1>0, <3>1, <3>2
  <2>3. QED
    BY <2>1, <2>2
<1>6. ASSUME NEW u \in Trades, ForcedFlat(u) PROVE row'[t].ord = row[t].ord
  <2>1. row'[t] = row[t] \/ row'[t] = [row[t] EXCEPT !.status = "closed"]
    BY <1>0, <1>6 DEF ForcedFlat
  <2>2. QED
    BY <1>0, <1>1, <2>1
<1>7. QED
  BY <1>2, <1>3, <1>4, <1>5, <1>6
     DEF Next, Broker, Fills, Dies, Begin, Reconcile, Fetch, Merge, PassEnds, Crash,
         vars, disk

\* A trade all of whose orders are absent, or died unfilled, is not busy.
LEMMA NotBusy ==
    ASSUME TypeOK, Ledger, NEW t \in Trades,
           \A k \in OrderNumbers :
              orders[t][k].st = "none" \/ SafeToReplaceOrClose(t, k)
    PROVE  ~Busy(t)
<1>1. /\ 1 \in OrderNumbers /\ 2 \in OrderNumbers
      /\ \A k \in OrderNumbers : orders[t][k].filled = 0 /\ orders[t][k].st # "working"
  BY DEF Ledger, SafeToReplaceOrClose, OrderNumbers
<1>2. held[t] = 0
  BY <1>1 DEF Ledger
<1>3. QED
  BY <1>1, <1>2 DEF Busy, MayFill

\* Between the intent and the placement the coroutine's trade is not busy.
LEMMA BeforePlacing ==
    ASSUME IInv, pc \in {"intent", "risk", "place"}
    PROVE  ~Busy(T)
<1>1. T \in Trades /\ \A k \in OrderNumbers : k = 1 \/ k = 2
  BY DEF IInv, Attempt, OrderNumbers
<1>2. \A k \in OrderNumbers : orders[T][k].st = "none" \/ SafeToReplaceOrClose(T, k)
  BY <1>1 DEF IInv, Attempt, TypeOK, K, OrderNumbers
<1>3. QED
  BY <1>1, <1>2, NotBusy DEF IInv

\* What may fill stays on record.
LEMMA IdentityStep == IInv /\ [Next]_vars => Identity'
<1> SUFFICES ASSUME IInv, [Next]_vars PROVE Identity'
  OBVIOUS
<1>1. ASSUME NEW t \in Trades, row'[t].ord = 0 PROVE ~Busy(t)'
  <2>1. CASE row[t].ord = 0
    <3>1. ~Busy(t)
      BY <2>1 DEF IInv, Identity
    <3>2. \A k \in OrderNumbers : ~Placed(t, k)
      BY <2>1 DEF Placed, IInv, Identity
    <3>3. QED
      BY <3>1, <3>2, OrdersStay
  <2>2. CASE T = t /\ Refused
    <3>1. ~Busy(t)
      BY <2>2, BeforePlacing DEF Refused
    <3>2. QED
      BY <2>2, <3>1 DEF Refused, broker, Busy, MayFill
  <2>3. QED
    BY <1>1, <2>1, <2>2, RowOrders
<1>2. ASSUME pc' \notin {"idle", "intent", "no_fill"} PROVE row'[T'].ord # 0
  <2>1. CASE UNCHANGED plan /\ pc \notin {"idle", "intent", "no_fill"}
    <3>1. T' = T /\ T \in Trades /\ row[T].ord # 0
      BY <2>1 DEF T, IInv, Attempt, Identity
    <3>2. ~Refused
      BY <1>2 DEF Refused, Unsubmitted
    <3>3. QED
      BY <3>1, <3>2, RowOrders
  <2>2. CASE WaitFindsFill \/ ReadbackFindsFill
    <3>1. T' = T /\ T \in Trades /\ row[T].ord # 0 /\ row' = row
      BY <2>2 DEF WaitFindsFill, ReadbackFindsFill, FoundFilled, T, IInv, Attempt,
                  Identity, TypeOK, disk
    <3>2. QED
      BY <3>1
  <2>3. CASE PersistIntent
    <3>1. T' = T /\ T \in Trades /\ K \in OrderNumbers /\ 0 \notin OrderNumbers
      BY <2>3 DEF PersistIntent, T, K, IInv, Attempt, TypeOK, OrderNumbers
    <3>2. QED
      BY <2>3, <3>1 DEF PersistIntent, IInv, TypeOK
  <2>4. CASE Entry
    BY <1>2, <2>1, <2>2, <2>3, <2>4
       DEF Entry, ReserveRisk, Refused, Unsubmitted, Place, Register, WaitFindsDead,
           WaitTimesOut, RequestCancel, ReadbackFindsDead, ReplacementUnfunded,
           ReadbackUnconfirmed, Hold, CloseNoFill, ArmFirstStop, RecordOpen
  <2>5. CASE Broker \/ Reconcile \/ (\E t \in Trades : ForcedFlat(t)) \/ UNCHANGED vars
    <3>1. UNCHANGED <<pc, plan>>
      BY <2>5 DEF Broker, Fills, Dies, Reconcile, Fetch, Merge, Resolve, WriteTracked,
         Sweep, PassEnds, ForcedFlat, vars, entry
    <3>2. QED
      BY <1>2, <2>1, <3>1
  <2>6. QED
    BY <1>2, <2>4, <2>5 DEF Next, Begin, Crash
<1>3. QED
  BY <1>1, <1>2 DEF Identity

\* The portfolio in hand is still no newer than the account.
LEMMA SnapshotStep == IInv /\ [Next]_vars => Snapshot'
<1> SUFFICES ASSUME IInv, [Next]_vars, rpc' = "fetched"
             PROVE  /\ snap' \in [held : [Trades -> Nat], stops : [Trades -> Nat]]
                    /\ \A t \in Trades : snap'.held[t] <= held'[t]
  BY DEF Snapshot
<1>0. /\ held \in [Trades -> Nat] /\ stops \in [Trades -> Nat]
      /\ held' \in [Trades -> Nat]
  BY TypeStep DEF IInv, TypeOK
<1>1. CASE rpc = "fetched" /\ snap' = snap
  BY <1>0, <1>1, OrdersStay DEF IInv, Snapshot
<1>2. CASE \E f \in BOOLEAN : Fetch(f)
  <2>1. CASE rpc' = rpc
    BY <1>2, <2>1 DEF Fetch
  <2>2. CASE rpc' # rpc
    <3>1. snap' = [held |-> held, stops |-> stops] /\ held' = held
      BY <1>2, <2>2 DEF Fetch, broker
    <3>2. QED
      BY <1>0, <3>1
  <2>3. QED
    BY <2>1, <2>2
<1>3. QED
  BY <1>1, <1>2
     DEF Next, Broker, Fills, Dies, Begin, Entry, PersistIntent, ReserveRisk, Refused,
         Place, Register, WaitFindsFill, WaitFindsDead, WaitTimesOut, RequestCancel,
         ReadbackFindsFill, ReadbackFindsDead, ReplacementUnfunded,
         ReadbackUnconfirmed, Hold, CloseNoFill, ArmFirstStop, RecordOpen, Reconcile,
         Merge, Resolve, WriteTracked, Sweep, PassEnds, Crash, ForcedFlat, vars, pass

\* Types, ledger, coroutine, records and portfolio are inductive together.
LEMMA InductiveInvariant == Spec => []IInv
<1>1. Init => IInv
  <2> SUFFICES ASSUME Init PROVE IInv
    OBVIOUS
  <2>1. /\ orders \in [Trades -> [OrderNumbers -> Order]]
        /\ \A t \in Trades, k \in OrderNumbers : orders[t][k] = NoOrder
    BY SizesAssumption DEF Init, NoOrder, Order
  <2>2. row \in [Trades -> Row]
    BY SizesAssumption DEF Init, NoRow, Row
  <2>3. plan \in [trade : 0..MaxTrades, ord : OrderNumbers, qty : 0..Quantity]
    BY NewPlans DEF Init, Plans
  <2>4. TypeOK
    <3>1. /\ 0 \in 0..Quantity /\ Budget \in 0..Budget /\ Crashes \in 0..Crashes
          /\ 0 \in Nat
      BY SizesAssumption
    <3>2. /\ held \in [Trades -> Nat] /\ stops \in [Trades -> Nat]
          /\ kept \in [Trades -> 0..Quantity]
          /\ cash \in [Trades -> Reservation] /\ risk \in [Trades -> Reservation]
          /\ tracker \in [Trades -> Position \cup {NoPosition}]
      BY <3>1 DEF Init, Reservation
    <3>3. QED
      BY <2>1, <2>2, <2>3, <3>1, <3>2 DEF Init, TypeOK
  <2>5. 1 \in OrderNumbers /\ 2 \in OrderNumbers
    BY DEF OrderNumbers
  <2>6. Ledger
    BY <2>1, <2>5 DEF Init, Ledger, NoOrder
  <2>7. Attempt /\ Identity /\ Snapshot
    BY <2>1, <2>5 DEF Init, Attempt, Identity, Snapshot, Busy, MayFill, NoOrder,
                      NoPlan, T
  <2>8. QED
    BY <2>4, <2>6, <2>7 DEF IInv
<1>2. IInv /\ [Next]_vars => IInv'
  BY TypeStep, LedgerStep, AttemptStep, IdentityStep, SnapshotStep DEF IInv
<1>3. QED
  BY <1>1, <1>2, PTL DEF Spec

\* Every reachable state is well typed, for any number of trades and any
\* quantity, with faults, restarts and passes of any length.
THEOREM TypeCorrect == Spec => []TypeOK
BY InductiveInvariant, PTL DEF IInv

\* A trade never holds more contracts than its signal asked for, whatever the
\* broker does with the cancel of the first order while it is replaced.
THEOREM EntryNeverOverbuys == Spec => []NeverOverbought
<1>1. IInv => NeverOverbought
  BY HeldBound DEF IInv, NeverOverbought
<1>2. QED
  BY <1>1, InductiveInvariant, PTL

-----------------------------------------------------------------------------
\* An entry about to be closed as unfilled is so.
NoFill == pc = "no_fill" => ~Busy(T)

\* The slot is remembered by the coroutine, or by the lifecycle store.
Lane ==
    ~lost => IF pc = "idle" THEN (\E t \in Trades : Busy(t)) => ~CanSubmitEntry
             ELSE \A t \in Trades \ {T} : ~Busy(t)

\* The coroutine's trade, at work on K, is not busy once K died unfilled.
LEMMA AfterDying ==
    ASSUME IInv, pc # "idle", SafeToReplaceOrClose(T, K)
    PROVE  ~Busy(T)
<1>1. T \in Trades /\ K \in OrderNumbers /\ \A k \in OrderNumbers : k = 1 \/ k = 2
  BY DEF IInv, Attempt, TypeOK, OrderNumbers, K
<1>2. \A k \in OrderNumbers : orders[T][k].st = "none" \/ SafeToReplaceOrClose(T, k)
  BY <1>1 DEF IInv, Attempt
<1>3. QED
  BY <1>1, <1>2, NotBusy DEF IInv

\* Outside the entry coroutine's own steps its place and plan do not change,
\* but for a crash and the beginning of an entry.
LEMMA OthersLeaveEntry ==
    ASSUME [Next]_vars, ~Entry, ~Crash, \A t \in Trades : ~Begin(t)
    PROVE  UNCHANGED <<pc, plan>>
BY DEF Next, Broker, Fills, Dies, Reconcile, Fetch, Merge, Resolve, WriteTracked,
   Sweep, PassEnds, ForcedFlat, vars, entry

\* The no-fill close is reached by a trade that is not busy, and none becomes so.
LEMMA NoFillStep ==
    ASSUME IInv, NoFill, [Next]_vars
    PROVE  NoFill'
<1> SUFFICES ASSUME pc' = "no_fill" PROVE ~Busy(T)'
  BY DEF NoFill
<1>1. CASE UNCHANGED plan /\ pc # "idle" /\ ~Busy(T) /\ pc # "place"
  <2>1. T' = T /\ T \in Trades
    BY <1>1 DEF T, IInv, Attempt
  <2>2. \A k \in OrderNumbers : ~Placed(T, k)
    BY <1>1 DEF Placed
  <2>3. PICK t \in Trades : t = T /\ t = T'
    BY <2>1
  <2>4. ~Busy(t)'
    BY <1>1, <2>2, <2>3, OrdersStay
  <2>5. QED
    BY <2>3, <2>4 DEF Busy, MayFill
<1>2. CASE Refused
  <2>1. ~Busy(T) /\ T' = T /\ orders' = orders /\ held' = held
    BY <1>2, BeforePlacing
       DEF Refused, Unsubmitted, broker, T, IInv, TypeOK
  <2>2. QED
    BY <2>1 DEF Busy, MayFill
<1>3. CASE WaitFindsDead \/ ReadbackFindsDead \/ ReplacementUnfunded
  <2>1. /\ UNCHANGED plan /\ pc \notin {"idle", "place"}
        /\ SafeToReplaceOrClose(T, K)
    BY <1>3 DEF WaitFindsDead, ReadbackFindsDead, ReplacementUnfunded
  <2>2. QED
    BY <1>1, <2>1, AfterDying
<1>4. CASE Entry
  BY <1>2, <1>3, <1>4
     DEF Entry, PersistIntent, ReserveRisk, Place, Register, WaitFindsFill,
         WaitTimesOut, RequestCancel, ReadbackFindsFill, FoundFilled,
         ReadbackUnconfirmed, Hold, CloseNoFill, ArmFirstStop, RecordOpen
<1>5. CASE ~Entry
  <2>1. ~Crash /\ \A t \in Trades : ~Begin(t)
    BY DEF Crash, Begin
  <2>2. UNCHANGED <<pc, plan>>
    BY <1>5, <2>1, OthersLeaveEntry
  <2>3. QED
    BY <1>1, <2>2 DEF NoFill
<1>6. QED
  BY <1>4, <1>5

\* The history of a forgotten slot is never taken back.
LEMMA LostStays ==
    ASSUME IInv, [Next]_vars, ~lost'
    PROVE  ~lost
<1>0. lost \in BOOLEAN
  BY DEF IInv, TypeOK
<1>1. QED
  BY <1>0 DEF Next, Broker, Fills, Dies, Begin, Entry, PersistIntent, ReserveRisk,
     Refused, Place, Register, WaitFindsFill, WaitFindsDead, WaitTimesOut,
     RequestCancel, ReadbackFindsFill, ReadbackFindsDead, ReplacementUnfunded,
     ReadbackUnconfirmed, Hold, CloseNoFill, ArmFirstStop, RecordOpen, Reconcile,
     Fetch, Merge, Resolve, WriteTracked, Sweep, PassEnds, Crash, ForcedFlat, vars,
     bounds

\* The lane stays guarded.  Whoever clears the lifecycle store while a BUY may
\* fill is recorded in `lost`, and the entry coroutine ends with the store set
\* or with nothing that could fill.
LEMMA LaneStep ==
    ASSUME IInv, NoFill, Lane, [Next]_vars
    PROVE  Lane'
<1> SUFFICES ASSUME ~lost'
             PROVE  IF pc' = "idle"
                    THEN (\E t \in Trades : Busy(t)') => ~CanSubmitEntry'
                    ELSE \A t \in Trades : t # T' => ~Busy(t)'
  BY DEF Lane
<1>1. ~lost
  BY LostStays
<1>2. ASSUME NEW t \in Trades, t # T \/ pc # "place", Busy(t)' PROVE Busy(t)
  BY <1>2, OrdersStay DEF Placed
<1>3. CASE pc = "idle"
  <2>1. CASE \E t \in Trades : Begin(t)
    <3>1. PICK t \in Trades : Begin(t)
      BY <2>1
    <3>2. \A u \in Trades : ~Busy(u)
      BY <1>1, <1>3, <3>1 DEF Lane, Begin, LaneIsFree
    <3>3. pc' # "idle"
      BY <3>1 DEF Begin
    <3>4. QED
      BY <1>2, <1>3, <3>2, <3>3
  <2>2. CASE Crash
    <3>1. \A t \in Trades : ~Busy(t)
      BY <2>2 DEF Crash
    <3>2. QED
      BY <1>2, <1>3, <2>2, <3>1 DEF Crash
  <2>3. CASE ~Crash /\ \A t \in Trades : ~Begin(t)
    <3>1. ~Entry
      BY <1>3 DEF Entry, PersistIntent, ReserveRisk, Refused, Place, Register,
         WaitFindsFill, WaitFindsDead, WaitTimesOut, RequestCancel, ReadbackFindsFill,
         ReadbackFindsDead, ReplacementUnfunded, ReadbackUnconfirmed, Hold,
         CloseNoFill, ArmFirstStop, RecordOpen
    <3>2. pc' = "idle"
      BY <1>3, <2>3, <3>1, OthersLeaveEntry
    <3>3. ASSUME NEW t \in Trades, Busy(t)' PROVE ~CanSubmitEntry'
      <4>1. Busy(t) /\ ~CanSubmitEntry
        BY <1>1, <1>2, <1>3, <3>3 DEF Lane
      <4>2. CASE life' = life
        BY <4>1, <4>2 DEF CanSubmitEntry
      <4>3. CASE Merge
        BY <4>1, <4>3 DEF Merge, CanSubmitEntry
      <4>4. CASE \E unread \in SUBSET Trades : Resolve(unread)
        BY <4>1, <4>4 DEF Resolve, CanSubmitEntry
      <4>5. CASE \E u \in Trades : Sweep(u)
        BY <4>1, <4>5 DEF Sweep, Protected, CanSubmitEntry
      <4>6. CASE \E u \in Trades : ForcedFlat(u)
        BY <4>1, <4>6 DEF ForcedFlat, CanSubmitEntry
      <4>7. QED
        BY <2>3, <3>1, <4>2, <4>3, <4>4, <4>5, <4>6
           DEF Next, Broker, Fills, Dies, Reconcile, Fetch, WriteTracked, PassEnds, vars
    <3>4. QED
      BY <3>2, <3>3
  <2>4. QED
    BY <2>1, <2>2, <2>3
<1>4. CASE pc # "idle"
  <2>1. \A t \in Trades : t # T => ~Busy(t)
    BY <1>1, <1>4 DEF Lane
  <2>2. CASE pc' # "idle"
    <3>1. T' = T
      <4>1. CASE Entry
        BY <2>2, <4>1 DEF Entry, PersistIntent, ReserveRisk, Refused, Unsubmitted,
           Place, Register, WaitFindsFill, WaitFindsDead, WaitTimesOut, RequestCancel,
           ReadbackFindsFill, FoundFilled, ReadbackFindsDead, ReplacementUnfunded,
           ReadbackUnconfirmed, Hold, CloseNoFill, ArmFirstStop, RecordOpen, T, IInv,
           TypeOK
      <4>2. CASE ~Entry
        <5>1. ~Crash /\ \A t \in Trades : ~Begin(t)
          BY <1>4, <2>2 DEF Crash, Begin
        <5>2. QED
          BY <4>2, <5>1, OthersLeaveEntry DEF T
      <4>3. QED
        BY <4>1, <4>2
    <3>2. QED
      BY <1>2, <2>1, <2>2, <3>1
  <2>3. CASE pc' = "idle"
    <3>1. CASE Hold \/ RecordOpen
      BY <2>3, <3>1 DEF Hold, RecordOpen, CanSubmitEntry
    <3>2. CASE CloseNoFill \/ Refused
      <4>1. ~Busy(T) /\ orders' = orders /\ held' = held
        BY <3>2, BeforePlacing DEF CloseNoFill, Refused, NoFill, broker
      <4>2. \A t \in Trades : ~Busy(t)'
        BY <2>1, <4>1 DEF Busy, MayFill
      <4>3. QED
        BY <2>3, <4>2
    <3>3. CASE Crash
      BY <2>3, <3>3 DEF Crash, Busy, MayFill, broker
    <3>4. Hold \/ RecordOpen \/ CloseNoFill \/ Refused \/ Crash
      <4>1. CASE Entry
        BY <2>3, <4>1 DEF Entry, PersistIntent, ReserveRisk, Place, Register,
           WaitFindsFill, WaitFindsDead, WaitTimesOut, RequestCancel,
           ReadbackFindsFill, FoundFilled, ReadbackFindsDead, ReplacementUnfunded,
           ReadbackUnconfirmed, ArmFirstStop
      <4>2. CASE ~Entry
        <5>1. \A t \in Trades : ~Begin(t)
          BY <1>4 DEF Begin
        <5>2. QED
          BY <1>4, <2>3, <4>2, <5>1, OthersLeaveEntry
      <4>3. QED
        BY <4>1, <4>2
    <3>5. QED
      BY <3>1, <3>2, <3>3, <3>4
  <2>4. QED
    BY <2>2, <2>3
<1>5. QED
  BY <1>3, <1>4

\* Both are invariant.
LEMMA LaneInvariant == Spec => [](NoFill /\ Lane)
<1>1. Init => NoFill /\ Lane
  BY DEF Init, NoFill, Lane, Busy, MayFill, NoOrder, OrderNumbers
<1>2. IInv /\ NoFill /\ Lane /\ [Next]_vars => NoFill' /\ Lane'
  BY NoFillStep, LaneStep
<1>3. QED
  BY <1>1, <1>2, InductiveInvariant, PTL DEF Spec

\* While a BUY may fill or contracts are held, no signal passes the lifecycle
\* gate, unless a restart, an old portfolio or a forced flat cleared the store.
THEOREM LaneIsGuarded == Spec => []LaneGuarded
<1>1. Lane => LaneGuarded
  BY DEF Lane, LaneGuarded, LaneIsFree
<1>2. QED
  BY <1>1, LaneInvariant, PTL

\* "No duplicate entry" holds as long as the lifecycle store never forgot a
\* live slot: two trades of the deployment never have contracts or a working
\* BUY at once.
THEOREM OneBuyUnlessForgotten == Spec => [](~lost => OneBuyPerLane)
<1>1. Init => (~lost => OneBuyPerLane)
  BY DEF Init, OneBuyPerLane, Busy, MayFill, NoOrder, OrderNumbers
<1>2. IInv /\ Lane /\ (~lost => OneBuyPerLane) /\ [Next]_vars
         => (~lost => OneBuyPerLane)'
  <2> SUFFICES ASSUME IInv, Lane, ~lost => OneBuyPerLane, [Next]_vars, ~lost',
                      NEW t \in Trades, NEW u \in Trades, Busy(t)', Busy(u)'
               PROVE  t = u
    BY DEF OneBuyPerLane
  <2>1. ~lost
    BY LostStays
  <2>2. ASSUME NEW v \in Trades, Busy(v)'
        PROVE  Busy(v) \/ (pc = "place" /\ T = v)
    BY <2>2, OrdersStay DEF Placed
  <2>3. CASE pc = "place"
    BY <2>1, <2>2, <2>3 DEF Lane
  <2>4. CASE pc # "place"
    BY <2>1, <2>2, <2>4 DEF OneBuyPerLane
  <2>5. QED
    BY <2>3, <2>4
<1>3. QED
  BY <1>1, <1>2, InductiveInvariant, LaneInvariant, PTL DEF Spec

-----------------------------------------------------------------------------
(***************************************************************************)
(* What the records of an entry promise while a reconciliation pass runs   *)
(* beside it: a risk reservation is given back only when nothing was       *)
(* bought, and a held record keeps the size of its order.  Both need that  *)
(* no pass outlasts the wait for a fill (~SlowPass).                       *)
(***************************************************************************)

BeforeBuy == {"intent", "risk", "place"}
InPass == {"merged", "resolved"}
Tracked(t) == tracker[t] # NoPosition
Pending(t) == tracker[t].src = "live_pending"
Exists(t, k) == orders[t][k].st # "none"

-----------------------------------------------------------------------------
(* What a step does to the records of one trade                            *)

SameRecords(t) == row'[t] = row[t] /\ tracker'[t] = tracker[t] /\ kept'[t] = kept[t]

\* A step of the broker, of another trade's entry, or of a pass between two
\* portfolios.
Elsewhere(t) ==
    /\ SameRecords(t)
    /\ UNCHANGED <<pc, plan>> \/ (T # t /\ T' # t)
    /\ rpc' = rpc \/ {rpc, rpc'} \cap InPass = {}

Begins(t) ==
    /\ pc = "idle" /\ cash[t] = "none" /\ cash'[t] # "none"
    /\ SameRecords(t) /\ rpc' = rpc
    /\ pc' = "intent" /\ T' = t /\ K' = 1

\* The steps of the trade's own entry, by what they do to its plan and records.
OwnRest(t) == T = t /\ T \in Trades /\ pc # "idle" /\ rpc' = rpc /\ kept'[t] = kept[t]
Writes(t, status) ==
    /\ row'[t].status = status /\ row'[t].ord = K /\ row'[t].qty = plan.qty
    /\ tracker'[t] = tracker[t]
Intends(t) == OwnRest(t) /\ pc = "intent" /\ pc' = "risk" /\ plan' = plan /\ Writes(t, "hold")
Reserves(t) == OwnRest(t) /\ SameRecords(t) /\ pc = "risk" /\ pc' = "place" /\ plan' = plan
Drops(t) ==
    /\ OwnRest(t) /\ pc \in BeforeBuy /\ tracker'[t] = tracker[t]
    /\ row'[t] = row[t] \/ (row'[t].status = "closed" /\ row'[t].ord = 0)
    /\ K = 2 => row'[t].status = "closed" /\ row'[t].ord = 0
    /\ \/ pc' = "idle" /\ T' # t
       \/ pc' = "no_fill" /\ T' = t /\ K' = 1
Places(t) ==
    /\ OwnRest(t) /\ row'[t] = row[t] /\ pc = "place" /\ plan' = plan
    /\ \/ pc' = "hold" /\ tracker'[t] = tracker[t] /\ K = 2
       \/ /\ pc' = "placed" /\ tracker'[t].src = "live_pending" /\ tracker'[t].ord = K
Registers(t) == OwnRest(t) /\ pc = "placed" /\ pc' = "wait" /\ plan' = plan /\ Writes(t, "pending")
FindsFill(t) ==
    /\ OwnRest(t) /\ SameRecords(t)
    /\ pc \in {"wait", "reprice_readback", "cancel_readback"} /\ pc' = "filled"
    /\ T' = T /\ K' = K /\ ConfirmedFill(T, K)
Proceeds(t) ==
    /\ OwnRest(t) /\ SameRecords(t) /\ plan' = plan
    /\ pc \in {"wait", "reprice", "cancel", "reprice_readback", "cancel_readback"}
    /\ pc' \in {"reprice", "cancel", "reprice_readback", "cancel_readback", "hold", "no_fill"}
    /\ pc' = "reprice" => K = 1 /\ rpc \notin InPass
    /\ pc' = "reprice_readback" => pc = "reprice"
Replaces(t) ==
    /\ OwnRest(t) /\ SameRecords(t) /\ pc = "reprice_readback" /\ pc' = "intent"
    /\ T' = T /\ K' = 2 /\ K = 1
    /\ plan'.qty \in Nat /\ plan'.qty <= plan.qty /\ SafeToReplaceOrClose(T, 1)
Holds(t) == OwnRest(t) /\ pc = "hold" /\ pc' = "idle" /\ T' # t /\ Writes(t, "hold")
Closes(t) ==
    /\ OwnRest(t) /\ pc = "no_fill" /\ pc' = "idle" /\ T' # t
    /\ row'[t].status = "closed" /\ row'[t].ord = row[t].ord
    /\ tracker'[t] \in {tracker[t], NoPosition}
Arms(t) ==
    /\ OwnRest(t) /\ row'[t] = row[t] /\ pc = "filled" /\ pc' = "armed" /\ plan' = plan
    /\ tracker'[t].src = "live_open" /\ tracker'[t].ord = K
Opens(t) == OwnRest(t) /\ pc = "armed" /\ pc' = "idle" /\ T' # t /\ Writes(t, "open")

\* The steps of a pass.
EntryRests == UNCHANGED <<pc, plan>>
Merges(t) ==
    /\ EntryRests /\ rpc = "fetched" /\ rpc' = "merged"
    /\ row'[t] = row[t] /\ kept'[t] = kept[t]
    /\ \/ tracker'[t] = NoPosition
       \/ held[t] > 0 /\ tracker'[t].src # "live_pending" /\ tracker'[t].ord = row[t].ord
Resolves(t) ==
    /\ EntryRests /\ rpc = "merged" /\ rpc' = "resolved"
    /\ \/ row'[t] = row[t]
       \/ /\ row[t].status # "none"
          /\ row'[t].status = "closed" /\ row'[t].ord = row[t].ord
    /\ kept'[t] = 0 \/ (row[t].status = "hold" /\ kept'[t] = row[t].qty)
    /\ \/ tracker'[t] = tracker[t]
       \/ /\ kept'[t] = 0 /\ tracker'[t].src # "live_pending" /\ tracker'[t].ord = row[t].ord
          /\ row[t].ord # 0 /\ ConfirmedFill(t, row[t].ord)
WritesTracked(t) ==
    /\ EntryRests /\ rpc = "resolved" /\ rpc' = "sweep"
    /\ tracker'[t] = tracker[t] /\ kept'[t] = 0
    /\ \/ row'[t] = row[t]
       \/ /\ Tracked(t) /\ row'[t].ord = tracker[t].ord
          /\ \/ row'[t].status = "hold" /\ kept[t] > 0 /\ row'[t].qty = kept[t]
             \/ row'[t].status = "open"
Sweeps(t) ==
    /\ EntryRests /\ rpc = "sweep" /\ rpc' = "sweep" /\ kept'[t] = kept[t]
    /\ \/ tracker'[t] = tracker[t]
       \/ /\ Tracked(t) /\ tracker'[t].src = tracker[t].src
          /\ tracker'[t].ord = tracker[t].ord
    /\ \/ row'[t] = row[t]
       \/ /\ Tracked(t) /\ row'[t].status = "open" /\ row'[t].ord = tracker[t].ord
          /\ ~(Pending(t) /\ tracker[t].ord = 1)
Flattens(t) ==
    /\ EntryRests /\ rpc' = rpc /\ T # t /\ kept'[t] = kept[t]
    /\ Tracked(t) /\ tracker'[t] = NoPosition
    /\ row'[t].status = "closed" /\ row'[t].ord = row[t].ord
Restarts(t) ==
    /\ pc' = "idle" /\ T' # t /\ rpc' = "idle" /\ row'[t] = row[t]
    /\ tracker'[t] = NoPosition /\ kept'[t] = 0

OwnStep(t) ==
    \/ Intends(t) \/ Reserves(t) \/ Drops(t) \/ Places(t) \/ Registers(t) \/ FindsFill(t)
    \/ Proceeds(t) \/ Replaces(t) \/ Holds(t) \/ Closes(t) \/ Arms(t) \/ Opens(t)
PassStep(t) == Merges(t) \/ Resolves(t) \/ WritesTracked(t) \/ Sweeps(t)

-----------------------------------------------------------------------------
\* A step of the entry coroutine seen from one trade.
LEMMA EntryMoves ==
    ASSUME IInv, ~SlowPass, Entry, NEW t \in Trades
    PROVE  Elsewhere(t) \/ OwnStep(t)
<1>0. /\ row \in [Trades -> Row] /\ tracker \in [Trades -> Position \cup {NoPosition}]
      /\ plan \in Plans /\ 0 \notin Trades
  BY DEF IInv, TypeOK, Plans, Trades
<1>1. pc # "idle" /\ T \in Trades /\ rpc' = rpc /\ kept' = kept
  BY DEF IInv, Attempt, Entry, PersistIntent, ReserveRisk, Refused, Place, Register,
     WaitFindsFill, WaitFindsDead, WaitTimesOut, RequestCancel, ReadbackFindsFill,
     ReadbackFindsDead, ReplacementUnfunded, ReadbackUnconfirmed, Hold, CloseNoFill,
     ArmFirstStop, RecordOpen, pass
<1>2. plan'.trade \in {T, 0}
  <2>1. CASE ReadbackFindsDead
    <3>1. plan' = plan \/ \E q \in 1..plan.qty : plan' = [plan EXCEPT !.ord = 2, !.qty = q]
      BY <2>1 DEF ReadbackFindsDead
    <3>2. QED
      BY <1>0, <3>1 DEF T, Plans
  <2>2. CASE WaitFindsFill \/ ReadbackFindsFill
    <3>1. plan' = [plan EXCEPT !.qty = orders[T][K].filled]
      BY <2>2 DEF WaitFindsFill, ReadbackFindsFill, FoundFilled
    <3>2. QED
      BY <1>0, <3>1 DEF T, Plans
  <2>3. CASE ~ReadbackFindsDead /\ ~WaitFindsFill /\ ~ReadbackFindsFill
    <3>1. plan' = plan \/ plan' = NoPlan \/ plan' = [plan EXCEPT !.ord = 1]
      BY <2>3 DEF Entry, PersistIntent, ReserveRisk, Refused, Unsubmitted, Place,
         Register, WaitFindsDead, WaitTimesOut, RequestCancel, ReplacementUnfunded,
         ReadbackUnconfirmed, Hold, CloseNoFill, ArmFirstStop, RecordOpen
    <3>2. QED
      BY <1>0, <3>1 DEF T, Plans, NoPlan
  <2>4. QED
    BY <2>1, <2>2, <2>3
<1>3. CASE T # t
  <2>1. T' # t
    BY <1>0, <1>2, <1>3 DEF T
  <2>2. row'[t] = row[t]
    BY <1>0, <1>3 DEF Entry, PersistIntent, ReserveRisk, Refused, Unsubmitted, Place,
       Register, WaitFindsFill, WaitFindsDead, WaitTimesOut, RequestCancel,
       ReadbackFindsFill, ReadbackFindsDead, ReplacementUnfunded, ReadbackUnconfirmed,
       Hold, CloseNoFill, ArmFirstStop, RecordOpen, disk
  <2>3. tracker'[t] = tracker[t]
    BY <1>0, <1>3 DEF Entry, PersistIntent, ReserveRisk, Refused, Place,
       Register, WaitFindsFill, WaitFindsDead, WaitTimesOut, RequestCancel,
       ReadbackFindsFill, ReadbackFindsDead, ReplacementUnfunded, ReadbackUnconfirmed,
       Hold, CloseNoFill, ArmFirstStop, RecordOpen
  <2>4. QED
    BY <1>1, <1>3, <2>1, <2>2, <2>3 DEF Elsewhere, SameRecords
<1>4. CASE T = t
  <2>0. OwnRest(t)
    BY <1>1, <1>4 DEF OwnRest
  <2>1. CASE PersistIntent
    BY <1>0, <1>4, <2>0, <2>1 DEF PersistIntent, OwnStep, Intends, Writes
  <2>2. CASE ReserveRisk
    BY <1>1, <2>0, <2>2 DEF ReserveRisk, OwnStep, Reserves, SameRecords
  <2>3. CASE Refused
    <3>1. pc \in BeforeBuy /\ tracker' = tracker
      BY <2>3 DEF Refused, BeforeBuy
    <3>2. /\ row'[t] = row[t] \/ (row'[t].status = "closed" /\ row'[t].ord = 0)
          /\ K = 2 => row'[t].status = "closed" /\ row'[t].ord = 0
      BY <1>0, <1>4, <2>3 DEF Refused, Unsubmitted
    <3>3. \/ pc' = "idle" /\ T' # t
          \/ pc' = "no_fill" /\ T' = t /\ K' = 1
      BY <1>0, <1>4, <2>3 DEF Refused, Unsubmitted, NoPlan, T, K, Plans
    <3>4. QED
      BY <2>0, <3>1, <3>2, <3>3 DEF OwnStep, Drops
  <2>4. CASE \E u \in BOOLEAN : Place(u)
    BY <1>0, <1>4, <2>0, <2>4 DEF Place, OwnStep, Places, disk
  <2>5. CASE Register
    BY <1>0, <1>4, <2>0, <2>5 DEF Register, OwnStep, Registers, Writes
  <2>6. CASE WaitFindsFill \/ ReadbackFindsFill
    <3>1. T' = T /\ K' = K
      BY <1>0, <2>6 DEF WaitFindsFill, ReadbackFindsFill, FoundFilled, T, K, Plans
    <3>2. QED
      BY <1>1, <2>0, <2>6, <3>1 DEF WaitFindsFill, ReadbackFindsFill, FoundFilled,
         OwnStep, FindsFill, SameRecords, disk
  <2>7. CASE \/ WaitFindsDead \/ WaitTimesOut \/ RequestCancel \/ ReplacementUnfunded
             \/ ReadbackUnconfirmed \/ (ReadbackFindsDead /\ pc = "cancel_readback")
    BY <1>1, <2>0, <2>7 DEF WaitFindsDead, WaitTimesOut, RequestCancel,
       ReplacementUnfunded, ReadbackUnconfirmed, ReadbackFindsDead, OwnStep, Proceeds,
       SameRecords, disk, InPass
  <2>8. CASE ReadbackFindsDead /\ pc = "reprice_readback"
    <3>1. K = 1 /\ SafeToReplaceOrClose(T, 1) /\ pc' = "intent"
      BY <2>8 DEF ReadbackFindsDead, IInv, Attempt
    <3>2. PICK q \in 1..plan.qty : plan' = [plan EXCEPT !.ord = 2, !.qty = q]
      BY <2>8 DEF ReadbackFindsDead
    <3>3. T' = T /\ K' = 2 /\ plan'.qty = q
      BY <1>0, <3>2 DEF T, K, Plans
    <3>4. plan.qty \in Nat /\ q \in Nat /\ q <= plan.qty
      BY <1>0, SizesAssumption DEF Plans
    <3>5. QED
      BY <1>1, <2>0, <2>8, <3>1, <3>3, <3>4
         DEF ReadbackFindsDead, OwnStep, Replaces, SameRecords
  <2>9. CASE Hold
    BY <1>0, <1>4, <2>0, <2>9 DEF Hold, OwnStep, Holds, Writes, NoPlan, T
  <2>10. CASE CloseNoFill
    <3>1. row'[t] = [row[t] EXCEPT !.status = "closed"]
      BY <1>0, <1>4, <2>10 DEF CloseNoFill
    <3>2. row'[t].status = "closed" /\ row'[t].ord = row[t].ord
      BY <1>0, <3>1 DEF Row
    <3>3. tracker'[t] \in {tracker[t], NoPosition}
      BY <1>0, <1>4, <2>10 DEF CloseNoFill
    <3>4. pc = "no_fill" /\ pc' = "idle" /\ T' # t
      BY <1>0, <2>10 DEF CloseNoFill, NoPlan, T
    <3>5. QED
      BY <2>0, <3>2, <3>3, <3>4 DEF OwnStep, Closes
  <2>11. CASE \E a \in BOOLEAN : ArmFirstStop(a)
    BY <1>0, <1>4, <2>0, <2>11 DEF ArmFirstStop, OwnStep, Arms
  <2>12. CASE RecordOpen
    BY <1>0, <1>4, <2>0, <2>12 DEF RecordOpen, OwnStep, Opens, Writes, NoPlan, T
  <2>13. QED
    BY <2>1, <2>2, <2>3, <2>4, <2>5, <2>6, <2>7, <2>8, <2>9, <2>10, <2>11, <2>12
       DEF Entry, ReadbackFindsDead
<1>5. QED
  BY <1>3, <1>4

\* A step of a pass seen from one trade.
LEMMA PassMoves ==
    ASSUME IInv, Reconcile, NEW t \in Trades
    PROVE  Elsewhere(t) \/ PassStep(t)
<1>0. /\ row \in [Trades -> Row] /\ tracker \in [Trades -> Position \cup {NoPosition}]
      /\ held \in [Trades -> Nat]
  BY DEF IInv, TypeOK
<1>1. EntryRests
  BY DEF Reconcile, Fetch, Merge, Resolve, WriteTracked, Sweep, PassEnds, entry, EntryRests
<1>2. CASE (\E f \in BOOLEAN : Fetch(f)) \/ PassEnds
  BY <1>1, <1>2 DEF Fetch, PassEnds, Elsewhere, SameRecords, disk, EntryRests, InPass
<1>3. CASE Merge
  <2>1. snap.held[t] \in Nat /\ snap.held[t] <= held[t]
    BY <1>3 DEF Merge, IInv, Snapshot
  <2>2. tracker'[t] = Reconciled(t)
    BY <1>3 DEF Merge
  <2>3. \/ tracker'[t] = NoPosition
        \/ held[t] > 0 /\ tracker'[t].src # "live_pending" /\ tracker'[t].ord = row[t].ord
    BY <1>0, <2>1, <2>2 DEF Reconciled
  <2>4. QED
    BY <1>1, <1>3, <2>3 DEF Merge, PassStep, Merges, disk
<1>4. ASSUME NEW unread \in SUBSET Trades, Resolve(unread)
      PROVE  PassStep(t)
  <2>1. rpc = "merged" /\ rpc' = "resolved"
    BY <1>4 DEF Resolve
  <2>2. \/ row'[t] = row[t]
        \/ /\ row[t].status # "none"
           /\ row'[t].status = "closed" /\ row'[t].ord = row[t].ord
    <3>1. \/ row'[t] = row[t]
          \/ /\ row[t].status \in {"hold", "open"}
             /\ row'[t] = [row[t] EXCEPT !.status = "closed"]
      BY <1>4 DEF Resolve, Releases
    <3>2. row[t] \in Row
      BY <1>0
    <3>3. QED
      BY <3>1, <3>2 DEF Row
  <2>3. kept'[t] = 0 \/ (row[t].status = "hold" /\ kept'[t] = row[t].qty)
    BY <1>4 DEF Resolve
  <2>4. \/ tracker'[t] = tracker[t]
        \/ /\ kept'[t] = 0 /\ tracker'[t].src # "live_pending" /\ tracker'[t].ord = row[t].ord
           /\ row[t].ord # 0 /\ ConfirmedFill(t, row[t].ord)
    BY <1>4 DEF Resolve, Recovers
  <2>5. QED
    BY <1>1, <2>1, <2>2, <2>3, <2>4 DEF PassStep, Resolves
<1>5. CASE WriteTracked
  <2>1. /\ rpc = "resolved" /\ rpc' = "sweep"
        /\ tracker'[t] = tracker[t] /\ kept'[t] = 0
    BY <1>5 DEF WriteTracked
  <2>2. \/ row'[t] = row[t]
        \/ /\ Tracked(t) /\ row'[t].ord = tracker[t].ord
           /\ \/ row'[t].status = "hold" /\ kept[t] > 0 /\ row'[t].qty = kept[t]
              \/ row'[t].status = "open"
    BY <1>5 DEF WriteTracked, Tracked
  <2>3. QED
    BY <1>1, <2>1, <2>2 DEF PassStep, WritesTracked
<1>6. ASSUME NEW u \in Trades, Sweep(u) PROVE PassStep(t)
  <2>1. rpc = "sweep" /\ rpc' = "sweep" /\ kept'[t] = kept[t]
    BY <1>6 DEF Sweep
  <2>2. CASE Skipped(u)
    BY <1>1, <1>6, <2>1, <2>2 DEF Sweep, PassStep, Sweeps
  <2>3. CASE ~Skipped(u)
    <3>1. Tracked(u) /\ ~(Pending(u) /\ tracker[u].ord = 1)
      BY <2>3 DEF Skipped, Tracked, Pending
    <3>2. \E b \in BOOLEAN : tracker' = [tracker EXCEPT ![u].stop = b]
      BY <1>6, <2>3 DEF Sweep, Protected
    <3>3. \/ row' = row
          \/ row' = [row EXCEPT ![u] = [status |-> "open", ord |-> tracker[u].ord,
                                        qty |-> tracker[u].qty]]
      BY <1>6, <2>3 DEF Sweep, Protected
    <3>4. \/ tracker'[t] = tracker[t]
          \/ /\ Tracked(t) /\ tracker'[t].src = tracker[t].src
             /\ tracker'[t].ord = tracker[t].ord
      <4>1. \/ tracker'[t] = tracker[t]
            \/ t = u /\ \E b \in BOOLEAN : tracker'[t] = [tracker[t] EXCEPT !.stop = b]
        BY <1>0, <3>2
      <4>2. tracker[t] \in Position \/ ~Tracked(t)
        BY <1>0 DEF Tracked
      <4>3. QED
        BY <3>1, <4>1, <4>2 DEF Position
    <3>5. \/ row'[t] = row[t]
          \/ /\ Tracked(t) /\ row'[t].status = "open" /\ row'[t].ord = tracker[t].ord
             /\ ~(Pending(t) /\ tracker[t].ord = 1)
      BY <1>0, <3>1, <3>3
    <3>6. QED
      BY <1>1, <2>1, <3>4, <3>5 DEF PassStep, Sweeps
  <2>4. QED
    BY <2>2, <2>3
<1>7. QED
  BY <1>2, <1>3, <1>4, <1>5, <1>6 DEF Reconcile

\* Any step seen from one trade.
LEMMA Moves ==
    ASSUME IInv, ~SlowPass, [Next]_vars, NEW t \in Trades
    PROVE  \/ Elsewhere(t) \/ Begins(t) \/ OwnStep(t) \/ PassStep(t)
           \/ Flattens(t) \/ Restarts(t)
<1>0. /\ row \in [Trades -> Row] /\ tracker \in [Trades -> Position \cup {NoPosition}]
      /\ cash \in [Trades -> Reservation] /\ 0 \notin Trades
  BY DEF IInv, TypeOK, Trades
<1>1. CASE Broker \/ UNCHANGED vars
  <2>1. UNCHANGED <<row, tracker, kept, rpc, pc, plan>>
    BY <1>1 DEF Broker, Fills, Dies, vars, disk, entry, pass
  <2>2. QED
    BY <2>1 DEF Elsewhere, SameRecords, T, K
<1>2. ASSUME NEW u \in Trades, Begin(u) PROVE Elsewhere(t) \/ Begins(t)
  <2>1. pc = "idle" /\ pc' = "intent" /\ T' = u /\ K' = 1 /\ SameRecords(t) /\ rpc' = rpc
    BY <1>2 DEF Begin, SameRecords, pass, T, K
  <2>2. CASE u # t
    <3>1. T = 0
      BY <2>1 DEF IInv, Attempt
    <3>2. QED
      BY <1>0, <2>1, <2>2, <3>1 DEF Elsewhere
  <2>3. CASE u = t
    <3>1. cash[t] = "none" /\ cash'[t] # "none"
      BY <1>0, <1>2, <2>3 DEF Begin, Trades
    <3>2. QED
      BY <2>1, <2>3, <3>1 DEF Begins
  <2>4. QED
    BY <2>2, <2>3
<1>3. CASE Crash
  BY <1>0, <1>3 DEF Crash, Restarts, disk, T, NoPlan
<1>4. ASSUME NEW u \in Trades, ForcedFlat(u) PROVE Elsewhere(t) \/ Flattens(t)
  <2>1. EntryRests /\ rpc' = rpc /\ kept' = kept /\ T # u /\ Tracked(u)
    BY <1>4 DEF ForcedFlat, entry, pass, EntryRests, Tracked
  <2>2. CASE UNCHANGED <<tracker, row>>
    BY <2>1, <2>2 DEF Elsewhere, SameRecords, EntryRests
  <2>3. CASE /\ tracker' = [tracker EXCEPT ![u] = NoPosition]
             /\ row' = [row EXCEPT ![u].status = "closed"]
    <3>1. CASE u # t
      BY <1>0, <2>1, <2>3, <3>1 DEF Elsewhere, SameRecords, EntryRests
    <3>2. CASE u = t
      <4>1. tracker'[t] = NoPosition /\ row'[t] = [row[t] EXCEPT !.status = "closed"]
        BY <1>0, <2>3, <3>2
      <4>2. row[t] \in Row
        BY <1>0
      <4>3. row'[t].status = "closed" /\ row'[t].ord = row[t].ord
        BY <4>1, <4>2 DEF Row
      <4>4. QED
        BY <2>1, <3>2, <4>1, <4>3 DEF Flattens
    <3>3. QED
      BY <3>1, <3>2
  <2>4. QED
    BY <1>4, <2>2, <2>3 DEF ForcedFlat
<1>5. QED
  BY <1>1, <1>2, <1>3, <1>4, EntryMoves, PassMoves DEF Next

-----------------------------------------------------------------------------
(* What the broker's side says of one trade, before a step and after it    *)

Void(t) == SafeToReplaceOrClose(t, 1)
Buys(t, k) ==
    /\ pc = "place" /\ T = t /\ K = k /\ plan' = plan /\ pc' \in {"placed", "hold"}
    /\ orders'[t][k].qty = plan.qty

\* The types of what is read of a trade.
Values(t) ==
    /\ row[t].ord \in {0, 1, 2} /\ K \in {1, 2} /\ (Tracked(t) => tracker[t].ord \in {1, 2})
    /\ held[t] \in Nat /\ plan.qty \in Nat /\ kept[t] \in Nat /\ row[t].qty \in Nat
    /\ \A k \in {1, 2} : orders[t][k].qty \in Nat
\* How its orders, contracts, record and entry stand to each other.
Standing(t) ==
    /\ Exists(t, 2) => Void(t)
    /\ Void(t) /\ ~Exists(t, 2) => held[t] = 0
    /\ Void(t) => Exists(t, 1)
    /\ held[t] > 0 => row[t].ord # 0
    /\ \A k \in {1, 2} : ConfirmedFill(t, k) => held[t] > 0
    /\ cash[t] = "none" => T # t /\ held[t] = 0
    /\ T = t =>
          /\ pc # "idle"
          /\ IF K = 1 THEN ~Exists(t, 2) ELSE Void(t)
          /\ pc \in BeforeBuy => ~Exists(t, K) /\ held[t] = 0
          /\ pc \notin {"intent", "no_fill"} => row[t].ord # 0
          /\ pc \in {"reprice", "reprice_readback"} => K = 1
\* What a step cannot undo.
Onward(t) ==
    /\ row'[t].ord \in {0, 1, 2}
    /\ held'[t] \in Nat /\ held'[t] >= held[t]
    /\ cash'[t] = "none" => cash[t] = "none"
    /\ Void(t) => Void(t)'
    /\ \A k \in {1, 2} :
          /\ Exists(t, k) => Exists(t, k)' /\ orders'[t][k].qty = orders[t][k].qty
          /\ Exists(t, k)' => Exists(t, k) \/ Buys(t, k)

\* They follow from the invariant of EntryLifecycle_proof.
LEMMA Views ==
    ASSUME IInv, NEW t \in Trades
    PROVE  Values(t) /\ Standing(t)
<1>0. /\ T = t => pc # "idle"
      /\ 1 \in OrderNumbers /\ 2 \in OrderNumbers /\ 0 \notin OrderNumbers
      /\ \A k \in OrderNumbers : k = 1 \/ k = 2
  BY DEF IInv, Attempt, Trades, OrderNumbers
<1>1. Values(t)
  <2>1. /\ row[t] \in Row /\ tracker[t] \in Position \cup {NoPosition} /\ plan \in Plans
        /\ held[t] \in Nat /\ kept[t] \in 0..Quantity
        /\ \A k \in OrderNumbers : orders[t][k] \in Order
    BY DEF IInv, TypeOK, Plans
  <2>2. row[t].ord \in {0, 1, 2} /\ row[t].qty \in Nat
    BY <2>1, SizesAssumption DEF Row
  <2>3. K \in {1, 2} /\ plan.qty \in Nat
    BY <2>1, SizesAssumption DEF Plans, K, OrderNumbers
  <2>4. Tracked(t) => tracker[t].ord \in {1, 2}
    BY <2>1 DEF Tracked, Position, OrderNumbers
  <2>5. \A k \in {1, 2} : orders[t][k].qty \in Nat
    BY <1>0, <2>1, SizesAssumption DEF Order
  <2>6. kept[t] \in Nat
    BY <2>1, SizesAssumption
  <2>7. QED
    BY <2>1, <2>2, <2>3, <2>4, <2>5, <2>6 DEF Values
<1>2. /\ held[t] = orders[t][1].filled + orders[t][2].filled
      /\ orders[t][1].filled \in Nat /\ orders[t][2].filled \in Nat
      /\ Exists(t, 2) => Void(t)
      /\ ~Exists(t, 1) => orders[t][1].filled = 0
      /\ ~Exists(t, 2) => orders[t][2].filled = 0
  BY <1>0, SizesAssumption DEF IInv, TypeOK, Order, Ledger, Exists, Void
<1>3. Void(t) => orders[t][1].filled = 0 /\ Exists(t, 1)
  BY DEF Void, SafeToReplaceOrClose, Exists
<1>4. /\ row[t].ord = 0 => ~Busy(t)
      /\ pc \notin {"idle", "intent", "no_fill"} /\ T = t => row[t].ord # 0
  BY DEF IInv, Identity
<1>5. \A k \in {1, 2} : ConfirmedFill(t, k) => held[t] > 0
  BY <1>2 DEF ConfirmedFill
<1>6. held[t] > 0 => row[t].ord # 0
  BY <1>4 DEF Busy
<1>7. cash[t] = "none" => T # t /\ held[t] = 0
  BY <1>0, <1>2 DEF IInv, Attempt, Exists
<1>8. ASSUME T = t
      PROVE  /\ IF K = 1 THEN ~Exists(t, 2) ELSE Void(t)
             /\ pc \in BeforeBuy => ~Exists(t, K)
             /\ pc \in {"reprice", "reprice_readback"} => K = 1
  BY <1>0, <1>8 DEF IInv, Attempt, Exists, Void, BeforeBuy
<1>9. T = t /\ pc \in BeforeBuy => held[t] = 0
  BY <1>1, BeforePlacing DEF BeforeBuy, Busy, Values
<1>10. Standing(t)
  <2>1. Void(t) /\ ~Exists(t, 2) => held[t] = 0
    BY <1>2, <1>3
  <2>2. QED
    BY <1>0, <1>2, <1>3, <1>4, <1>5, <1>6, <1>7, <1>8, <1>9, <2>1 DEF Standing
<1>11. QED
  BY <1>1, <1>10

\* What any step keeps of them.
LEMMA StepViews ==
    ASSUME IInv, [Next]_vars, NEW t \in Trades
    PROVE  Onward(t)
<1>1. held'[t] \in Nat /\ held'[t] >= held[t]
  BY TypeStep, OrdersStay DEF TypeOK
<1>0. row'[t].ord \in {0, 1, 2}
  <2>1. row'[t] \in Row
    BY TypeStep DEF TypeOK
  <2>2. QED
    BY <2>1 DEF Row
<1>2. cash'[t] = "none" => cash[t] = "none"
  BY CashStays
<1>3. 1 \in OrderNumbers /\ \A k \in {1, 2} : k \in OrderNumbers
  BY DEF OrderNumbers
<1>4. Void(t) => Void(t)'
  BY <1>3, OrdersStay DEF Void
<1>5. ASSUME NEW k \in {1, 2}
      PROVE  /\ Exists(t, k) => Exists(t, k)' /\ orders'[t][k].qty = orders[t][k].qty
             /\ Exists(t, k)' => Exists(t, k) \/ Buys(t, k)
  BY <1>3, OrdersStay DEF Exists, Buys, Placed
<1>6. QED
  BY <1>0, <1>1, <1>2, <1>4, <1>5 DEF Onward

-----------------------------------------------------------------------------
(* The numbers under which an order is on record and tracked               *)

\* A trade that was not begun has left no trace.
Unstarted(t) ==
    cash[t] = "none" =>
        row[t].status = "none" /\ row[t].ord = 0 /\ kept[t] = 0 /\ ~Tracked(t)

\* The replacement's number appears once the first order is void, and the
\* position of a filled order carries the number of the order that filled.
Numbers(t) ==
    /\ row[t].ord = 2 => Void(t)
    /\ row[t].status = "hold" => row[t].ord # 0
    /\ Tracked(t) =>
          /\ tracker[t].ord = 2 => Void(t)
          /\ ~Pending(t) => held[t] > 0 /\ (Exists(t, 2) => tracker[t].ord = 2)
    /\ T = t /\ pc = "filled" => held[t] > 0

\* While the entry is at its first order, or before its BUY, the tracker and
\* the record know only the first.
FirstOnly(t) ==
    T = t /\ pc # "no_fill" =>
        /\ K = 1 /\ pc \in BeforeBuy => ~Tracked(t)
        /\ (K = 1 \/ pc \in BeforeBuy) /\ Tracked(t) => tracker[t].ord # 2
        /\ K = 1 \/ pc = "intent" => row[t].ord # 2

\* The trade has, or is about to have, a replacement on record.
Replaced(t) == Exists(t, 2) \/ (T = t /\ K = 2 /\ pc \notin {"idle", "intent"})

\* It is on the way to one.
Replacing(t) ==
    \/ Replaced(t)
    \/ T = t /\ (pc \in {"reprice", "reprice_readback"} \/ (K = 2 /\ pc = "intent"))

\* The record of a replaced entry names the replacement; and a pending entry
\* that a pass did not see in its portfolio was tracked after it, and so
\* under the number on record.
Recorded(t) ==
    /\ Replaced(t) => row[t].ord = 2
    /\ Tracked(t) /\ Pending(t) /\ rpc \in InPass =>
          /\ Replacing(t) => tracker[t].ord = 2
          /\ tracker[t].ord = row[t].ord

\* A trade without cash stays untouched.
LEMMA UnstartedStep ==
    ASSUME NEW t, Unstarted(t), Values(t), Standing(t), Onward(t),
           \/ Elsewhere(t) \/ Begins(t) \/ OwnStep(t) \/ PassStep(t)
           \/ Flattens(t) \/ Restarts(t)
    PROVE  Unstarted(t)'
<1> SUFFICES ASSUME cash'[t] = "none"
             PROVE  row'[t].status = "none" /\ row'[t].ord = 0 /\ kept'[t] = 0 /\ ~Tracked(t)'
  BY DEF Unstarted
<1>1. /\ row[t].status = "none" /\ row[t].ord = 0 /\ kept[t] = 0 /\ ~Tracked(t)
      /\ T # t /\ held[t] = 0
  BY DEF Unstarted, Onward, Standing
<1> USE <1>1
<1>2. CASE Elsewhere(t)
  BY <1>2 DEF Elsewhere, SameRecords, Tracked
<1>3. CASE Begins(t)
  BY <1>3 DEF Begins
<1>4. CASE OwnStep(t)
  BY <1>4 DEF OwnStep, Intends, Reserves, Drops, Places, Registers, FindsFill, Proceeds,
     Replaces, Holds, Closes, Arms, Opens, OwnRest
<1>5. CASE PassStep(t)
  BY <1>5 DEF PassStep, Merges, Resolves, WritesTracked, Sweeps, Tracked
<1>6. CASE Flattens(t)
  BY <1>6 DEF Flattens
<1>7. CASE Restarts(t)
  BY <1>7 DEF Restarts, Tracked
<1>8. QED
  BY <1>2, <1>3, <1>4, <1>5, <1>6, <1>7

\* The numbers stay true of the orders.
LEMMA NumbersStep ==
    ASSUME NEW t, Numbers(t), Values(t), Standing(t), Onward(t),
           Recorded(t),
           \/ Elsewhere(t) \/ Begins(t) \/ OwnStep(t) \/ PassStep(t)
           \/ Flattens(t) \/ Restarts(t)
    PROVE  Numbers(t)'
<1>1. Void(t) => Void(t)'
  BY DEF Onward
<1>2. held[t] > 0 => held'[t] > 0
  BY DEF Onward, Values
\* A tracked position keeps what it is as long as its source and number stay:
\* a replacement is placed only while nothing is held.
<1>3. ASSUME Tracked(t), tracker'[t].src = tracker[t].src, tracker'[t].ord = tracker[t].ord
      PROVE  /\ tracker'[t].ord = 2 => Void(t)'
             /\ ~Pending(t)' => held'[t] > 0 /\ (Exists(t, 2)' => tracker'[t].ord = 2)
  BY <1>1, <1>2, <1>3 DEF Numbers, Pending, Onward, Buys, Standing, BeforeBuy
\* And so does the record.
<1>4. ASSUME row'[t] = row[t] \/ (row'[t].status = "closed" /\ row'[t].ord = row[t].ord)
      PROVE  /\ row'[t].ord = 2 => Void(t)'
             /\ row'[t].status = "hold" => row'[t].ord # 0
  BY <1>1, <1>4 DEF Numbers
<1>5. CASE Elsewhere(t) \/ Begins(t) \/ Flattens(t) \/ Restarts(t)
  <2>1. /\ row'[t] = row[t] \/ (row'[t].status = "closed" /\ row'[t].ord = row[t].ord)
        /\ tracker'[t] = tracker[t] \/ ~Tracked(t)'
        /\ T' = t /\ pc' = "filled" => T = t /\ pc = "filled"
    BY <1>5 DEF Elsewhere, Begins, Flattens, Restarts, SameRecords, EntryRests, Tracked, T
  <2>2. QED
    BY <1>2, <1>3, <1>4, <2>1 DEF Numbers, Tracked
<1>6. CASE OwnStep(t)
  <2>0. T = t /\ K \in {1, 2} /\ (K = 2 => Void(t))
    BY <1>6 DEF OwnStep, Intends, Reserves, Drops, Places, Registers, FindsFill, Proceeds,
     Replaces, Holds, Closes, Arms, Opens, OwnRest, Values, Standing
  <2>1. /\ row'[t].ord = 2 => Void(t)'
        /\ row'[t].status = "hold" => row'[t].ord # 0
    <3>1. \/ row'[t] = row[t]
          \/ row'[t].status = "closed" /\ row'[t].ord = row[t].ord
          \/ row'[t].status = "closed" /\ row'[t].ord = 0
          \/ row'[t].ord = K
      BY <1>6 DEF OwnStep, Intends, Reserves, Drops, Places, Registers, FindsFill, Proceeds,
         Replaces, Holds, Closes, Arms, Opens, Writes, SameRecords
    <3>2. QED
      BY <1>1, <1>4, <2>0, <3>1
  <2>2. Tracked(t)' =>
          /\ tracker'[t].ord = 2 => Void(t)'
          /\ ~Pending(t)' => held'[t] > 0 /\ (Exists(t, 2)' => tracker'[t].ord = 2)
    <3>1. \/ tracker'[t] \in {tracker[t], NoPosition}
          \/ tracker'[t].src = "live_pending" /\ tracker'[t].ord = K
          \/ Arms(t)
      BY <1>6 DEF OwnStep, Intends, Reserves, Drops, Places, Registers, FindsFill, Proceeds,
         Replaces, Holds, Closes, Opens, Writes, SameRecords
    <3>2. CASE Arms(t)
      <4>1. tracker'[t].ord = K /\ held[t] > 0 /\ pc = "filled"
        BY <3>2 DEF Arms, OwnRest, Numbers
      <4>2. Exists(t, 2)' => K = 2
        BY <2>0, <4>1 DEF Onward, Buys, Standing
      <4>3. QED
        BY <1>1, <1>2, <2>0, <4>1, <4>2
    <3>3. QED
      BY <1>1, <1>3, <2>0, <3>1, <3>2 DEF Tracked, Pending
  <2>3. T' = t /\ pc' = "filled" => held'[t] > 0
    <3>1. pc' = "filled" => FindsFill(t)
      BY <1>6 DEF OwnStep, Intends, Reserves, Drops, Places, Registers, Proceeds,
         Replaces, Holds, Closes, Arms, Opens
    <3>2. FindsFill(t) => held[t] > 0
      BY <2>0 DEF FindsFill, Standing
    <3>3. QED
      BY <1>2, <3>1, <3>2
  <2>4. QED
    BY <2>1, <2>2, <2>3 DEF Numbers
<1>7. CASE PassStep(t)
  <2>1. T' = t /\ pc' = "filled" => held'[t] > 0
    BY <1>2, <1>7 DEF PassStep, Merges, Resolves, WritesTracked, Sweeps, EntryRests, Numbers, T
  <2>2. /\ row'[t].ord = 2 => Void(t)'
        /\ row'[t].status = "hold" => row'[t].ord # 0
    <3>1. \/ row'[t] = row[t]
          \/ row'[t].status = "closed" /\ row'[t].ord = row[t].ord
          \/ Tracked(t) /\ row'[t].ord = tracker[t].ord
      BY <1>7 DEF PassStep, Merges, Resolves, WritesTracked, Sweeps
    <3>2. QED
      BY <1>1, <1>4, <3>1 DEF Numbers, Values
  <2>3. Tracked(t)' =>
          /\ tracker'[t].ord = 2 => Void(t)'
          /\ ~Pending(t)' => held'[t] > 0 /\ (Exists(t, 2)' => tracker'[t].ord = 2)
    <3>1. \/ ~Tracked(t)'
          \/ Tracked(t) /\ tracker'[t].src = tracker[t].src /\ tracker'[t].ord = tracker[t].ord
          \/ held[t] > 0 /\ tracker'[t].ord = row[t].ord /\ row[t].ord # 0
      BY <1>7 DEF PassStep, Merges, Resolves, WritesTracked, Sweeps, Tracked, Standing, Values
    <3>2. CASE held[t] > 0 /\ tracker'[t].ord = row[t].ord /\ row[t].ord # 0
      <4>1. Exists(t, 2)' => Exists(t, 2)
        BY <3>2 DEF Onward, Buys, Standing, BeforeBuy
      <4>2. Exists(t, 2) => row[t].ord = 2
        BY DEF Recorded, Replaced
      <4>3. QED
        BY <1>1, <1>2, <3>2, <4>1, <4>2 DEF Numbers
    <3>3. QED
      BY <1>3, <3>1, <3>2
  <2>4. QED
    BY <2>1, <2>2, <2>3 DEF Numbers
<1>8. QED
  BY <1>5, <1>6, <1>7

\* Before the replacement's BUY nothing carries its number.
LEMMA FirstOnlyStep ==
    ASSUME NEW t, Unstarted(t), FirstOnly(t), Values(t), Standing(t), Onward(t),
           \/ Elsewhere(t) \/ Begins(t) \/ OwnStep(t) \/ PassStep(t)
           \/ Flattens(t) \/ Restarts(t)
    PROVE  FirstOnly(t)'
<1> USE DEF BeforeBuy, Tracked
<1>1. CASE Elsewhere(t) \/ Flattens(t) \/ Restarts(t)
  BY <1>1 DEF Elsewhere, Flattens, Restarts, SameRecords, EntryRests, FirstOnly, T, K
<1>2. CASE Begins(t)
  BY <1>2 DEF Begins, SameRecords, Unstarted, FirstOnly
<1>3. CASE Intends(t) \/ Registers(t)
  BY <1>3 DEF Intends, Registers, Writes, OwnRest, FirstOnly, Values, T, K
<1>4. CASE Reserves(t) \/ Proceeds(t) \/ Arms(t) \/ Places(t)
  BY <1>4 DEF Reserves, Proceeds, Arms, Places, OwnRest, SameRecords, FirstOnly, T, K
<1>5. CASE FindsFill(t) \/ Replaces(t)
  BY <1>5 DEF FindsFill, Replaces, OwnRest, SameRecords, FirstOnly
<1>6. CASE Drops(t) \/ Holds(t) \/ Closes(t) \/ Opens(t)
  BY <1>6 DEF Drops, Holds, Closes, Opens, FirstOnly
<1>7. CASE PassStep(t)
  <2> SUFFICES ASSUME T' = t, pc' # "no_fill" PROVE FirstOnly(t)'
    BY DEF FirstOnly
  <2>0. T = t /\ K' = K /\ pc' = pc
    BY <1>7 DEF PassStep, Merges, Resolves, WritesTracked, Sweeps, EntryRests, T, K
  <2>1. \/ ~Tracked(t)'
        \/ Tracked(t) /\ tracker'[t].ord = tracker[t].ord
        \/ held[t] > 0 /\ tracker'[t].ord = row[t].ord
    BY <1>7 DEF PassStep, Merges, Resolves, WritesTracked, Sweeps, Standing, Values
  <2>2. \/ row'[t].ord = row[t].ord
        \/ Tracked(t) /\ row'[t].ord = tracker[t].ord
    BY <1>7 DEF PassStep, Merges, Resolves, WritesTracked, Sweeps
  <2>3. pc \in BeforeBuy => held[t] = 0
    BY <2>0 DEF Standing
  <2>4. QED
    BY <2>0, <2>1, <2>2, <2>3 DEF FirstOnly
<1>8. QED
  BY <1>1, <1>2, <1>3, <1>4, <1>5, <1>6, <1>7 DEF OwnStep

\* The record of an entry at work on an order names that order.
LEMMA OwnNumber ==
    ASSUME NEW t, T = t, pc \notin {"intent", "no_fill"},
           FirstOnly(t), Recorded(t), Values(t), Standing(t)
    PROVE  row[t].ord = K
<1>1. CASE K = 1
  BY <1>1 DEF FirstOnly, Values, Standing
<1>2. CASE K = 2
  BY <1>2 DEF Recorded, Replaced, Values, Standing
<1>3. QED
  BY <1>1, <1>2 DEF Values

\* A pass finds nothing tracked of an entry whose BUY is still to be placed.
LEMMA NothingPending ==
    ASSUME NEW t, T = t, pc \in BeforeBuy, rpc \in InPass,
           FirstOnly(t), Recorded(t), Numbers(t), Values(t), Standing(t)
    PROVE  ~Tracked(t)
<1> SUFFICES ASSUME Tracked(t) PROVE FALSE
  OBVIOUS
<1>1. Pending(t)
  BY DEF Numbers, Standing, BeforeBuy
<1>2. K = 2
  BY DEF FirstOnly, Values, BeforeBuy
<1>3. Replacing(t)
  BY <1>2 DEF Replacing, Replaced, BeforeBuy
<1>4. QED
  BY <1>1, <1>3 DEF Recorded, FirstOnly, BeforeBuy

\* What a pass or the sweep writes of a replaced entry names the replacement.
LEMMA TrackedNumber ==
    ASSUME NEW t, Tracked(t), Replaced(t),
           rpc \in InPass \/ ~(Pending(t) /\ tracker[t].ord = 1),
           Recorded(t), Numbers(t), Values(t), Standing(t)
    PROVE  tracker[t].ord = 2
<1>1. CASE Pending(t)
  BY <1>1 DEF Recorded, Replacing, Values
<1>2. CASE ~Pending(t)
  BY <1>2 DEF Numbers, Standing, Replaced, Values
<1>3. QED
  BY <1>1, <1>2

\* The record keeps naming the replacement.
LEMMA RecordedStep ==
    ASSUME NEW t, Unstarted(t), FirstOnly(t), Recorded(t), Numbers(t),
           Values(t), Standing(t), Onward(t),
           \/ Elsewhere(t) \/ Begins(t) \/ OwnStep(t) \/ PassStep(t)
           \/ Flattens(t) \/ Restarts(t)
    PROVE  Recorded(t)'
<1>1. Exists(t, 2)' => Replaced(t)
  BY DEF Onward, Buys, Replaced
<1>2. CASE Elsewhere(t)
  <2>1. Replaced(t)' => Replaced(t)
    BY <1>1, <1>2 DEF Elsewhere, Replaced, T, K
  <2>2. Replacing(t)' => Replacing(t)
    BY <1>2, <2>1 DEF Elsewhere, Replacing, T, K
  <2>3. QED
    BY <1>2, <2>1, <2>2 DEF Elsewhere, SameRecords, Recorded, Tracked, Pending, InPass
<1>3. CASE Begins(t)
  <2>1. ~Tracked(t)' /\ (Replaced(t)' => Replaced(t)) /\ row'[t] = row[t]
    BY <1>1, <1>3 DEF Begins, SameRecords, Unstarted, Tracked, Replaced
  <2>2. QED
    BY <2>1 DEF Recorded
<1>4. CASE Flattens(t) \/ Restarts(t)
  <2>1. Replaced(t)' => Replaced(t)
    BY <1>1, <1>4 DEF Flattens, Restarts, Replaced, EntryRests, T, K
  <2>2. ~Tracked(t)' /\ row'[t].ord = row[t].ord
    BY <1>4 DEF Flattens, Restarts, Tracked
  <2>3. QED
    BY <2>1, <2>2 DEF Recorded
\* Steps of the entry that write its record under the order it works on.
<1>5. CASE Intends(t)
  <2>1. /\ T = t /\ pc \in BeforeBuy /\ tracker'[t] = tracker[t] /\ rpc' = rpc
        /\ row'[t].ord = K /\ K' = K /\ pc = "intent"
    BY <1>5 DEF Intends, OwnRest, Writes, BeforeBuy, K
  <2>2. ~Exists(t, 2)'
    BY <2>1 DEF Onward, Buys, Standing, Values
  <2>3. Replaced(t)' => row'[t].ord = 2
    BY <2>1, <2>2 DEF Replaced
  <2>4. rpc' \in InPass => ~Tracked(t)'
    BY <2>1, NothingPending DEF Tracked
  <2>5. QED
    BY <2>3, <2>4 DEF Recorded
<1>6. CASE Registers(t) \/ Holds(t) \/ Opens(t)
  <2>1. /\ T = t /\ pc \in {"placed", "hold", "armed"} /\ tracker'[t] = tracker[t]
        /\ row'[t].ord = K /\ rpc' = rpc /\ (T' # t \/ (T' = t /\ K' = K /\ pc' = "wait"))
    BY <1>6 DEF Registers, Holds, Opens, OwnRest, Writes, T, K
  <2>2. row[t].ord = K
    BY <2>1, OwnNumber
  <2>3. (Replaced(t)' => Replaced(t)) /\ (Replacing(t)' => Replaced(t))
    BY <1>1, <2>1 DEF Replaced, Replacing
  <2>4. QED
    BY <2>1, <2>2, <2>3 DEF Recorded, Replacing, Tracked, Pending
<1>7. CASE Drops(t)
  <2>1. /\ T = t /\ pc \in BeforeBuy /\ tracker'[t] = tracker[t] /\ rpc' = rpc
        /\ T' # t \/ K' = 1
        /\ pc' # "placed" /\ pc' # "hold"
    BY <1>7 DEF Drops, OwnRest
  <2>2. ~Exists(t, 2)'
    BY <2>1 DEF Onward, Buys, Standing, Values
  <2>3. ~Replaced(t)'
    BY <2>1, <2>2 DEF Replaced
  <2>4. rpc' \in InPass => ~Tracked(t)'
    BY <2>1, NothingPending DEF Tracked
  <2>5. QED
    BY <2>3, <2>4 DEF Recorded
<1>8. CASE Places(t)
  <2>1. /\ T = t /\ pc = "place" /\ pc \in BeforeBuy /\ rpc' = rpc /\ K' = K /\ T' = t
        /\ row'[t] = row[t]
    BY <1>8 DEF Places, OwnRest, BeforeBuy, T, K
  <2>2. row[t].ord = K
    BY <2>1, OwnNumber
  <2>3. Replaced(t)' => Replaced(t)
    BY <1>1, <2>1 DEF Replaced
  <2>4. CASE tracker'[t] = tracker[t]
    <3>1. rpc' \in InPass => ~Tracked(t)'
      BY <2>1, <2>4, NothingPending DEF Tracked
    <3>2. QED
      BY <2>1, <2>3, <3>1 DEF Recorded
  <2>5. CASE pc' = "placed" /\ tracker'[t].ord = K
    <3>1. Replacing(t)' => Replaced(t)
      BY <2>3, <2>5 DEF Replacing
    <3>2. Replaced(t) => row[t].ord = 2
      BY DEF Recorded
    <3>3. QED
      BY <2>1, <2>2, <2>3, <2>5, <3>1, <3>2 DEF Recorded
  <2>6. QED
    BY <1>8, <2>4, <2>5 DEF Places
<1>9. CASE Reserves(t) \/ FindsFill(t) \/ Proceeds(t) \/ Replaces(t)
  <2>1. /\ SameRecords(t) /\ T = t /\ T' = t /\ rpc' = rpc
        /\ Replaces(t) \/ K' = K
    BY <1>9 DEF Reserves, FindsFill, Proceeds, Replaces, OwnRest, T, K
  <2>2. pc # "idle" /\ pc # "intent"
    BY <1>9 DEF Reserves, FindsFill, Proceeds, Replaces
  <2>3. Replaced(t)' => Replaced(t)
    BY <1>1, <2>1, <2>2 DEF Replaced, Replaces
  <2>4. rpc \in InPass => (Replacing(t)' => Replacing(t))
    BY <1>9, <2>1, <2>3 DEF Replacing, Reserves, FindsFill, Proceeds, Replaces
  <2>5. QED
    BY <2>1, <2>3, <2>4 DEF Recorded, SameRecords, Tracked, Pending
<1>10. CASE Closes(t)
  <2>1. Replacing(t)' => Replaced(t)
    BY <1>1, <1>10 DEF Closes, Replacing, Replaced
  <2>2. QED
    BY <1>10, <2>1 DEF Closes, OwnRest, Recorded, Replacing, Tracked, Pending
<1>11. CASE Arms(t)
  <2>1. Replaced(t)' => Replaced(t)
    BY <1>1, <1>11 DEF Arms, Replaced, T, K
  <2>2. QED
    BY <1>11, <2>1 DEF Arms, Recorded, Pending
<1>12. CASE PassStep(t)
  <2>1. EntryRests
    BY <1>12 DEF PassStep, Merges, Resolves, WritesTracked, Sweeps
  <2>2. (Replaced(t)' => Replaced(t)) /\ (Replacing(t)' => Replacing(t))
    BY <1>1, <2>1 DEF EntryRests, Replaced, Replacing, T, K
  <2>3. CASE Merges(t)
    BY <2>2, <2>3 DEF Merges, Recorded, Tracked, Pending
  <2>4. CASE Resolves(t)
    BY <2>2, <2>4 DEF Resolves, Recorded, Tracked, Pending, InPass
  <2>5. CASE WritesTracked(t) \/ Sweeps(t)
    <3>1. rpc' \notin InPass
      BY <2>5 DEF WritesTracked, Sweeps, InPass
    <3>2. \/ row'[t].ord = row[t].ord
          \/ /\ Tracked(t) /\ row'[t].ord = tracker[t].ord
             /\ rpc \in InPass \/ ~(Pending(t) /\ tracker[t].ord = 1)
      BY <2>5 DEF WritesTracked, Sweeps, InPass
    <3>3. Replaced(t)' => row'[t].ord = 2
      BY <2>2, <3>2, TrackedNumber DEF Recorded
    <3>4. QED
      BY <3>1, <3>3 DEF Recorded
  <2>6. QED
    BY <1>12, <2>3, <2>4, <2>5 DEF PassStep
<1>13. QED
  BY <1>2, <1>3, <1>4, <1>5, <1>6, <1>7, <1>8, <1>9, <1>10, <1>11, <1>12 DEF OwnStep

-----------------------------------------------------------------------------
(* The sizes of orders, plans, records and kept holds                      *)

\* A held record shows at least the size of the order it names.
HoldSize(t) ==
    row[t].status = "hold" /\ Exists(t, row[t].ord)
        => row[t].qty >= orders[t][row[t].ord].qty

\* The plan and the record the entry works with.
PlanSize(t) ==
    T = t =>
        /\ pc = "intent" /\ K = 1 => row[t].status = "none"
        /\ pc \in BeforeBuy /\ K = 2 => plan.qty <= orders[t][1].qty
        /\ pc \notin BeforeBuy \cup {"no_fill", "filled", "armed"} /\ Exists(t, K)
              => plan.qty = orders[t][K].qty
        /\ pc \in {"risk", "place"} /\ row[t].status = "hold" => row[t].qty >= plan.qty

\* The quantity a pass keeps of a hold, until it writes it, covers the order of
\* the position it will be written for.
KeptSize(t) ==
    /\ rpc # "resolved" => kept[t] = 0
    /\ kept[t] > 0 =>
          /\ Tracked(t) /\ Exists(t, tracker[t].ord) => kept[t] >= orders[t][tracker[t].ord].qty
          /\ T = t /\ pc # "no_fill" =>
                /\ pc \in BeforeBuy => kept[t] >= plan.qty
                /\ Exists(t, K) => kept[t] >= orders[t][K].qty

\* The records of a trade name its orders rightly.
OnRecord(t) == Unstarted(t) /\ Numbers(t) /\ FirstOnly(t) /\ Recorded(t)

\* But for a placement, the orders of a trade and their sizes stay.
LEMMA OrdersRest ==
    ASSUME NEW t, Onward(t), ~(pc = "place" /\ pc' \in {"placed", "hold"} /\ T = t)
    PROVE  \A k \in {1, 2} : /\ Exists(t, k)' <=> Exists(t, k)
                             /\ Exists(t, k) => orders'[t][k].qty = orders[t][k].qty
BY DEF Onward, Buys

\* Records keep the size of their orders.
LEMMA HoldSizeStep ==
    ASSUME NEW t, OnRecord(t), HoldSize(t), PlanSize(t), KeptSize(t),
           Values(t), Standing(t), Onward(t), Numbers(t)',
           \/ Elsewhere(t) \/ Begins(t) \/ OwnStep(t) \/ PassStep(t)
           \/ Flattens(t) \/ Restarts(t)
    PROVE  HoldSize(t)'
<1> SUFFICES ASSUME row'[t].status = "hold", Exists(t, row[t].ord)'
             PROVE  row'[t].qty >= orders'[t][row'[t].ord].qty
  BY DEF HoldSize
<1>0. row'[t].ord \in {1, 2} /\ orders'[t][row'[t].ord].st # "none"
  BY DEF Onward, Numbers, Exists
<1>1. CASE Places(t)
  <2>1. /\ T = t /\ pc = "place" /\ row'[t] = row[t]
    BY <1>1 DEF Places, OwnRest
  <2>2. row[t].ord = K
    BY <2>1, OwnNumber DEF OnRecord
  <2>3. ~Exists(t, K)
    BY <2>1 DEF Standing, BeforeBuy
  <2>4. orders'[t][K].qty = plan.qty
    BY <1>0, <2>1, <2>2, <2>3 DEF Onward, Buys, Exists
  <2>5. row[t].qty >= plan.qty
    BY <2>1 DEF PlanSize
  <2>6. QED
    BY <2>1, <2>2, <2>4, <2>5
<1>2. CASE ~Places(t)
  <2>1. ~(pc = "place" /\ pc' \in {"placed", "hold"} /\ T = t)
    BY <1>2 DEF Elsewhere, Begins, OwnStep, Intends, Reserves, Drops, Registers, FindsFill,
       Proceeds, Replaces, Holds, Closes, Arms, Opens, PassStep, Merges, Resolves,
       WritesTracked, Sweeps, EntryRests, Flattens, Restarts
  <2>2. \A k \in {1, 2} : /\ orders'[t][k].st # "none" => Exists(t, k)
                          /\ Exists(t, k) => orders'[t][k].qty = orders[t][k].qty
    BY <2>1, OrdersRest DEF Exists
  <2>3. CASE row'[t] = row[t]
    BY <1>0, <2>2, <2>3 DEF HoldSize
  <2>4. CASE Intends(t)
    <3>1. ~Exists(t, K) /\ row'[t].ord = K
      BY <2>4 DEF Intends, OwnRest, Writes, Standing, BeforeBuy
    <3>2. QED
      BY <1>0, <2>2, <3>1
  <2>5. CASE Holds(t)
    <3>1. row'[t].ord = K /\ row'[t].qty = plan.qty /\ T = t /\ pc = "hold"
      BY <2>5 DEF Holds, OwnRest, Writes
    <3>2. plan.qty = orders[t][K].qty
      BY <1>0, <2>2, <3>1 DEF PlanSize, BeforeBuy
    <3>3. QED
      BY <1>0, <2>2, <3>1, <3>2 DEF Values
  <2>6. CASE WritesTracked(t) /\ row'[t] # row[t]
    <3>1. /\ Tracked(t) /\ row'[t].ord = tracker[t].ord
          /\ kept[t] > 0 /\ row'[t].qty = kept[t]
      BY <2>6 DEF WritesTracked
    <3>2. QED
      BY <1>0, <2>2, <3>1 DEF KeptSize
  <2>7. QED
    BY <1>2, <2>3, <2>4, <2>5, <2>6 DEF Elsewhere, Begins, SameRecords, Writes, OwnStep,
       Reserves, Drops, Registers, FindsFill, Proceeds, Replaces, Closes, Arms, Opens,
       PassStep, Merges, Resolves, Sweeps, Flattens, Restarts
<1>3. QED
  BY <1>1, <1>2

\* Plans keep to the size of their orders.
LEMMA PlanSizeStep ==
    ASSUME NEW t, OnRecord(t), HoldSize(t), PlanSize(t), KeptSize(t),
           Values(t), Standing(t), Onward(t),
           \/ Elsewhere(t) \/ Begins(t) \/ OwnStep(t) \/ PassStep(t)
           \/ Flattens(t) \/ Restarts(t)
    PROVE  PlanSize(t)'
<1> SUFFICES ASSUME T' = t PROVE PlanSize(t)'
  BY DEF PlanSize
<1> USE DEF BeforeBuy
<1>0. K \in {1, 2} /\ 1 \in {1, 2}
  BY DEF Values
<1>1. CASE Begins(t)
  BY <1>1 DEF Begins, SameRecords, OnRecord, Unstarted, PlanSize
<1>2. CASE Places(t)
  <2>1. T = t /\ pc = "place" /\ plan' = plan /\ pc' \in {"placed", "hold"} /\ K' = K
    BY <1>2 DEF Places, OwnRest, K
  <2>2. ~Exists(t, K)
    BY <2>1 DEF Standing
  <2>3. orders'[t][K].st # "none" => orders'[t][K].qty = plan.qty
    BY <1>0, <2>2 DEF Onward, Buys, Exists
  <2>4. QED
    BY <2>1, <2>3 DEF PlanSize, Exists
<1>3. CASE ~Places(t) /\ ~Begins(t)
  <2>1. ~(pc = "place" /\ pc' \in {"placed", "hold"} /\ T = t)
    BY <1>3 DEF Elsewhere, OwnStep, Intends, Reserves, Drops, Registers, FindsFill,
       Proceeds, Replaces, Holds, Closes, Arms, Opens, PassStep, Merges, Resolves,
       WritesTracked, Sweeps, EntryRests, Flattens, Restarts
  <2>2. \A k \in {1, 2} : /\ orders'[t][k].st # "none" => Exists(t, k)
                          /\ Exists(t, k) => orders'[t][k].qty = orders[t][k].qty
    BY <2>1, OrdersRest DEF Exists
  <2>3. T = t
    BY <1>3 DEF Elsewhere, OwnStep, Intends, Reserves, Drops, Registers, FindsFill,
       Proceeds, Replaces, Holds, Closes, Arms, Opens, OwnRest, PassStep, Merges, Resolves,
       WritesTracked, Sweeps, EntryRests, Flattens, Restarts, T
  <2>4. K = 2 => Exists(t, 1)
    BY <2>3 DEF Standing
  <2>5. CASE Intends(t) \/ Reserves(t) \/ Registers(t) \/ Proceeds(t) \/ Arms(t)
    <3>1. /\ plan' = plan /\ K' = K
          /\ pc' \in {"risk", "place", "wait", "reprice", "cancel", "reprice_readback",
                     "cancel_readback", "hold", "no_fill", "armed"}
          /\ pc' \in BeforeBuy => pc \in BeforeBuy
          /\ pc' \notin BeforeBuy \cup {"no_fill", "armed"} => pc \notin BeforeBuy \cup {"no_fill", "filled", "armed"}
          /\ pc' \in {"risk", "place"} => row'[t].qty = plan.qty \/ (pc = "risk" /\ row'[t] = row[t])
      BY <2>5 DEF Intends, Reserves, Registers, Proceeds, Arms, Writes, SameRecords, K
    <3>2. QED
      BY <1>0, <2>2, <2>3, <2>4, <3>1 DEF PlanSize, Exists, Values
  <2>6. CASE FindsFill(t) \/ Drops(t)
    BY <2>6 DEF FindsFill, Drops, PlanSize
  <2>7. CASE Replaces(t)
    <3>1. /\ plan'.qty \in Nat /\ plan'.qty <= plan.qty /\ Exists(t, 1) /\ K' = 2
          /\ pc' = "intent" /\ K = 1 /\ pc = "reprice_readback"
      BY <2>7 DEF Replaces, Standing, Void
    <3>2. plan.qty = orders[t][1].qty
      BY <2>3, <3>1 DEF PlanSize
    <3>3. QED
      BY <2>2, <3>1, <3>2 DEF PlanSize
  <2>8. CASE Holds(t) \/ Closes(t) \/ Opens(t)
    BY <2>8 DEF Holds, Closes, Opens
  <2>9. CASE Elsewhere(t) \/ PassStep(t)
    <3>1. UNCHANGED <<pc, plan>> /\ K' = K
      BY <2>3, <2>9 DEF Elsewhere, PassStep, Merges, Resolves, WritesTracked, Sweeps,
         EntryRests, K
    <3>2. pc = "intent" /\ K = 1 => row'[t] = row[t] \/ row[t].status # "none"
      BY <2>3, <2>9 DEF Elsewhere, SameRecords, PassStep, Merges, Resolves, WritesTracked,
         Sweeps, OnRecord, FirstOnly
    <3>3. pc \in BeforeBuy => row'[t] = row[t] \/ row'[t].status # "hold"
      <4>1. WritesTracked(t) => rpc \in InPass
        BY DEF WritesTracked, InPass
      <4>2. WritesTracked(t) /\ pc \in BeforeBuy => ~Tracked(t)
        BY <2>3, <4>1, NothingPending DEF OnRecord
      <4>3. QED
        BY <2>9, <4>2 DEF Elsewhere, SameRecords, PassStep, Merges, Resolves,
           WritesTracked, Sweeps
    <3>4. QED
      BY <1>0, <2>2, <2>3, <2>4, <3>1, <3>2, <3>3 DEF PlanSize, Exists
  <2>10. QED
    BY <1>3, <2>5, <2>6, <2>7, <2>8, <2>9, <2>3 DEF OwnStep, Flattens, Restarts
<1>4. QED
  BY <1>1, <1>2, <1>3

\* What a pass keeps of a hold covers the order.
LEMMA KeptSizeResolves ==
    ASSUME NEW t, OnRecord(t), HoldSize(t), PlanSize(t), Values(t), Standing(t), Onward(t),
           Resolves(t)
    PROVE  KeptSize(t)'
<1> SUFFICES ASSUME kept'[t] # 0 PROVE KeptSize(t)'
  BY DEF Resolves, KeptSize
<1>1. /\ row[t].status = "hold" /\ kept'[t] = row[t].qty /\ tracker'[t] = tracker[t]
      /\ UNCHANGED <<pc, plan>> /\ rpc' = "resolved" /\ rpc = "merged"
  BY DEF Resolves, EntryRests
<1>2. T' = T /\ K' = K /\ K \in {1, 2} /\ row[t].ord \in {1, 2}
  BY <1>1 DEF T, K, Values, OnRecord, Numbers
<1>3. \A k \in {1, 2} : /\ orders'[t][k].st # "none" => Exists(t, k)
                        /\ Exists(t, k) => orders'[t][k].qty = orders[t][k].qty
  BY <1>1, OrdersRest DEF Exists
<1>4. ASSUME Tracked(t), Exists(t, tracker[t].ord)
      PROVE  tracker[t].ord = row[t].ord
  <2>1. CASE Pending(t)
    BY <1>1, <1>4, <2>1 DEF OnRecord, Recorded, InPass
  <2>2. CASE ~Pending(t)
    BY <1>2, <1>4, <2>2 DEF OnRecord, Numbers, Recorded, Replaced, Standing, Values
  <2>3. QED
    BY <2>1, <2>2
<1>5. Exists(t, row[t].ord) => row[t].qty >= orders[t][row[t].ord].qty
  BY <1>1 DEF HoldSize
<1>6. Tracked(t)' /\ orders'[t][tracker'[t].ord].st # "none"
        => kept'[t] >= orders'[t][tracker'[t].ord].qty
  BY <1>1, <1>2, <1>3, <1>4, <1>5 DEF Tracked, Values
<1>7. ASSUME T = t, pc # "no_fill"
      PROVE  /\ pc \in BeforeBuy => row[t].qty >= plan.qty
             /\ Exists(t, K) => row[t].ord = K
  <2>1. CASE pc = "intent"
    <3>1. K = 2 /\ row[t].ord = 1 /\ ~Exists(t, 2) /\ Exists(t, 1)
      BY <1>1, <1>2, <1>7, <2>1 DEF PlanSize, OnRecord, FirstOnly, Standing, BeforeBuy
    <3>2. plan.qty <= orders[t][1].qty
      BY <1>7, <2>1, <3>1 DEF PlanSize, BeforeBuy
    <3>3. 1 \in {1, 2}
      OBVIOUS
    <3>4. plan.qty \in Nat /\ orders[t][1].qty \in Nat /\ row[t].qty \in Nat
      BY <3>3 DEF Values
    <3>5. row[t].qty >= orders[t][1].qty
      BY <1>5, <3>1
    <3>6. QED
      BY <3>1, <3>2, <3>4, <3>5
  <2>2. CASE pc # "intent"
    <3>1. row[t].ord = K
      BY <1>7, <2>2, OwnNumber DEF OnRecord
    <3>2. pc \in BeforeBuy => row[t].qty >= plan.qty
      BY <1>1, <1>7, <2>2 DEF PlanSize, BeforeBuy
    <3>3. QED
      BY <3>1, <3>2
  <2>3. QED
    BY <2>1, <2>2
<1>8. T' = t /\ pc' # "no_fill" =>
        /\ pc' \in BeforeBuy => kept'[t] >= plan'.qty
        /\ orders'[t][K'].st # "none" => kept'[t] >= orders'[t][K'].qty
  BY <1>1, <1>2, <1>3, <1>5, <1>7
<1>9. QED
  BY <1>1, <1>6, <1>8 DEF KeptSize, Exists

\* And does so until it is written.
LEMMA KeptSizeStep ==
    ASSUME NEW t, OnRecord(t), HoldSize(t), PlanSize(t), KeptSize(t),
           Values(t), Standing(t), Onward(t),
           \/ Elsewhere(t) \/ Begins(t) \/ OwnStep(t) \/ PassStep(t)
           \/ Flattens(t) \/ Restarts(t)
    PROVE  KeptSize(t)'
<1> USE DEF BeforeBuy
<1>0. K \in {1, 2} /\ 1 \in {1, 2} /\ (Tracked(t) => tracker[t].ord \in {1, 2})
  BY DEF Values
<1>1. CASE Begins(t) \/ Restarts(t) \/ WritesTracked(t) \/ Merges(t) \/ Sweeps(t)
  <2>1. kept'[t] = 0
    BY <1>1 DEF Begins, Restarts, WritesTracked, Merges, Sweeps, SameRecords, OnRecord,
       Unstarted, KeptSize
  <2>2. QED
    BY <2>1 DEF KeptSize
<1>2. CASE Resolves(t)
  BY <1>2, KeptSizeResolves
<1>3. CASE Elsewhere(t) \/ OwnStep(t) \/ Flattens(t)
  <2>1. kept'[t] = kept[t] /\ (rpc' # "resolved" => rpc # "resolved")
    BY <1>3 DEF Elsewhere, OwnStep, Intends, Reserves, Drops, Places, Registers, FindsFill,
       Proceeds, Replaces, Holds, Closes, Arms, Opens, OwnRest, Flattens, SameRecords, InPass
  <2> SUFFICES ASSUME kept[t] > 0
               PROVE  /\ Tracked(t)' /\ orders'[t][tracker'[t].ord].st # "none"
                            => kept[t] >= orders'[t][tracker'[t].ord].qty
                      /\ T' = t /\ pc' # "no_fill" =>
                            /\ pc' \in BeforeBuy => kept[t] >= plan'.qty
                            /\ orders'[t][K'].st # "none" => kept[t] >= orders'[t][K'].qty
    BY <2>1 DEF KeptSize, Exists
  <2>2. CASE Places(t)
    <3>1. /\ T = t /\ pc = "place" /\ plan' = plan /\ pc' \in {"placed", "hold"} /\ K' = K
          /\ \/ tracker'[t] = tracker[t] /\ K = 2
             \/ tracker'[t].ord = K
      BY <2>2 DEF Places, OwnRest, K
    <3>2. ~Exists(t, K) /\ (Tracked(t) => tracker[t].ord # 2)
      BY <3>1 DEF Standing, OnRecord, FirstOnly
    <3>3. orders'[t][K].st # "none" => kept[t] >= orders'[t][K].qty
      BY <1>0, <3>1, <3>2 DEF Onward, Buys, Exists, KeptSize
    <3>4. Tracked(t) /\ K = 2 /\ orders'[t][1].st # "none" => kept[t] >= orders'[t][1].qty
      BY <1>0, <3>2 DEF Onward, Buys, Exists, KeptSize
    <3>5. QED
      BY <1>0, <3>1, <3>2, <3>3, <3>4 DEF Tracked
  <2>3. CASE ~Places(t)
    <3>1. ~(pc = "place" /\ pc' \in {"placed", "hold"} /\ T = t)
      BY <1>3, <2>3 DEF Elsewhere, OwnStep, Intends, Reserves, Drops, Registers, FindsFill,
         Proceeds, Replaces, Holds, Closes, Arms, Opens, EntryRests, Flattens
    <3>2. \A k \in {1, 2} : /\ orders'[t][k].st # "none" => Exists(t, k)
                            /\ Exists(t, k) => orders'[t][k].qty = orders[t][k].qty
      BY <3>1, OrdersRest DEF Exists
    <3>3. Tracked(t)' /\ orders'[t][tracker'[t].ord].st # "none"
            => kept[t] >= orders'[t][tracker'[t].ord].qty
      <4>1. CASE Arms(t)
        <5>1. tracker'[t].ord = K /\ T = t /\ pc = "filled"
          BY <4>1 DEF Arms, OwnRest
        <5>2. QED
          BY <1>0, <3>2, <5>1 DEF KeptSize
      <4>2. CASE ~Arms(t)
        <5>1. tracker'[t] \in {tracker[t], NoPosition}
          BY <1>3, <2>3, <4>2 DEF Elsewhere, OwnStep, Intends, Reserves, Drops, Registers,
             FindsFill, Proceeds, Replaces, Holds, Closes, Opens, Flattens, SameRecords, Writes
        <5>2. QED
          BY <1>0, <3>2, <5>1 DEF KeptSize, Tracked
      <4>3. QED
        BY <4>1, <4>2
    <3>4. ASSUME T' = t, pc' # "no_fill"
          PROVE  /\ pc' \in BeforeBuy => kept[t] >= plan'.qty
                 /\ orders'[t][K'].st # "none" => kept[t] >= orders'[t][K'].qty
      <4>1. CASE Replaces(t)
        <5>1. /\ plan'.qty \in Nat /\ plan'.qty <= plan.qty /\ Exists(t, 1) /\ K' = 2 /\ T = t
              /\ pc' = "intent" /\ K = 1 /\ pc = "reprice_readback"
          BY <4>1 DEF Replaces, Standing, Void, OwnRest
        <5>2. plan.qty = orders[t][1].qty /\ ~Exists(t, 2)
          BY <5>1 DEF PlanSize, Standing
        <5>3. kept[t] >= orders[t][1].qty
          BY <5>1 DEF KeptSize
        <5>4. plan.qty \in Nat /\ kept[t] \in Nat
          BY DEF Values
        <5>5. QED
          BY <3>2, <5>1, <5>2, <5>3, <5>4
      <4>2. CASE ~Replaces(t)
        <5>1. /\ T = t /\ K' = K /\ pc # "no_fill"
              /\ pc' \in BeforeBuy => pc \in BeforeBuy /\ plan' = plan
          BY <1>3, <2>3, <3>4, <4>2 DEF Elsewhere, OwnStep, Intends, Reserves, Drops,
             Registers, FindsFill, Proceeds, Holds, Closes, Arms, Opens, OwnRest,
             EntryRests, Flattens, T, K
        <5>2. QED
          BY <1>0, <3>2, <5>1 DEF KeptSize
      <4>3. QED
        BY <4>1, <4>2
    <3>5. QED
      BY <3>3, <3>4
  <2>4. QED
    BY <2>2, <2>3
<1>4. QED
  BY <1>1, <1>2, <1>3 DEF PassStep

-----------------------------------------------------------------------------
(* The invariant of the records, and what it promises                      *)

\* The records of every trade name its orders rightly and keep their sizes.
Records ==
    \A t \in Trades : OnRecord(t) /\ HoldSize(t) /\ PlanSize(t) /\ KeptSize(t)

\* Every step keeps the records true.
LEMMA RecordsStep ==
    ASSUME IInv, Records, ~SlowPass, [Next]_vars
    PROVE  Records'
<1> SUFFICES ASSUME NEW t \in Trades
             PROVE  (OnRecord(t) /\ HoldSize(t) /\ PlanSize(t) /\ KeptSize(t))'
  BY DEF Records
<1>1. /\ OnRecord(t) /\ HoldSize(t) /\ PlanSize(t) /\ KeptSize(t)
      /\ Values(t) /\ Standing(t) /\ Onward(t)
  BY Views, StepViews DEF Records
<1>2. \/ Elsewhere(t) \/ Begins(t) \/ OwnStep(t) \/ PassStep(t)
      \/ Flattens(t) \/ Restarts(t)
  BY Moves
<1>3. Unstarted(t)'
  BY <1>1, <1>2, UnstartedStep DEF OnRecord
<1>4. Numbers(t)'
  BY <1>1, <1>2, NumbersStep DEF OnRecord
<1>5. FirstOnly(t)'
  BY <1>1, <1>2, FirstOnlyStep DEF OnRecord
<1>6. Recorded(t)'
  BY <1>1, <1>2, RecordedStep DEF OnRecord
<1>7. HoldSize(t)'
  BY <1>1, <1>2, <1>4, HoldSizeStep
<1>8. PlanSize(t)'
  BY <1>1, <1>2, PlanSizeStep
<1>9. KeptSize(t)'
  BY <1>1, <1>2, KeptSizeStep
<1>10. QED
  BY <1>3, <1>4, <1>5, <1>6, <1>7, <1>8, <1>9 DEF OnRecord

\* So they always are, if no pass outlasts the wait for a fill.
LEMMA RecordsInvariant ==
    ASSUME ~SlowPass
    PROVE  Spec => []Records
<1>1. Init => Records
  <2> SUFFICES ASSUME Init, NEW t \in Trades
               PROVE  OnRecord(t) /\ HoldSize(t) /\ PlanSize(t) /\ KeptSize(t)
    BY DEF Records
  <2>1. /\ row[t] = NoRow /\ ~Tracked(t) /\ kept[t] = 0 /\ T # t
        /\ \A k \in OrderNumbers : ~Exists(t, k)
    BY DEF Init, Tracked, Exists, NoOrder, NoPlan, T, Trades
  <2>2. row[t].status = "none" /\ row[t].ord = 0 /\ ~Exists(t, 2)
    BY <2>1 DEF NoRow, OrderNumbers
  <2>3. QED
    BY <2>1, <2>2 DEF OnRecord, Unstarted, Numbers, FirstOnly, Recorded, Replaced, HoldSize,
       PlanSize, KeptSize
<1>2. IInv /\ Records /\ [Next]_vars => Records'
  BY RecordsStep
<1>3. QED
  BY <1>1, <1>2, InductiveInvariant, PTL DEF Spec

\* A held record never shows fewer contracts than its order was submitted for,
\* if no reconciliation pass outlasts the wait for a fill.
THEOREM HoldsKeepQuantity ==
    ASSUME ~SlowPass
    PROVE  Spec => []HoldKeepsSubmittedQuantity
<1>1. Records => HoldKeepsSubmittedQuantity
  BY DEF Records, HoldSize, Exists, HoldKeepsSubmittedQuantity
<1>2. QED
  BY <1>1, RecordsInvariant, PTL

\* The entry places no BUY whose risk was given back.
Backed == pc = "place" => risk[T] # "released"

\* Whoever gives a reservation back does so for a trade that bought nothing
\* and has nothing at work.
LEMMA GivenBack ==
    ASSUME IInv, Records, NoFill, [Next]_vars, NEW t \in Trades, risk'[t] = "released"
    PROVE  \/ risk[t] = "released"
           \/ ~Busy(t) /\ UNCHANGED <<orders, held>> /\ pc' # "place"
           \/ ~Busy(t) /\ UNCHANGED <<orders, held, pc, plan>> /\ ~(T = t /\ pc = "place")
<1>0. risk \in [Trades -> Reservation] /\ (pc # "idle" => T \in Trades)
  BY DEF IInv, TypeOK, Attempt
<1>1. CASE Refused
  BY <1>0, <1>1, BeforePlacing DEF Refused, Unsubmitted, broker
<1>2. CASE ReplacementUnfunded
  BY <1>0, <1>2, AfterDying DEF ReplacementUnfunded, broker
<1>3. CASE CloseNoFill
  BY <1>0, <1>3 DEF CloseNoFill, NoFill, broker
<1>4. ASSUME NEW unread \in SUBSET Trades, Resolve(unread), risk[t] # "released"
      PROVE  ~Busy(t) /\ UNCHANGED <<orders, held, pc, plan>> /\ ~(T = t /\ pc = "place")
  <2>1. Releases(t)
    BY <1>4 DEF Resolve
  <2>2. UNCHANGED <<orders, held, pc, plan>>
    BY <1>4 DEF Resolve, broker, entry
  <2>3. /\ row[t].ord \in {1, 2} /\ SafeToReplaceOrClose(t, row[t].ord)
        /\ Recorded(t) /\ Values(t) /\ Standing(t)
        /\ FirstOnly(t)
    BY <2>1, Views DEF Releases, Values, Records, OnRecord
  <2>4. Exists(t, 2) => row[t].ord = 2
    BY <2>3 DEF Recorded, Replaced
  <2>5. \A k \in OrderNumbers : orders[t][k].st = "none" \/ SafeToReplaceOrClose(t, k)
    <3>1. CASE row[t].ord = 1
      BY <2>3, <2>4, <3>1 DEF Exists, OrderNumbers
    <3>2. CASE row[t].ord = 2
      <4>1. Exists(t, 2)
        BY <2>3, <3>2 DEF Exists, SafeToReplaceOrClose
      <4>2. SafeToReplaceOrClose(t, 1)
        BY <2>3, <4>1 DEF Standing, Void
      <4>3. QED
        BY <2>3, <3>2, <4>2 DEF OrderNumbers
    <3>3. QED
      BY <2>3, <3>1, <3>2
  <2>6. ~Busy(t)
    BY <2>5, NotBusy DEF IInv
  <2>7. ~(T = t /\ pc = "place")
    <3> SUFFICES ASSUME T = t, pc = "place" PROVE FALSE
      OBVIOUS
    <3>1. row[t].ord = K /\ ~Exists(t, K)
      BY <2>3, OwnNumber DEF Standing, BeforeBuy
    <3>2. QED
      BY <2>3, <3>1 DEF Exists, SafeToReplaceOrClose
  <2>8. QED
    BY <2>2, <2>6, <2>7
<1>5. QED
  BY <1>0, <1>1, <1>2, <1>3, <1>4
     DEF Next, Broker, Fills, Dies, Begin, Entry, PersistIntent, ReserveRisk, Place,
         Register, WaitFindsFill, WaitFindsDead, WaitTimesOut, RequestCancel,
         ReadbackFindsFill, ReadbackFindsDead, ReadbackUnconfirmed, Hold, ArmFirstStop,
         RecordOpen, Reconcile, Fetch, Merge, WriteTracked, Sweep, PassEnds, Crash,
         ForcedFlat, vars, disk

\* A risk reservation is given back only when no BUY of its trade works and
\* none bought anything, whoever gives it back, if no reconciliation pass
\* outlasts the wait for a fill.
THEOREM ReleasesAreSafe ==
    ASSUME ~SlowPass
    PROVE  Spec => []ReleasedMeansUnfilled
<1> DEFINE Inv == Backed /\ ReleasedMeansUnfilled
<1>1. Init => Inv
  BY DEF Init, Backed, ReleasedMeansUnfilled
<1>2. IInv /\ Records /\ NoFill /\ Inv /\ [Next]_vars => Inv'
  <2> SUFFICES ASSUME IInv, Records, NoFill, Backed, ReleasedMeansUnfilled, [Next]_vars
               PROVE  Backed' /\ ReleasedMeansUnfilled'
    OBVIOUS
  <2>1. ASSUME NEW t \in Trades, risk'[t] = "released" PROVE ~Busy(t)'
    <3>1. CASE risk[t] = "released"
      <4>1. ~Busy(t) /\ \A k \in OrderNumbers : ~Placed(t, k)
        BY <3>1 DEF ReleasedMeansUnfilled, Backed, Placed
      <4>2. QED
        BY <4>1, OrdersStay
    <3>2. CASE ~Busy(t) /\ UNCHANGED <<orders, held>>
      BY <3>2 DEF Busy, MayFill
    <3>3. QED
      BY <2>1, <3>1, <3>2, GivenBack
  <2>2. ASSUME pc' = "place" PROVE risk'[T'] # "released"
    <3>1. CASE ReserveRisk
      <4>1. T \in Trades /\ T' = T /\ risk'[T] = "reserved"
        BY <3>1 DEF ReserveRisk, IInv, Attempt, TypeOK, T
      <4>2. QED
        BY <4>1
    <3>2. CASE ~ReserveRisk
      <4>1. pc = "place" /\ T' = T
        BY <2>2, <3>2 DEF Next, Broker, Fills, Dies, Begin, Entry, PersistIntent, Refused,
           Unsubmitted, Place, Register, WaitFindsFill, FoundFilled, WaitFindsDead,
           WaitTimesOut, RequestCancel, ReadbackFindsFill, ReadbackFindsDead,
           ReplacementUnfunded, ReadbackUnconfirmed, Hold, CloseNoFill, ArmFirstStop,
           RecordOpen, Reconcile, Fetch, Merge, Resolve, WriteTracked, Sweep, PassEnds,
           Crash, ForcedFlat, vars, entry, T
      <4>2. T \in Trades /\ risk[T] # "released"
        BY <4>1 DEF Backed, IInv, Attempt
      <4>3. QED
        BY <2>2, <4>1, <4>2, GivenBack
    <3>3. QED
      BY <3>1, <3>2
  <2>3. QED
    BY <2>1, <2>2 DEF Backed, ReleasedMeansUnfilled
<1>3. QED
  BY <1>1, <1>2, InductiveInvariant, LaneInvariant, RecordsInvariant, PTL DEF Spec
=============================================================================
