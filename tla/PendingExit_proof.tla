------------------------- MODULE PendingExit_proof -------------------------
(***************************************************************************)
(* Proofs about PendingExit.  The types hold whatever of UnusualEvents may *)
(* happen.  The three safety properties hold when none of them does, and   *)
(* rest on one picture: at any time one order at most is current, it is    *)
(* the one the tracker, the row, a snapshot in flight and the coroutine    *)
(* name, and what it has not filled is what the account holds.             *)
(***************************************************************************)
EXTENDS PendingExit, Sums_proof, FiniteSetTheorems, TLAPS

\* Where the coroutine is, its captured position and its job fit together.
Handler ==
    /\ pc \in {"idle", "down"} => look = NoPosition /\ job = NoJob
    /\ pc \in {"poll", "readback"} =>
          look # NoPosition /\ look.mode # NoMode /\ job = NoJob
    /\ pc = "readback" =>
          look.order # None /\ (look.mode = "HARD_FLAT" => look.reprices = 0)
    /\ pc \in {"place", "track"} =>
          /\ look # NoPosition /\ job.mode # NoMode
          /\ job.qty >= 1 /\ look.reprices + job.bump <= 1
    /\ pc = "place" => job.sent = None
    /\ pc = "down" => snap = NoSnapshot
    /\ due => "fallback" \in Unusual

\* An order that works has something left, and nobody holds more than there was.
Amounts ==
    /\ \A o \in OrderNumbers :
          /\ orders[o].filled <= orders[o].qty
          /\ orders[o].st = "working" => orders[o].filled < orders[o].qty
          /\ orders[o].odd => "unparseable" \in Unusual
    /\ held <= Quantity
    /\ snap # NoSnapshot => snap.qty <= Quantity

IInv == TypeOK /\ Handler /\ Amounts

-----------------------------------------------------------------------------
\* The order everyone is about: the one just sent, or else the one of the row.
Current == IF job.sent # None THEN job.sent ELSE trade.order

\* Until the current order fills something, this is the quantity it is for.
Fits(q) == (Current = None \/ orders[Current].filled = 0) => q = held

\* The broker's side: only the current order works, and what it has left is
\* what is held.
One ==
    /\ \A o \in OrderNumbers : orders[o].st = "working" => o = Current
    /\ Current # None =>
          /\ orders[Current].st # "none"
          /\ orders[Current].qty - orders[Current].filled = held
          /\ orders[Current].st = "filled" => held = 0
    /\ Current = None => held >= 1

\* The books: legs and the current order are all that was sold.
Books ==
    /\ booked + (IF Current = None \/ Current \in legs THEN 0 ELSE orders[Current].filled)
          = Quantity - held
    /\ Current # None /\ Current \in legs =>
          orders[Current].st = "dead" /\ orders[Current].filled < orders[Current].qty

\* Every copy of the position names the current order.
Copies ==
    /\ job.sent = None =>
          \A p \in {pos, look} \ {NoPosition} : p.order = trade.order /\ Fits(p.qty)
    /\ job.sent = None /\ pc # "down" /\ held > 0 => pos # NoPosition
    /\ snap # NoSnapshot =>
          /\ snap.row = trade
          /\ snap.indexed \in {None, Current}
          /\ snap.qty >= held /\ Fits(snap.qty)
    /\ trade.status = "closed" =>
          held = 0 /\ (snap # NoSnapshot => snap.qty = 0) /\ (job.sent = None => pos = NoPosition)

\* What is about to be sent, or was, is what is held.
Sending ==
    /\ pc \in {"place", "track"} /\ job.sent = None =>
          /\ job.qty = held
          /\ \A o \in OrderNumbers : orders[o].st # "working"
          /\ Current # None /\ orders[Current].filled > 0 => Current \in legs
    /\ job.sent # None => Fits(job.qty)

Sure == One /\ Books /\ Copies /\ Sending

-----------------------------------------------------------------------------
(* Shapes                                                                  *)

\* The constants that types are made of.
LEMMA Constants ==
    /\ Quantity \in Nat /\ Quantity >= 1 /\ MaxOrders \in Nat /\ Budget \in Nat
    /\ MaxShort \in Nat
    /\ NoJob \in Job /\ NoOrder \in Order
    /\ NoPosition \notin Position /\ NoSnapshot \notin Snapshot
    /\ OrderNumbers \subseteq 0..MaxOrders /\ None \in 0..MaxOrders /\ None \notin OrderNumbers
    /\ \A o \in 0..MaxOrders : o # None => o \in OrderNumbers
    /\ NoMode \notin Modes
<1>1. /\ Quantity \in Nat /\ Quantity >= 1 /\ MaxOrders \in Nat /\ Budget \in Nat
      /\ MaxShort \in Nat
  BY SizesAssumption
<1>2. NoMode \notin Modes
  BY ModesAssumption DEF NoMode
<1>3. /\ OrderNumbers \subseteq 0..MaxOrders /\ None \in 0..MaxOrders /\ None \notin OrderNumbers
      /\ \A o \in 0..MaxOrders : o # None => o \in OrderNumbers
  BY <1>1 DEF OrderNumbers, None
<1>4. NoJob \in Job /\ NoOrder \in Order
  BY <1>1, <1>3 DEF NoJob, NoOrder, Job, Order
<1>5. QED
  BY <1>1, <1>2, <1>3, <1>4, SentinelsAssumption

\* The fields of the records.
LEMMA Fields ==
    /\ \A r \in Order : /\ r.qty \in 0..Quantity /\ r.filled \in 0..Quantity
                        /\ r.limit \in BOOLEAN /\ r.cxl \in BOOLEAN /\ r.odd \in BOOLEAN
                        /\ r.st \in {"none", "working", "filled", "dead"}
    /\ \A r \in Position : /\ r.qty \in 1..Quantity /\ r.order \in 0..MaxOrders
                           /\ r.mode \in Modes \cup {NoMode} /\ r.reprices \in 0..1
    /\ \A r \in Row : /\ r.status \in {"open", "exit_pending", "closed"}
                      /\ r.order \in 0..MaxOrders /\ r.mode \in Modes \cup {NoMode}
    /\ \A r \in Job : /\ r.qty \in 0..Quantity /\ r.mode \in Modes \cup {NoMode}
                      /\ r.forced \in BOOLEAN /\ r.bump \in 0..1 /\ r.sent \in 0..MaxOrders
    /\ \A r \in Snapshot : /\ r.qty \in Int /\ r.indexed \in 0..MaxOrders
                           /\ r.row \in Row /\ r.read \in BOOLEAN
BY DEF Order, Position, Row, Job, Snapshot

\* NoJob sends nothing.
LEMMA NoJobFields == NoJob.sent = None /\ NoJob.mode = NoMode /\ NoJob.qty = 0
BY DEF NoJob

\* Records made of typed fields.
LEMMA Makes ==
    /\ \A q \in 1..Quantity, o \in 0..MaxOrders, m \in Modes \cup {NoMode}, n \in 0..1 :
          [qty |-> q, order |-> o, mode |-> m, reprices |-> n] \in Position
    /\ \A t \in {"open", "exit_pending", "closed"}, o \in 0..MaxOrders, m \in Modes \cup {NoMode} :
          [status |-> t, order |-> o, mode |-> m] \in Row
    /\ \A q \in 0..Quantity, m \in Modes \cup {NoMode}, f \in BOOLEAN, b \in 0..1,
          o \in 0..MaxOrders :
          [qty |-> q, mode |-> m, forced |-> f, bump |-> b, sent |-> o] \in Job
    /\ \A q \in Int, o \in 0..MaxOrders, t \in Row, b \in BOOLEAN :
          [qty |-> q, indexed |-> o, row |-> t, read |-> b] \in Snapshot
BY DEF Position, Row, Job, Snapshot

-----------------------------------------------------------------------------
(* Types                                                                   *)

\* What the coroutine's steps other than Place and Track come to.
Waits == Return /\ UNCHANGED <<pos, snap, trade, fills>>

Ends ==
    /\ look.order # None
    /\ orders[look.order].st \in {"filled", "dead"}
    /\ orders[look.order].st = "dead" => orders[look.order].filled >= orders[look.order].qty
    /\ Finalize

Again(q, forced, bump) ==
    /\ Resubmit(q, forced, bump)
    /\ UNCHANGED trade
    /\ look.reprices + bump <= 1
    /\ \/ look.order = None /\ q = look.qty /\ UNCHANGED fills
       \/ /\ look.order # None
          /\ orders[look.order].st = "dead"
          /\ orders[look.order].filled < orders[look.order].qty
          /\ \/ /\ orders[look.order].filled > 0
                /\ q = orders[look.order].qty - orders[look.order].filled
                /\ RecordLeg(look.order)
             \/ /\ orders[look.order].filled = 0
                /\ q = look.qty
                /\ UNCHANGED fills
       \/ Unusual # {} /\ q = look.qty /\ UNCHANGED fills

Polls == StatusUnavailable \/ PollFindsFill \/ PollFindsNoOrder \/ PollFindsDead
         \/ PollFindsWorking \/ CancelReadback \/ MarketFallback

\* The ladder of a dead order.
LEMMA LadderCases ==
    ASSUME IInv, NEW bump \in 0..1, Ladder(look.order, bump), look \in Position,
           look.order # None, orders[look.order].st = "dead", look.reprices + bump <= 1
    PROVE  Ends \/ \E q \in 1..Quantity, forced \in BOOLEAN, b \in 0..1 : Again(q, forced, b)
<1>1. look.order \in OrderNumbers /\ look.qty \in 1..Quantity
  BY Constants, Fields
<1>2. PICK o : o = orders[look.order]
  OBVIOUS
<1>3. o \in Order /\ o.qty \in 0..Quantity /\ o.filled \in 0..Quantity /\ o.filled <= o.qty
  BY <1>1, <1>2, Fields DEF IInv, TypeOK, Amounts
<1>4. CASE o.filled >= o.qty
  BY <1>2, <1>4 DEF Ladder, Ends
<1>5. CASE ~(o.filled >= o.qty) /\ o.filled > 0
  <2>1. /\ Resubmit(o.qty - o.filled, look.mode = "EMERGENCY", bump)
        /\ UNCHANGED trade /\ RecordLeg(look.order)
    BY <1>2, <1>5 DEF Ladder
  <2>2. o.qty - o.filled \in 1..Quantity /\ o.filled < o.qty
    BY <1>3, <1>5, Constants
  <2>3. Again(o.qty - o.filled, look.mode = "EMERGENCY", bump)
    BY <1>2, <1>5, <2>1, <2>2 DEF Again
  <2>4. QED
    BY <2>2, <2>3
<1>6. CASE ~(o.filled >= o.qty) /\ ~(o.filled > 0)
  <2>1. /\ Resubmit(look.qty, look.mode = "EMERGENCY", bump)
        /\ UNCHANGED trade /\ UNCHANGED fills
    BY <1>2, <1>6 DEF Ladder
  <2>2. o.filled = 0 /\ o.filled < o.qty
    BY <1>3, <1>6
  <2>3. Again(look.qty, look.mode = "EMERGENCY", bump)
    BY <1>2, <2>1, <2>2 DEF Again
  <2>4. QED
    BY <1>1, <2>3
<1>7. QED
  BY <1>4, <1>5, <1>6

\* Every poll waits, ends the exit or goes on to submit.
LEMMA PollCases ==
    ASSUME IInv, Polls
    PROVE  /\ pc \in {"poll", "readback"} /\ look \in Position /\ look.mode \in Modes
           /\ UNCHANGED <<broker, due>> /\ budget' \in 0..Budget
           /\ \/ Waits \/ Ends
              \/ \E q \in 1..Quantity, forced \in BOOLEAN, b \in 0..1 : Again(q, forced, b)
<1> USE DEF IInv
<1>1. pc \in {"poll", "readback"}
  BY DEF Polls, StatusUnavailable, PollFindsFill, PollFindsNoOrder, PollFindsDead,
         PollFindsWorking, CancelReadback, MarketFallback
<1>2. look \in Position /\ look.mode \in Modes
  BY <1>1, Fields DEF Handler, TypeOK
<1>3. /\ look.order \in 0..MaxOrders /\ look.qty \in 1..Quantity /\ look.reprices \in 0..1
      /\ budget \in 0..Budget
  BY <1>2, Fields DEF TypeOK
<1>4. CASE StatusUnavailable
  BY <1>1, <1>2, <1>3, <1>4, Constants DEF StatusUnavailable, Spends, Waits, broker
<1>5. CASE PollFindsFill
  BY <1>1, <1>2, <1>3, <1>5 DEF PollFindsFill, Ends
<1>6. CASE PollFindsNoOrder
  <2>1. Again(look.qty, look.mode = "EMERGENCY", 0)
    BY <1>3, <1>6 DEF PollFindsNoOrder, Again
  <2>2. 0 \in 0..1 /\ (look.mode = "EMERGENCY") \in BOOLEAN
    OBVIOUS
  <2>3. \E q \in 1..Quantity, forced \in BOOLEAN, b \in 0..1 : Again(q, forced, b)
    BY <1>3, <2>1, <2>2, Zenon
  <2>4. QED
    BY <1>1, <1>2, <1>3, <1>6, <2>3 DEF PollFindsNoOrder
<1>7. CASE PollFindsDead
  <2>1. /\ look.order # None /\ orders[look.order].st = "dead"
        /\ UNCHANGED <<broker, due, budget>>
    BY <1>7 DEF PollFindsDead
  <2>2. CASE orders[look.order].odd
    BY <1>1, <1>2, <1>3, <1>7, <2>1, <2>2 DEF PollFindsDead, Waits
  <2>3. CASE ~orders[look.order].odd
    <3>1. Ladder(look.order, 0) /\ 0 \in 0..1 /\ look.reprices + 0 <= 1
      BY <1>3, <1>7, <2>3 DEF PollFindsDead
    <3>2. Ends \/ \E q \in 1..Quantity, forced \in BOOLEAN, b \in 0..1 : Again(q, forced, b)
      BY <1>2, <2>1, <3>1, LadderCases
    <3>3. QED
      BY <1>1, <1>2, <1>3, <2>1, <3>2
  <2>4. QED
    BY <2>2, <2>3
<1>8. CASE PollFindsWorking
  BY <1>1, <1>2, <1>3, <1>8 DEF PollFindsWorking, Waits
<1>9. CASE CancelReadback
  <2>1. PICK b \in 0..1 : b = IF look.mode = "HARD_FLAT" THEN 1 ELSE 0
    OBVIOUS
  <2>2. pc = "readback" /\ look.order # None /\ UNCHANGED <<broker, due, budget>>
    BY <1>9 DEF CancelReadback, Handler
  <2>3. look.reprices + b <= 1
    <3>1. look.mode = "HARD_FLAT" => look.reprices = 0
      BY <2>2 DEF Handler
    <3>2. QED
      BY <1>3, <2>1, <3>1
  <2>4. \/ orders[look.order].st = "filled" /\ Finalize
        \/ Return /\ UNCHANGED <<pos, snap, trade, fills>>
        \/ orders[look.order].st = "dead" /\ Ladder(look.order, b)
        \/ /\ orders[look.order].st = "dead" /\ orders[look.order].odd
           /\ Resubmit(look.qty, FALSE, b) /\ UNCHANGED <<trade, fills>>
    BY <1>9, <2>1 DEF CancelReadback
  <2>5. CASE orders[look.order].st = "filled" /\ Finalize
    BY <1>1, <1>2, <1>3, <2>2, <2>5 DEF Ends
  <2>6. CASE Return /\ UNCHANGED <<pos, snap, trade, fills>>
    BY <1>1, <1>2, <1>3, <2>2, <2>6 DEF Waits
  <2>7. CASE orders[look.order].st = "dead" /\ Ladder(look.order, b)
    <3>1. Ends \/ \E q \in 1..Quantity, forced \in BOOLEAN, e \in 0..1 : Again(q, forced, e)
      BY <1>2, <2>2, <2>3, <2>7, LadderCases
    <3>2. QED
      BY <1>1, <1>2, <1>3, <2>2, <3>1
  <2>8. CASE /\ orders[look.order].st = "dead" /\ orders[look.order].odd
             /\ Resubmit(look.qty, FALSE, b) /\ UNCHANGED <<trade, fills>>
    <3>1. Unusual # {}
      BY <1>3, <2>2, <2>8, Constants DEF Amounts
    <3>2. Again(look.qty, FALSE, b)
      BY <2>3, <2>8, <3>1 DEF Again
    <3>3. QED
      BY <1>1, <1>2, <1>3, <2>2, <3>2
  <2>9. QED
    BY <2>4, <2>5, <2>6, <2>7, <2>8
<1>10. CASE MarketFallback
  <2>1. Unusual # {} /\ look.reprices + 0 <= 1
    BY <1>3, <1>10 DEF MarketFallback, Handler
  <2>2. Again(look.qty, TRUE, 0)
    BY <1>10, <2>1 DEF MarketFallback, Again
  <2>3. 0 \in 0..1 /\ TRUE \in BOOLEAN
    OBVIOUS
  <2>4. \E q \in 1..Quantity, forced \in BOOLEAN, b \in 0..1 : Again(q, forced, b)
    BY <1>3, <2>2, <2>3, Zenon
  <2>5. QED
    BY <1>1, <1>2, <1>3, <1>10, <2>4 DEF MarketFallback
<1>11. QED
  BY <1>4, <1>5, <1>6, <1>7, <1>8, <1>9, <1>10 DEF Polls
\* A poll keeps the types.
LEMMA PollTypes ==
    ASSUME IInv, Polls
    PROVE  IInv'
<1> USE DEF IInv
<1>1. /\ pc \in {"poll", "readback"} /\ look \in Position /\ look.mode \in Modes
      /\ UNCHANGED <<broker, due>> /\ budget' \in 0..Budget
  BY PollCases
<1>2. orders' = orders /\ held' = held /\ due' = due
  BY <1>1 DEF broker
<1>3. CASE Waits
  <2>1. /\ pc' = "idle" /\ look' = NoPosition /\ job' = NoJob
        /\ UNCHANGED <<pos, snap, trade, legs, booked>>
    BY <1>3 DEF Waits, Return, fills
  <2>2. QED
    BY <1>1, <1>2, <2>1, Constants DEF TypeOK, Handler, Amounts
<1>4. CASE Ends
  <2>1. /\ pc' = "idle" /\ look' = NoPosition /\ job' = NoJob /\ pos' = NoPosition
        /\ trade' = [trade EXCEPT !.status = "closed", !.order = look.order]
        /\ UNCHANGED <<snap, legs, booked>>
    BY <1>4 DEF Ends, Finalize, Return, fills, Outdates
  <2>2. trade' \in Row
    <3>1. trade' = [status |-> "closed", order |-> look.order, mode |-> trade.mode]
      BY <2>1 DEF TypeOK, Row
    <3>2. QED
      BY <1>1, <3>1, Fields, Makes DEF TypeOK
  <2>3. QED
    BY <1>1, <1>2, <2>1, <2>2, Constants DEF TypeOK, Handler, Amounts
<1>5. CASE \E q \in 1..Quantity, forced \in BOOLEAN, b \in 0..1 : Again(q, forced, b)
  <2>1. PICK q \in 1..Quantity, forced \in BOOLEAN, b \in 0..1 : Again(q, forced, b)
    BY <1>5
  <2>2. /\ pc' = "place" /\ look' = look /\ pos' = pos /\ snap' = snap /\ trade' = trade
        /\ job' = [qty |-> q, mode |-> look.mode, forced |-> forced, bump |-> b, sent |-> None]
        /\ look.reprices + b <= 1
    BY <2>1 DEF Again, Resubmit
  <2>3. job' \in Job /\ job'.qty = q /\ job'.mode = look.mode /\ job'.bump = b /\ job'.sent = None
    <3>1. q \in 0..Quantity
      BY Constants
    <3>2. QED
      BY <1>1, <2>2, <3>1, Makes, Constants
  <2>4. legs' \subseteq OrderNumbers /\ booked' \in Nat
    <3>1. CASE UNCHANGED fills
      BY <3>1 DEF fills, TypeOK
    <3>2. CASE RecordLeg(look.order) /\ look.order # None
      <4>1. look.order \in OrderNumbers
        BY <1>1, <3>2, Fields, Constants
      <4>2. orders[look.order].filled \in Nat
        <5>1. orders[look.order] \in Order
          BY <4>1 DEF TypeOK
        <5>2. QED
          BY <5>1, Fields, Constants
      <4>3. QED
        BY <3>2, <4>1, <4>2 DEF RecordLeg, TypeOK
    <3>3. QED
      BY <2>1, <3>1, <3>2 DEF Again
  <2>5. TypeOK'
    BY <1>1, <1>2, <2>2, <2>3, <2>4 DEF TypeOK
  <2>6. look # NoPosition /\ look.mode # NoMode /\ q >= 1
    BY <1>1, Constants
  <2>7. Handler' /\ Amounts'
    BY <1>2, <2>2, <2>3, <2>6 DEF Handler, Amounts
  <2>8. QED
    BY <2>5, <2>7
<1>6. QED
  BY <1>3, <1>4, <1>5, PollCases

\* One working order moves at the broker, or only its flags do.
LEMMA MarketMoves ==
    ASSUME IInv, NEW o \in OrderNumbers, Fill(o) \/ Dies(o)
    PROVE  /\ orders[o].st = "working"
           /\ orders' \in [OrderNumbers -> Order]
           /\ \A x \in OrderNumbers : x # o => orders'[x] = orders[x]
           /\ orders'[o].qty = orders[o].qty /\ orders'[o].limit = orders[o].limit
           /\ orders'[o].st \in {"working", "filled", "dead"}
           /\ orders'[o].odd => orders[o].odd \/ "unparseable" \in Unusual
           /\ \/ /\ held' = held - 1 /\ orders'[o].filled = orders[o].filled + 1
                 /\ orders'[o].st = "working" <=> orders'[o].filled < orders[o].qty
                 /\ orders'[o].st = "filled" => orders'[o].filled = orders[o].qty
              \/ /\ held' = held /\ orders'[o].filled = orders[o].filled
                 /\ orders'[o].st = "dead"
           /\ UNCHANGED <<pos, pc, look, job, snap, trade, legs, booked, due>>
           /\ budget' \in 0..Budget
<1> USE DEF IInv
<1>1. PICK r \in Order : r = orders[o]
  BY DEF TypeOK
<1>2. /\ r.qty \in 0..Quantity /\ r.filled \in 0..Quantity /\ r.limit \in BOOLEAN
      /\ r.cxl \in BOOLEAN /\ r.odd \in BOOLEAN /\ r.filled <= r.qty
      /\ budget \in 0..Budget /\ Budget \in Nat /\ Quantity \in Nat
      /\ orders \in [OrderNumbers -> Order]
      /\ r.st = "working" => r.filled < r.qty
  BY <1>1, Fields, Constants DEF TypeOK, Amounts
<1>3. CASE Fill(o)
  <2>1. PICK last \in {"filled", "dead"} :
            orders' = [orders EXCEPT ![o].filled = @ + 1,
                                     ![o].st = IF Remaining(o) = 1 THEN last ELSE @]
    BY <1>3 DEF Fill
  <2>2. r.st = "working" /\ Remaining(o) = r.qty - r.filled
    BY <1>1, <1>3 DEF Fill, Remaining
  <2>3. PICK t : t = IF r.qty - r.filled = 1 THEN last ELSE r.st
    OBVIOUS
  <2>4. /\ t \in {"working", "filled", "dead"} /\ r.filled + 1 \in 0..Quantity
        /\ (t = "working" <=> r.filled + 1 < r.qty)
        /\ (t = "filled" => r.filled + 1 = r.qty)
    BY <1>2, <2>2, <2>3
  <2>5. /\ orders' = [orders EXCEPT ![o] = [r EXCEPT !.filled = r.filled + 1, !.st = t]]
    BY <1>1, <1>2, <2>1, <2>2, <2>3 DEF Order
  <2>6. PICK e : e = [r EXCEPT !.filled = r.filled + 1, !.st = t]
    OBVIOUS
  <2>7. /\ e \in Order /\ e.filled = r.filled + 1 /\ e.st = t /\ e.qty = r.qty
        /\ e.limit = r.limit /\ e.odd = r.odd
    BY <2>4, <2>6 DEF Order
  <2>8. orders' \in [OrderNumbers -> Order] /\ orders'[o] = e
        /\ \A x \in OrderNumbers : x # o => orders'[x] = orders[x]
    BY <1>2, <2>5, <2>6, <2>7
  <2>9. held' = held - 1 /\ UNCHANGED <<pos, pc, look, job, snap, trade, legs, booked, due>>
        /\ budget' = budget
    BY <1>3 DEF Fill, memory, fills
  <2>10. QED
    BY <1>1, <1>2, <2>2, <2>4, <2>7, <2>8, <2>9
<1>4. CASE Dies(o)
  <2>1. PICK odd \in BOOLEAN :
            /\ odd => "unparseable" \in Unusual
            /\ IF odd \/ ~orders[o].cxl THEN Spends ELSE UNCHANGED budget
            /\ orders' = [orders EXCEPT ![o].st = "dead", ![o].odd = odd]
    BY <1>4 DEF Dies
  <2>2. budget' \in 0..Budget
    BY <1>2, <2>1 DEF Spends
  <2>3. r.st = "working"
    BY <1>1, <1>4 DEF Dies
  <2>4. /\ orders' = [orders EXCEPT ![o] = [r EXCEPT !.st = "dead", !.odd = odd]]
    BY <1>1, <1>2, <2>1 DEF Order
  <2>5. PICK e : e = [r EXCEPT !.st = "dead", !.odd = odd]
    OBVIOUS
  <2>6. /\ e \in Order /\ e.filled = r.filled /\ e.st = "dead" /\ e.qty = r.qty
        /\ e.limit = r.limit /\ e.odd = odd
    BY <2>5 DEF Order
  <2>7. orders' \in [OrderNumbers -> Order] /\ orders'[o] = e
        /\ \A x \in OrderNumbers : x # o => orders'[x] = orders[x]
    BY <1>2, <2>4, <2>5, <2>6
  <2>8. held' = held /\ UNCHANGED <<pos, pc, look, job, snap, trade, legs, booked, due>>
    BY <1>4 DEF Dies, memory, fills
  <2>9. QED
    BY <1>1, <2>1, <2>2, <2>3, <2>6, <2>7, <2>8
<1>5. QED
  BY <1>3, <1>4

\* Fills and deaths keep the types.
LEMMA MarketTypes ==
    ASSUME IInv, NEW o \in OrderNumbers, Fill(o) \/ Dies(o)
    PROVE  IInv'
<1> USE DEF IInv
<1>1. held' \in Int /\ held' <= Quantity
  BY MarketMoves, Constants DEF TypeOK, Amounts
<1>2. TypeOK'
  BY <1>1, MarketMoves DEF TypeOK
<1>3. Handler'
  BY MarketMoves DEF Handler
<1>4. ASSUME NEW x \in OrderNumbers
      PROVE  /\ orders'[x].filled <= orders'[x].qty
             /\ orders'[x].st = "working" => orders'[x].filled < orders'[x].qty
             /\ orders'[x].odd => "unparseable" \in Unusual
  <2>1. CASE x # o
    BY <2>1, MarketMoves DEF Amounts
  <2>2. CASE x = o
    <3>1. /\ orders[o].filled \in 0..Quantity /\ orders[o].qty \in 0..Quantity
          /\ Quantity \in Nat /\ orders[o].filled < orders[o].qty
      BY Fields, Constants, MarketMoves DEF TypeOK, Amounts
    <3>2. orders'[o].odd => "unparseable" \in Unusual
      BY MarketMoves DEF Amounts
    <3>3. orders'[o].filled <= orders'[o].qty
      BY <3>1, MarketMoves
    <3>4. orders'[o].st = "working" => orders'[o].filled < orders'[o].qty
      BY <3>1, MarketMoves
    <3>5. QED
      BY <2>2, <3>2, <3>3, <3>4
  <2>3. QED
    BY <2>1, <2>2
<1>5. Amounts'
  BY <1>1, <1>4, MarketMoves DEF Amounts
<1>6. QED
  BY <1>2, <1>3, <1>5
\* Starting an exit, beginning a poll, asking for a cancel and waiting for a
\* quote keep the types.
LEMMA QuietTypes ==
    ASSUME IInv,
           (\E mode \in Modes : StartExit(mode)) \/ BeginPoll \/ RequestCancel
           \/ NoQuoteWaits \/ TimePasses
    PROVE  IInv'
<1> USE DEF IInv
<1>1. ASSUME NEW mode \in Modes, StartExit(mode) PROVE IInv'
  <2>1. /\ pos \in Position /\ pc' = "place" /\ look' = pos
        /\ job' = [NoJob EXCEPT !.qty = pos.qty, !.mode = mode, !.forced = (mode = "EMERGENCY")]
        /\ UNCHANGED <<orders, held, pos, snap, trade, legs, booked, due, budget>>
    BY <1>1 DEF StartExit, TypeOK, broker, fills
  <2>2. PICK forced \in BOOLEAN : forced = (mode = "EMERGENCY")
    OBVIOUS
  <2>3. job' = [qty |-> pos.qty, mode |-> mode, forced |-> forced, bump |-> 0, sent |-> None]
    BY <2>1, <2>2 DEF NoJob
  <2>4. pos.qty \in 1..Quantity /\ pos.qty \in 0..Quantity /\ pos.qty >= 1 /\ pos.reprices \in 0..1
    BY <2>1, Fields, Constants
  <2>5. /\ job' \in Job /\ job'.qty = pos.qty /\ job'.mode = mode /\ job'.bump = 0
        /\ job'.sent = None
    BY <2>3, <2>4, Makes, Constants
  <2>6. TypeOK' /\ Amounts'
    BY <2>1, <2>5 DEF TypeOK, Amounts
  <2>7. pos.reprices + 0 <= 1 /\ mode # NoMode /\ pos # NoPosition
    BY <2>1, <2>4, Constants
  <2>8. Handler'
    BY <2>1, <2>4, <2>5, <2>7 DEF Handler
  <2>9. QED
    BY <2>6, <2>8
<1>2. CASE BeginPoll
  <2>1. /\ pos \in Position /\ pos.mode # NoMode /\ pc = "idle" /\ pc' = "poll" /\ look' = pos
        /\ UNCHANGED <<orders, held, pos, job, snap, trade, legs, booked, due, budget>>
    BY <1>2 DEF BeginPoll, TypeOK, broker, fills
  <2>2. QED
    BY <2>1, Constants DEF TypeOK, Handler, Amounts
<1>3. CASE RequestCancel
  <2>1. /\ pc = "poll" /\ look.order # None /\ pc' = "readback"
        /\ look.mode = "STRATEGY" \/ (look.mode = "HARD_FLAT" /\ look.reprices = 0)
        /\ orders' = [orders EXCEPT ![look.order].cxl = TRUE]
        /\ UNCHANGED <<held, pos, look, job, snap, trade, legs, booked, due>>
        /\ budget' = budget \/ (budget > 0 /\ budget' = budget - 1)
    BY <1>3 DEF RequestCancel, fills, Spends
  <2>2. look \in Position /\ look.order \in OrderNumbers
    BY <2>1, Fields, Constants DEF Handler, TypeOK
  <2>3. PICK r \in Order : r = orders[look.order]
    BY <2>2 DEF TypeOK
  <2>4. PICK e : e = [r EXCEPT !.cxl = TRUE]
    OBVIOUS
  <2>5. e \in Order /\ e.qty = r.qty /\ e.filled = r.filled /\ e.st = r.st /\ e.odd = r.odd
    BY <2>4 DEF Order
  <2>6. orders' = [orders EXCEPT ![look.order] = e]
    BY <2>1, <2>2, <2>3, <2>4 DEF TypeOK
  <2>7. /\ orders' \in [OrderNumbers -> Order]
        /\ \A x \in OrderNumbers : /\ orders'[x].qty = orders[x].qty
                                   /\ orders'[x].filled = orders[x].filled
                                   /\ orders'[x].st = orders[x].st
                                   /\ orders'[x].odd = orders[x].odd
    BY <2>2, <2>3, <2>5, <2>6 DEF TypeOK
  <2>8. budget' \in 0..Budget
    BY <2>1, Constants DEF TypeOK
  <2>9. TypeOK'
    BY <2>1, <2>7, <2>8 DEF TypeOK
  <2>10. Amounts'
    BY <2>1, <2>7 DEF Amounts
  <2>11. Handler'
    BY <2>1 DEF Handler
  <2>12. QED
    BY <2>9, <2>10, <2>11
<1>4. CASE NoQuoteWaits
  <2>1. /\ pc = "place" /\ pc' = "track" /\ budget > 0 /\ budget' = budget - 1
        /\ UNCHANGED <<orders, held, pos, look, job, snap, trade, legs, booked, due>>
    BY <1>4 DEF NoQuoteWaits, Spends, broker, fills
  <2>2. budget' \in 0..Budget
    BY <2>1, Constants DEF TypeOK
  <2>3. QED
    BY <2>1, <2>2 DEF TypeOK, Handler, Amounts
<1>5. CASE TimePasses
  <2>1. /\ due' = TRUE /\ "fallback" \in Unusual
        /\ UNCHANGED <<orders, held, pos, pc, look, job, snap, trade, legs, booked, budget>>
    BY <1>5 DEF TimePasses, broker, memory, fills
  <2>2. QED
    BY <2>1 DEF TypeOK, Handler, Amounts
<1>6. QED
  BY <1>1, <1>2, <1>3, <1>4, <1>5

\* A placement: nothing changes at the broker, or one order starts under a
\* number that nobody names while the other free numbers are cleared.
LEMMA PlaceMoves ==
    ASSUME IInv, NEW limit \in BOOLEAN, NEW outcome \in Outcomes, Place(limit, outcome)
    PROVE  /\ pc = "place" /\ pc' = "track" /\ budget' \in 0..Budget
           /\ UNCHANGED <<held, pos, look, trade, booked, due, snap>>
           /\ \/ UNCHANGED <<orders, legs, job>>
              \/ \E o \in Free :
                    /\ orders' \in [OrderNumbers -> Order]
                    /\ orders'[o].qty = job.qty /\ orders'[o].filled = 0
                    /\ orders'[o].st = "working" /\ ~orders'[o].odd
                    /\ \A x \in Free \ {o} : orders'[x] = NoOrder
                    /\ \A x \in OrderNumbers \ Free : orders'[x] = orders[x]
                    /\ legs' = legs \ Free
                    /\ job' = [job EXCEPT !.sent = IF outcome = "ack" THEN o ELSE None]
                    /\ snap = NoSnapshot \/ "stale" \in Unusual
                    /\ outcome = "ack" \/ "lost" \in Unusual
<1> USE DEF IInv
<1>1. /\ pc = "place" /\ pc' = "track" /\ UNCHANGED <<held, pos, look, trade, booked, due>>
  BY DEF Place
<1>2. budget' \in 0..Budget
  BY Constants DEF Place, Spends, TypeOK
<1>3. CASE outcome = "refused"
  BY <1>1, <1>2, <1>3 DEF Place
<1>4. CASE outcome # "refused"
  <2>1. PICK o : o = Min(Free)
    OBVIOUS
  <2>2. /\ Free # {}
        /\ orders' = [x \in OrderNumbers |->
              CASE x = o -> [NoOrder EXCEPT !.qty = job.qty, !.limit = limit, !.st = "working"]
                [] x \in Free \ {o} -> NoOrder
                [] OTHER -> orders[x]]
        /\ legs' = legs \ Free
        /\ job' = [job EXCEPT !.sent = IF outcome = "ack" THEN o ELSE None]
        /\ Outdates
    BY <1>4, <2>1 DEF Place
  <2>3. Free \subseteq OrderNumbers /\ Free \subseteq Nat
    BY Constants DEF Free, OrderNumbers
  <2>4. o \in Free
    BY <2>1, <2>2, <2>3, MinIsMember
  <2>5. PICK r \in Order : r = NoOrder
    BY Constants
  <2>6. PICK e : e = [r EXCEPT !.qty = job.qty, !.limit = limit, !.st = "working"]
    OBVIOUS
  <2>7. job.qty \in 0..Quantity /\ r.filled = 0 /\ ~r.odd
    BY <2>5, Fields DEF TypeOK, NoOrder
  <2>8. e \in Order /\ e.qty = job.qty /\ e.filled = 0 /\ e.st = "working" /\ ~e.odd
    BY <2>6, <2>7 DEF Order
  <2>9. orders' = [x \in OrderNumbers |-> IF x = o THEN e
                                          ELSE IF x \in Free THEN NoOrder ELSE orders[x]]
    BY <2>2, <2>5, <2>6
  <2>10. /\ orders' \in [OrderNumbers -> Order] /\ orders'[o] = e
         /\ \A x \in Free \ {o} : orders'[x] = NoOrder
         /\ \A x \in OrderNumbers \ Free : orders'[x] = orders[x]
    BY <2>3, <2>4, <2>8, <2>9, Constants DEF TypeOK
  <2>11. snap' = snap /\ (snap = NoSnapshot \/ "stale" \in Unusual)
    BY <2>2 DEF Outdates
  <2>12. outcome = "ack" \/ "lost" \in Unusual
    BY <1>4 DEF Outcomes
  <2>13. QED
    BY <1>1, <1>2, <2>2, <2>4, <2>8, <2>10, <2>11, <2>12
<1>5. QED
  BY <1>3, <1>4
\* A placement keeps the types.
LEMMA PlaceTypes ==
    ASSUME IInv, NEW limit \in BOOLEAN, NEW outcome \in Outcomes, Place(limit, outcome)
    PROVE  IInv'
<1> USE DEF IInv
<1>1. /\ pc = "place" /\ pc' = "track" /\ budget' \in 0..Budget
      /\ UNCHANGED <<held, pos, look, trade, booked, due, snap>>
  BY PlaceMoves
<1>2. CASE UNCHANGED <<orders, legs, job>>
  BY <1>1, <1>2 DEF TypeOK, Handler, Amounts
<1>3. CASE ~UNCHANGED <<orders, legs, job>>
  <2>1. PICK o \in Free :
            /\ orders' \in [OrderNumbers -> Order]
            /\ orders'[o].qty = job.qty /\ orders'[o].filled = 0
            /\ orders'[o].st = "working" /\ ~orders'[o].odd
            /\ \A x \in Free \ {o} : orders'[x] = NoOrder
            /\ \A x \in OrderNumbers \ Free : orders'[x] = orders[x]
            /\ legs' = legs \ Free
            /\ job' = [job EXCEPT !.sent = IF outcome = "ack" THEN o ELSE None]
    BY <1>3, PlaceMoves
  <2>2. o \in OrderNumbers /\ o \in 0..MaxOrders /\ None \in 0..MaxOrders
    BY Constants DEF Free
  <2>3. /\ job' \in Job /\ job'.qty = job.qty /\ job'.mode = job.mode /\ job'.bump = job.bump
    BY <2>1, <2>2 DEF TypeOK, Job
  <2>4. TypeOK'
    BY <1>1, <2>1, <2>3 DEF TypeOK
  <2>5. Handler'
    BY <1>1, <2>3 DEF Handler
  <2>6. job.qty >= 1 /\ job.qty \in Nat
    BY <1>1, Fields, Constants DEF Handler, TypeOK
  <2>7. NoOrder.filled = 0 /\ NoOrder.qty = 0 /\ NoOrder.st = "none" /\ ~NoOrder.odd
    BY DEF NoOrder
  <2>8. ASSUME NEW x \in OrderNumbers
        PROVE  /\ orders'[x].filled <= orders'[x].qty
               /\ orders'[x].st = "working" => orders'[x].filled < orders'[x].qty
               /\ orders'[x].odd => "unparseable" \in Unusual
    <3>1. CASE x = o
      BY <2>1, <2>6, <3>1
    <3>2. CASE x \in Free \ {o}
      BY <2>1, <2>7, <3>2
    <3>3. CASE x \notin Free
      BY <2>1, <3>3 DEF Amounts
    <3>4. QED
      BY <3>1, <3>2, <3>3
  <2>9. Amounts'
    BY <1>1, <2>8 DEF Amounts
  <2>10. QED
    BY <2>4, <2>5, <2>9
<1>4. QED
  BY <1>2, <1>3

\* The tracker and the row take the order.
LEMMA TrackTypes ==
    ASSUME IInv, Track
    PROVE  IInv' /\ pos' \in Position
<1> USE DEF IInv
<1>1. /\ pc = "track" /\ pc' = "idle" /\ look' = NoPosition /\ job' = NoJob
      /\ pos' = [qty |-> job.qty, order |-> job.sent, mode |-> job.mode,
                 reprices |-> look.reprices + job.bump]
      /\ trade' = [status |-> "exit_pending", order |-> job.sent, mode |-> job.mode]
      /\ UNCHANGED <<orders, held, legs, booked, due, budget, snap>>
  BY DEF Track, Return, Outdates, broker, fills
<1>2. /\ look \in Position /\ job.qty >= 1 /\ look.reprices + job.bump <= 1 /\ job \in Job
  BY <1>1 DEF Handler, TypeOK
<1>3. /\ job.qty \in 1..Quantity /\ look.reprices + job.bump \in 0..1
      /\ job.sent \in 0..MaxOrders /\ job.mode \in Modes \cup {NoMode}
  BY <1>2, Fields, Constants
<1>4. pos' \in Position /\ trade' \in Row
  BY <1>1, <1>3, Makes
<1>5. TypeOK'
  BY <1>1, <1>4, Constants DEF TypeOK
<1>6. QED
  BY <1>1, <1>4, <1>5 DEF Handler, Amounts

\* A portfolio that shows contracts gives a position.
LEMMA ReconciledIsOne ==
    ASSUME NEW q \in Int, q <= Quantity, q > 0, NEW o \in 0..MaxOrders, NEW r \in Row
    PROVE  Reconciled(q, o, r) \in Position
<1>1. q \in 1..Quantity /\ 0 \in 0..1
  BY Constants
<1>2. PICK n \in 0..MaxOrders :
          n = IF r.status = "exit_pending" /\ o # None THEN o ELSE r.order
  BY Fields
<1>3. PICK m \in Modes \cup {NoMode} :
          m = IF r.status = "exit_pending" THEN r.mode ELSE NoMode
  BY Fields
<1>4. Reconciled(q, o, r) = [qty |-> q, order |-> n, mode |-> m, reprices |-> 0]
  BY <1>2, <1>3 DEF Reconciled
<1>5. QED
  BY <1>1, <1>4, Makes

\* What reconciliation makes of a snapshot has the right type.
LEMMA ReconciledTypes ==
    ASSUME TypeOK, NEW q \in Int, q <= Quantity, NEW o \in 0..MaxOrders, NEW r \in Row
    PROVE  /\ Reconciled(q, o, r) \in Position \cup {NoPosition}
           /\ Preserve(Reconciled(q, o, r), pos) \in Position \cup {NoPosition}
           /\ \A p \in Position \cup {NoPosition} : Synced(p) \in Row
<1>1. q > 0 => Reconciled(q, o, r) \in Position
  BY ReconciledIsOne
<1>2. Reconciled(q, o, r) \in Position \cup {NoPosition}
  BY <1>1 DEF Reconciled
<1>3. Preserve(Reconciled(q, o, r), pos) \in Position \cup {NoPosition}
  <2>1. PICK f : f = Reconciled(q, o, r)
    OBVIOUS
  <2>2. CASE f # NoPosition /\ Pending(pos) /\ ~Pending(f)
    <3>1. f \in Position /\ f.qty \in 1..Quantity /\ pos \in Position
      BY <1>2, <2>1, <2>2, Fields DEF Pending, TypeOK
    <3>2. [pos EXCEPT !.qty = f.qty] \in Position
      BY <3>1 DEF Position
    <3>3. QED
      BY <2>1, <2>2, <3>2 DEF Preserve
  <2>3. CASE ~(f # NoPosition /\ Pending(pos) /\ ~Pending(f))
    BY <1>2, <2>1, <2>3 DEF Preserve
  <2>4. QED
    BY <2>2, <2>3
<1>4. ASSUME NEW p \in Position \cup {NoPosition} PROVE Synced(p) \in Row
  <2>1. trade \in Row /\ [trade EXCEPT !.status = "closed"] \in Row
    BY DEF TypeOK, Row
  <2>2. p # NoPosition => /\ [status |-> "exit_pending", order |-> p.order, mode |-> p.mode] \in Row
                          /\ [status |-> "open", order |-> p.order, mode |-> p.mode] \in Row
    BY Fields, Makes
  <2>3. QED
    BY <2>1, <2>2 DEF Synced
<1>5. QED
  BY <1>2, <1>3, <1>4

\* Reconciliation, crash and restart keep the types.
LEMMA PassTypes ==
    ASSUME IInv, FetchPortfolio \/ ReadTrades \/ CommitSnapshot \/ Crash \/ Restart
    PROVE  IInv'
<1> USE DEF IInv
<1>1. CASE FetchPortfolio
  <2>1. PICK indexed \in IndexedLimits :
            snap' = [qty |-> held, indexed |-> indexed, row |-> trade, read |-> FALSE]
    BY <1>1 DEF FetchPortfolio
  <2>2. /\ pc # "down" /\ budget' = budget - 1 /\ budget > 0
        /\ UNCHANGED <<orders, held, pos, pc, look, job, trade, legs, booked, due>>
    BY <1>1 DEF FetchPortfolio, Spends, broker, fills
  <2>3. indexed \in 0..MaxOrders
    BY Constants DEF IndexedLimits, WorkingLimits
  <2>4. snap' \in Snapshot /\ snap'.qty = held
    BY <2>1, <2>3, Makes DEF TypeOK
  <2>5. budget' \in 0..Budget
    BY <2>2, Constants DEF TypeOK
  <2>6. QED
    BY <2>2, <2>4, <2>5 DEF TypeOK, Handler, Amounts
<1>2. CASE ReadTrades
  <2>1. /\ snap \in Snapshot /\ snap' = [snap EXCEPT !.row = trade, !.read = TRUE]
        /\ pc # "down" /\ snap # NoSnapshot
        /\ UNCHANGED <<orders, held, pos, pc, look, job, trade, legs, booked, due, budget>>
    BY <1>2 DEF ReadTrades, broker, fills, TypeOK
  <2>2. snap' \in Snapshot /\ snap'.qty = snap.qty
    BY <2>1 DEF Snapshot, TypeOK
  <2>3. QED
    BY <2>1, <2>2 DEF TypeOK, Handler, Amounts
<1>3. CASE CommitSnapshot
  <2>1. PICK p : p = Preserve(Reconciled(snap.qty, snap.indexed, snap.row), pos)
    OBVIOUS
  <2>2. /\ pos' = p /\ trade' = Synced(p) /\ snap' = NoSnapshot /\ snap \in Snapshot
        /\ snap # NoSnapshot
        /\ UNCHANGED <<orders, held, pc, look, job, legs, booked, due, budget>>
    BY <1>3, <2>1 DEF CommitSnapshot, broker, fills, TypeOK
  <2>3. /\ snap.qty \in Int /\ snap.qty <= Quantity /\ snap.indexed \in 0..MaxOrders
        /\ snap.row \in Row
    BY <2>2, Fields DEF Amounts
  <2>4. p \in Position \cup {NoPosition}
    BY <2>1, <2>3, ReconciledTypes
  <2>5. Synced(p) \in Row
    BY <2>3, <2>4, ReconciledTypes
  <2>6. QED
    BY <2>2, <2>4, <2>5 DEF TypeOK, Handler, Amounts
<1>4. CASE Crash
  <2>1. /\ pc' = "down" /\ pos' = NoPosition /\ look' = NoPosition /\ job' = NoJob
        /\ snap' = NoSnapshot /\ budget > 0 /\ budget' = budget - 1
        /\ UNCHANGED <<orders, held, trade, legs, booked, due>>
    BY <1>4 DEF Crash, Spends, broker, fills
  <2>2. budget' \in 0..Budget
    BY <2>1, Constants DEF TypeOK
  <2>3. QED
    BY <2>1, <2>2, Constants DEF TypeOK, Handler, Amounts
<1>5. CASE Restart
  <2>1. PICK indexed \in IndexedLimits :
            pos' = Reconciled(held, indexed, trade) /\ trade' = Synced(Reconciled(held, indexed, trade))
    BY <1>5 DEF Restart
  <2>2. /\ pc = "down" /\ pc' = "idle"
        /\ UNCHANGED <<orders, held, look, job, snap, legs, booked, due, budget>>
    BY <1>5 DEF Restart, broker, fills
  <2>3. indexed \in 0..MaxOrders /\ held \in Int /\ held <= Quantity /\ trade \in Row
    BY Constants DEF IndexedLimits, WorkingLimits, TypeOK, Amounts
  <2>4. pos' \in Position \cup {NoPosition} /\ trade' \in Row
    BY <2>1, <2>3, ReconciledTypes
  <2>5. QED
    BY <2>2, <2>4 DEF TypeOK, Handler, Amounts
<1>6. QED
  BY <1>1, <1>2, <1>3, <1>4, <1>5

\* The exit starts well typed.
LEMMA TypesStart == Init => IInv
<1> SUFFICES ASSUME Init PROVE IInv
  OBVIOUS
<1>1. Quantity \in 1..Quantity /\ NoMode \in Modes \cup {NoMode} /\ 0 \in 0..1
      /\ Budget \in 0..Budget
  BY Constants
<1>2. pos \in Position /\ trade \in Row
  BY <1>1, Makes, Constants DEF Init
<1>3. orders \in [OrderNumbers -> Order]
  BY Constants DEF Init
<1>4. TypeOK
  <2>1. held \in Int /\ booked \in Nat /\ budget \in 0..Budget
    BY <1>1, Constants DEF Init
  <2>2. legs \subseteq OrderNumbers /\ look \in {NoPosition} /\ job \in Job
        /\ snap \in {NoSnapshot} /\ due \in BOOLEAN
    BY Constants DEF Init
  <2>3. pc \in {"idle", "poll", "readback", "place", "track", "down"}
    BY DEF Init
  <2>4. QED
    BY <1>2, <1>3, <2>1, <2>2, <2>3 DEF TypeOK
<1>5. Handler
  BY Constants DEF Init, Handler
<1>6. NoOrder.filled = 0 /\ NoOrder.qty = 0 /\ NoOrder.st = "none" /\ ~NoOrder.odd
  BY DEF NoOrder
<1>7. Amounts
  BY <1>6, Constants DEF Init, Amounts
<1>8. QED
  BY <1>4, <1>5, <1>7 DEF IInv

\* Every step keeps IInv.
LEMMA TypesStep == IInv /\ [Next]_vars => IInv'
<1> SUFFICES ASSUME IInv, [Next]_vars PROVE IInv'
  OBVIOUS
<1>1. CASE Poller
  BY <1>1, PollTypes, QuietTypes, PlaceTypes, TrackTypes DEF Poller, Polls
<1>2. CASE Market
  BY <1>2, MarketTypes DEF Market
<1>3. CASE TimePasses \/ \E mode \in Modes : StartExit(mode)
  BY <1>3, QuietTypes
<1>4. CASE FetchPortfolio \/ ReadTrades \/ CommitSnapshot \/ Crash \/ Restart
  BY <1>4, PassTypes
<1>5. CASE UNCHANGED vars
  BY <1>5 DEF IInv, TypeOK, Handler, Amounts, vars, broker, memory, fills
<1>6. QED
  BY <1>1, <1>2, <1>3, <1>4, <1>5 DEF Next

\* IInv holds throughout.
LEMMA AlwaysIInv == Spec => []IInv
BY TypesStart, TypesStep, PTL DEF Spec

\* Orders, tracker, row, snapshot and coroutine keep their types, whatever of
\* UnusualEvents may happen.
THEOREM TypeCorrect == Spec => []TypeOK
<1>1. IInv => TypeOK
  BY DEF IInv
<1>2. QED
  BY <1>1, AlwaysIInv, PTL
-----------------------------------------------------------------------------
(* One current order                                                       *)

\* Types of what the facts below are about.
LEMMA Typed ==
    ASSUME IInv
    PROVE  /\ held \in Int /\ booked \in Nat /\ Current \in 0..MaxOrders
           /\ trade.order \in 0..MaxOrders /\ job.sent \in 0..MaxOrders
           /\ Current # None => Current \in OrderNumbers
           /\ \A o \in OrderNumbers :
                 /\ orders[o].qty \in Nat /\ orders[o].filled \in Nat
                 /\ orders[o].st \in {"none", "working", "filled", "dead"}
                 /\ orders[o].filled <= orders[o].qty
           /\ \A p \in {pos, look} \ {NoPosition} :
                 p \in Position /\ p.qty \in Nat /\ p.qty >= 1 /\ p.order \in 0..MaxOrders
           /\ snap # NoSnapshot => snap \in Snapshot /\ snap.qty \in Int
<1> USE DEF IInv
<1>1. /\ held \in Int /\ booked \in Nat
      /\ trade.order \in 0..MaxOrders /\ job.sent \in 0..MaxOrders
      /\ snap # NoSnapshot => snap \in Snapshot /\ snap.qty \in Int
  BY Fields DEF TypeOK
<1>2. Current \in 0..MaxOrders /\ (Current # None => Current \in OrderNumbers)
  BY <1>1, Constants DEF Current
<1>3. ASSUME NEW o \in OrderNumbers
      PROVE  /\ orders[o].qty \in Nat /\ orders[o].filled \in Nat
             /\ orders[o].st \in {"none", "working", "filled", "dead"}
             /\ orders[o].filled <= orders[o].qty
  <2>1. orders[o] \in Order /\ orders[o].filled <= orders[o].qty
    BY DEF TypeOK, Amounts
  <2>2. QED
    BY <2>1, Fields, Constants
<1>4. ASSUME NEW p \in {pos, look} \ {NoPosition}
      PROVE  p \in Position /\ p.qty \in Nat /\ p.qty >= 1 /\ p.order \in 0..MaxOrders
  <2>1. p \in Position
    BY DEF TypeOK
  <2>2. QED
    BY <2>1, Fields, Constants
<1>5. QED
  BY <1>1, <1>2, <1>3, <1>4

\* Fills and deaths: only the current order moves, and what it sells is no
\* longer held.
LEMMA MarketSure ==
    ASSUME IInv, Sure, Unusual = {}, NEW o \in OrderNumbers, Fill(o) \/ Dies(o)
    PROVE  Sure'
<1> USE DEF Sure
<1>1. o = Current /\ Current # None /\ o # None
  BY MarketMoves, Constants DEF One
<1>2. /\ UNCHANGED <<pos, pc, look, job, snap, trade, legs, booked>> /\ Current' = Current
      /\ \A x \in OrderNumbers : x # o => orders'[x] = orders[x]
      /\ orders[o].st = "working" /\ orders'[o].st \in {"working", "filled", "dead"}
  BY MarketMoves DEF Current
<1>3. /\ orders[o].qty \in Nat /\ orders[o].filled \in Nat /\ held \in Int /\ booked \in Nat
      /\ orders[o].filled < orders[o].qty /\ orders[o].qty - orders[o].filled = held
      /\ Quantity \in Nat
  BY <1>1, <1>2, Typed, Constants DEF One, IInv, Amounts
<1>4. /\ orders'[o].qty = orders[o].qty /\ orders'[o].qty - orders'[o].filled = held'
      /\ held' <= held /\ held' >= 0
      /\ held' - held = orders[o].filled - orders'[o].filled
      /\ orders'[o].filled \in Nat
      /\ (orders'[o].filled = 0 => held' = held /\ orders[o].filled = 0)
      /\ (orders'[o].st = "filled" => held' = 0)
  <2>1. CASE /\ held' = held - 1 /\ orders'[o].filled = orders[o].filled + 1
             /\ orders'[o].st = "filled" => orders'[o].filled = orders[o].qty
    BY <1>3, <2>1, MarketMoves
  <2>2. CASE /\ held' = held /\ orders'[o].filled = orders[o].filled
             /\ orders'[o].st = "dead"
    BY <1>3, <2>2, MarketMoves
  <2>3. QED
    BY <2>1, <2>2, MarketMoves
<1>5. One'
  BY <1>1, <1>2, <1>4 DEF One
<1>6. o \notin legs /\ o # None
  BY <1>1, <1>2 DEF Books
<1>7. Books'
  <2>1. booked + orders[o].filled = Quantity - held
    BY <1>1, <1>6 DEF Books
  <2>2. booked + orders'[o].filled = Quantity - held'
    BY <1>3, <1>4, <2>1
  <2>3. QED
    BY <1>1, <1>2, <1>6, <2>2 DEF Books
<1>8. ASSUME NEW q, Fits(q) PROVE Fits(q)'
  BY <1>1, <1>2, <1>4, <1>8 DEF Fits
<1>9. held > 0
  BY <1>3
<1>10. Copies'
  <2>1. trade.status # "closed"
    BY <1>9 DEF Copies
  <2>2. job.sent = None /\ pc # "down" => pos # NoPosition
    BY <1>9 DEF Copies
  <2>3. job.sent = None => \A p \in {pos, look} \ {NoPosition} :
                              p.order = trade.order /\ Fits(p.qty)'
    BY <1>8 DEF Copies
  <2>4. snap # NoSnapshot => /\ snap.row = trade /\ snap.indexed \in {None, Current}
                             /\ snap.qty >= held' /\ Fits(snap.qty)'
    <3>1. snap # NoSnapshot => snap.qty >= held /\ Fits(snap.qty)
      BY DEF Copies
    <3>2. snap # NoSnapshot => snap.qty \in Int
      BY Typed
    <3>3. snap # NoSnapshot => snap.qty >= held'
      BY <1>3, <1>4, <3>1, <3>2
    <3>4. QED
      BY <1>2, <1>8, <3>1, <3>3 DEF Copies, Fits
  <2>5. QED
    BY <1>2, <2>1, <2>2, <2>3, <2>4 DEF Copies, Fits
<1>11. Sending'
  <2>1. ~(pc \in {"place", "track"} /\ job.sent = None)
    BY <1>2 DEF Sending
  <2>2. job.sent # None => Fits(job.qty)'
    BY <1>2, <1>8 DEF Sending, Fits
  <2>3. QED
    BY <1>2, <2>1, <2>2 DEF Sending, Fits
<1>12. QED
  BY <1>5, <1>7, <1>10, <1>11
\* A poll acts on what the current order has come to.
LEMMA PollSure ==
    ASSUME IInv, Sure, Unusual = {}, Polls
    PROVE  Sure'
<1> USE DEF Sure
<1>1. /\ pc \in {"poll", "readback"} /\ look \in Position
      /\ UNCHANGED <<orders, held>>
  BY PollCases DEF broker
<1>2. job.sent = None /\ Current = trade.order /\ look # NoPosition
  BY <1>1, NoJobFields DEF IInv, Handler, Current
<1>3. look.order = trade.order /\ Fits(look.qty)
  BY <1>2 DEF Copies
<1>4. CASE Waits
  <2>1. /\ pc' = "idle" /\ look' = NoPosition /\ job' = NoJob
        /\ UNCHANGED <<pos, snap, trade, legs, booked>>
    BY <1>4 DEF Waits, Return, fills
  <2>2. job'.sent = None /\ Current' = Current
    BY <1>2, <2>1, NoJobFields DEF Current
  <2>3. QED
    BY <1>1, <1>2, <2>1, <2>2 DEF One, Books, Copies, Sending, Fits
<1>5. CASE Ends
  <2>1. /\ pc' = "idle" /\ look' = NoPosition /\ job' = NoJob /\ pos' = NoPosition
        /\ trade' = [trade EXCEPT !.status = "closed", !.order = look.order]
        /\ snap = NoSnapshot /\ snap' = NoSnapshot
        /\ UNCHANGED <<legs, booked>>
    BY <1>5 DEF Ends, Finalize, Return, fills, Outdates
  <2>2. job'.sent = None /\ trade'.order = trade.order /\ trade'.status = "closed"
    BY <1>3, <2>1, NoJobFields DEF IInv, TypeOK, Row
  <2>3. Current' = Current
    BY <1>2, <2>2 DEF Current
  <2>4. held = 0
    <3>1. /\ Current # None /\ orders[Current].st \in {"filled", "dead"}
          /\ orders[Current].st = "dead" => orders[Current].filled >= orders[Current].qty
      BY <1>2, <1>3, <1>5 DEF Ends
    <3>2. /\ orders[Current].qty \in Nat /\ orders[Current].filled \in Nat
          /\ orders[Current].filled <= orders[Current].qty
          /\ orders[Current].qty - orders[Current].filled = held
          /\ orders[Current].st = "filled" => held = 0
      BY <3>1, Typed DEF One
    <3>3. QED
      BY <3>1, <3>2
  <2>5. QED
    BY <1>1, <1>2, <2>1, <2>2, <2>3, <2>4 DEF One, Books, Copies, Sending, Fits
<1>6. CASE \E q \in 1..Quantity, forced \in BOOLEAN, b \in 0..1 : Again(q, forced, b)
  <2>1. PICK q \in 1..Quantity, forced \in BOOLEAN, b \in 0..1 : Again(q, forced, b)
    BY <1>6
  <2>2. /\ pc' = "place" /\ look' = look /\ pos' = pos /\ snap' = snap /\ trade' = trade
        /\ job'.sent = None /\ job'.qty = q
    BY <2>1 DEF Again, Resubmit
  <2>3. Current' = Current
    BY <1>2, <2>2 DEF Current
  <2>4. CASE Current = None
    <3>1. q = look.qty /\ UNCHANGED <<legs, booked>>
      BY <1>2, <1>3, <2>1, <2>4 DEF Again, fills
    <3>2. q = held
      BY <1>3, <2>4, <3>1 DEF Fits
    <3>3. \A o \in OrderNumbers : orders[o].st # "working"
      BY <2>4, Constants DEF One
    <3>4. QED
      BY <1>1, <1>2, <2>2, <2>3, <2>4, <3>1, <3>2, <3>3 DEF One, Books, Copies, Sending, Fits
  <2>5. CASE Current # None
    <3>1. /\ orders[Current].st = "dead" /\ orders[Current].filled < orders[Current].qty
          /\ \/ /\ orders[Current].filled > 0
                /\ q = orders[Current].qty - orders[Current].filled
                /\ RecordLeg(Current)
             \/ /\ orders[Current].filled = 0
                /\ q = look.qty
                /\ UNCHANGED <<legs, booked>>
      BY <1>2, <1>3, <2>1, <2>5 DEF Again, fills
    <3>2. \A o \in OrderNumbers : orders[o].st # "working"
      BY <3>1 DEF One
    <3>3. q = held
      BY <1>3, <2>5, <3>1 DEF Fits, One
    <3>4. /\ orders[Current].qty \in Nat /\ orders[Current].filled \in Nat
          /\ booked \in Nat /\ held \in Int
      BY <2>5, Typed
    <3>5. orders[Current].filled > 0 => Current \in legs'
      BY <3>1, <3>4 DEF RecordLeg
    <3>6. /\ booked' + (IF Current \in legs' THEN 0 ELSE orders[Current].filled)
                = booked + (IF Current \in legs THEN 0 ELSE orders[Current].filled)
          /\ (Current \in legs' => Current \in legs \/ orders[Current].filled > 0)
      <4>1. CASE RecordLeg(Current) /\ orders[Current].filled > 0
        BY <3>4, <4>1 DEF RecordLeg
      <4>2. CASE UNCHANGED <<legs, booked>>
        BY <4>2
      <4>3. QED
        BY <3>1, <4>1, <4>2
    <3>7. Books'
      BY <1>1, <2>3, <2>5, <3>1, <3>6 DEF Books
    <3>8. One'
      BY <1>1, <2>3 DEF One
    <3>9. Copies'
      BY <1>1, <1>2, <2>2, <2>3 DEF Copies, Fits
    <3>10. Sending'
      BY <1>1, <2>2, <2>3, <3>2, <3>3, <3>5 DEF Sending
    <3>11. QED
      BY <3>7, <3>8, <3>9, <3>10
  <2>6. QED
    BY <2>4, <2>5
<1>7. QED
  BY <1>4, <1>5, <1>6, PollCases

\* Starting an exit, beginning a poll, asking for a cancel and waiting for a quote.
LEMMA QuietSure ==
    ASSUME IInv, Sure, Unusual = {},
           (\E mode \in Modes : StartExit(mode)) \/ BeginPoll \/ RequestCancel
           \/ NoQuoteWaits \/ TimePasses
    PROVE  Sure'
<1> USE DEF Sure
<1>1. ASSUME NEW mode \in Modes, StartExit(mode) PROVE Sure'
  <2>1. /\ pc = "idle" /\ pos # NoPosition /\ pos.order = None /\ pc' = "place" /\ look' = pos
        /\ job' = [NoJob EXCEPT !.qty = pos.qty, !.mode = mode, !.forced = (mode = "EMERGENCY")]
        /\ UNCHANGED <<orders, held, pos, snap, trade, legs, booked>>
    BY <1>1 DEF StartExit, broker, fills
  <2>2. job'.sent = None /\ job'.qty = pos.qty
    BY <2>1 DEF NoJob
  <2>3. job.sent = None
    BY <2>1, NoJobFields DEF IInv, Handler
  <2>4. Current = None /\ Current' = None /\ pos.qty = held
    BY <2>1, <2>2, <2>3 DEF Copies, Current, Fits
  <2>5. \A o \in OrderNumbers : orders[o].st # "working"
    BY <2>4, Constants DEF One
  <2>6. QED
    BY <2>1, <2>2, <2>3, <2>4, <2>5 DEF One, Books, Copies, Sending, Fits
<1>2. CASE BeginPoll
  <2>1. /\ pc = "idle" /\ pc' = "poll" /\ look' = pos
        /\ UNCHANGED <<orders, held, pos, job, snap, trade, legs, booked>>
    BY <1>2 DEF BeginPoll, broker, fills
  <2>2. job.sent = None /\ Current' = Current
    BY <2>1, NoJobFields DEF IInv, Handler, Current
  <2>3. QED
    BY <2>1, <2>2 DEF One, Books, Copies, Sending, Fits
<1>3. CASE RequestCancel
  <2>1. /\ pc = "poll" /\ look.order # None /\ pc' = "readback"
        /\ orders' = [orders EXCEPT ![look.order].cxl = TRUE]
        /\ UNCHANGED <<held, pos, look, job, snap, trade, legs, booked>>
    BY <1>3 DEF RequestCancel, fills
  <2>2. look.order \in OrderNumbers
    BY <2>1, Fields, Constants DEF IInv, Handler, TypeOK
  <2>3. \A x \in OrderNumbers : orders[x] \in Order
    BY DEF IInv, TypeOK
  <2>4. \A x \in OrderNumbers : /\ orders'[x].qty = orders[x].qty
                                /\ orders'[x].filled = orders[x].filled
                                /\ orders'[x].st = orders[x].st
    BY <2>1, <2>2, <2>3 DEF IInv, TypeOK, Order
  <2>5. Current' = Current /\ (Current # None => Current \in OrderNumbers)
    BY <2>1, Typed DEF Current
  <2>6. \A q : Fits(q)' <=> Fits(q)
    BY <2>1, <2>4, <2>5 DEF Fits
  <2>7. One' /\ Books'
    BY <2>1, <2>4, <2>5 DEF One, Books
  <2>8. Copies'
    BY <2>1, <2>4, <2>5 DEF Copies, Fits
  <2>9. Sending'
    BY <2>1, <2>4, <2>5, NoJobFields DEF Sending, IInv, Handler
  <2>10. QED
    BY <2>7, <2>8, <2>9
<1>4. CASE NoQuoteWaits
  <2>1. /\ pc = "place" /\ pc' = "track"
        /\ UNCHANGED <<orders, held, pos, look, job, snap, trade, legs, booked>>
    BY <1>4 DEF NoQuoteWaits, broker, fills
  <2>2. Current' = Current
    BY <2>1 DEF Current
  <2>3. QED
    BY <2>1, <2>2 DEF One, Books, Copies, Sending, Fits
<1>5. CASE TimePasses
  BY <1>5 DEF TimePasses
<1>6. QED
  BY <1>1, <1>2, <1>3, <1>4, <1>5

\* A placement: the new order is for what is held, and nobody names its number.
LEMMA PlaceSure ==
    ASSUME IInv, Sure, Unusual = {}, NEW limit \in BOOLEAN, NEW outcome \in Outcomes,
           Place(limit, outcome)
    PROVE  Sure'
<1> USE DEF Sure
<1>1. /\ pc = "place" /\ pc' = "track" /\ job.sent = None /\ Current = trade.order
      /\ UNCHANGED <<held, pos, look, trade, booked, snap>>
      /\ job.qty = held /\ job.qty >= 1
      /\ \A o \in OrderNumbers : orders[o].st # "working"
      /\ Current # None /\ orders[Current].filled > 0 => Current \in legs
  BY PlaceMoves DEF IInv, Handler, Current, Sending
<1>2. CASE UNCHANGED <<orders, legs, job>>
  <2>1. Current' = Current
    BY <1>1, <1>2 DEF Current
  <2>2. QED
    BY <1>1, <1>2, <2>1 DEF One, Books, Copies, Sending, Fits
<1>3. CASE ~UNCHANGED <<orders, legs, job>>
  <2>1. PICK o \in Free :
            /\ orders'[o].qty = job.qty /\ orders'[o].filled = 0
            /\ orders'[o].st = "working"
            /\ \A x \in Free \ {o} : orders'[x] = NoOrder
            /\ \A x \in OrderNumbers \ Free : orders'[x] = orders[x]
            /\ legs' = legs \ Free
            /\ job' = [job EXCEPT !.sent = o]
            /\ snap = NoSnapshot
    BY <1>3, PlaceMoves
  <2>2. o \in OrderNumbers /\ o # None /\ o \notin legs'
    BY <2>1, Constants DEF Free
  <2>3. job'.sent = o /\ job'.qty = held /\ Current' = o
    BY <1>1, <2>1, <2>2 DEF IInv, TypeOK, Job, Current
  <2>4. \A x \in OrderNumbers : x # o => orders'[x].st # "working"
    BY <1>1, <2>1 DEF NoOrder
  <2>5. /\ held \in Int /\ booked \in Nat /\ held >= 1
    BY <1>1, Typed
  <2>6. booked = Quantity - held
    <3>1. booked + (IF Current = None \/ Current \in legs THEN 0 ELSE orders[Current].filled)
             = Quantity - held
      BY DEF Books
    <3>2. CASE Current = None \/ Current \in legs
      BY <2>5, <3>1, <3>2
    <3>3. CASE Current # None /\ Current \notin legs
      <4>1. orders[Current].filled \in Nat
        BY <3>3, Typed
      <4>2. orders[Current].filled = 0
        BY <1>1, <3>3, <4>1
      <4>3. QED
        BY <2>5, <3>1, <3>3, <4>2
    <3>4. QED
      BY <3>2, <3>3
  <2>7. One'
    BY <1>1, <2>1, <2>2, <2>3, <2>4, <2>5 DEF One
  <2>8. Books'
    BY <1>1, <2>1, <2>2, <2>3, <2>5, <2>6 DEF Books
  <2>9. trade.status # "closed"
    BY <2>5 DEF Copies
  <2>10. Copies'
    BY <1>1, <2>1, <2>2, <2>3, <2>9 DEF Copies
  <2>11. Sending'
    BY <1>1, <2>2, <2>3 DEF Sending, Fits
  <2>12. QED
    BY <2>7, <2>8, <2>10, <2>11
<1>4. QED
  BY <1>2, <1>3
\* Tracker and row take over what was sent, or that nothing was.
LEMMA TrackSure ==
    ASSUME IInv, Sure, Unusual = {}, Track
    PROVE  Sure'
<1> USE DEF Sure
<1>1. /\ pc = "track" /\ pc' = "idle" /\ look' = NoPosition /\ job' = NoJob
      /\ pos' = [qty |-> job.qty, order |-> job.sent, mode |-> job.mode,
                 reprices |-> look.reprices + job.bump]
      /\ trade' = [status |-> "exit_pending", order |-> job.sent, mode |-> job.mode]
      /\ snap = NoSnapshot /\ UNCHANGED <<orders, held, legs, booked, snap>>
  BY DEF Track, Return, Outdates, broker, fills
<1>2. /\ job'.sent = None /\ trade'.order = job.sent /\ trade'.status = "exit_pending"
      /\ pos'.order = job.sent /\ pos'.qty = job.qty /\ Current' = job.sent
  BY <1>1, NoJobFields DEF Current
<1>3. pos' # NoPosition
  BY TrackTypes, Constants
<1>4. CASE job.sent # None
  <2>1. Current' = Current
    BY <1>2, <1>4 DEF Current
  <2>2. (Current' = None \/ orders'[Current'].filled = 0) => job.qty = held'
    BY <1>1, <1>4, <2>1 DEF Sending, Fits
  <2>3. QED
    BY <1>1, <1>2, <1>3, <2>1, <2>2 DEF One, Books, Copies, Sending, Fits
<1>5. CASE job.sent = None
  <2>1. /\ job.qty = held /\ job.qty >= 1
        /\ \A o \in OrderNumbers : orders[o].st # "working"
        /\ Current # None /\ orders[Current].filled > 0 => Current \in legs
    BY <1>1, <1>5 DEF Sending, IInv, Handler
  <2>2. /\ held \in Int /\ booked \in Nat
    BY Typed
  <2>3. booked = Quantity - held
    <3>1. booked + (IF Current = None \/ Current \in legs THEN 0 ELSE orders[Current].filled)
             = Quantity - held
      BY DEF Books
    <3>2. CASE Current = None \/ Current \in legs
      BY <2>2, <3>1, <3>2
    <3>3. CASE Current # None /\ Current \notin legs
      <4>1. orders[Current].filled \in Nat
        BY <3>3, Typed
      <4>2. orders[Current].filled = 0
        BY <2>1, <3>3, <4>1
      <4>3. QED
        BY <2>2, <3>1, <3>3, <4>2
    <3>4. QED
      BY <3>2, <3>3
  <2>4. One'
    BY <1>1, <1>2, <1>5, <2>1, <2>2 DEF One
  <2>5. Books'
    BY <1>1, <1>2, <1>5, <2>2, <2>3 DEF Books
  <2>6. Copies' /\ Sending'
    BY <1>1, <1>2, <1>3, <1>5, <2>1 DEF Copies, Sending, Fits
  <2>7. QED
    BY <2>4, <2>5, <2>6
<1>6. QED
  BY <1>4, <1>5

\* What is held is what an order has left, or more than nothing: never less.
LEMMA SentHeld ==
    ASSUME IInv, One
    PROVE  held >= 0
<1>1. CASE Current = None
  BY <1>1, Typed DEF One
<1>2. CASE Current # None
  <2>1. /\ orders[Current].qty \in Nat /\ orders[Current].filled \in Nat
        /\ orders[Current].filled <= orders[Current].qty
        /\ orders[Current].qty - orders[Current].filled = held
    BY <1>2, Typed DEF One
  <2>2. QED
    BY <2>1
<1>3. QED
  BY <1>1, <1>2

\* A working limit order is the current one.
LEMMA IndexedIsCurrent ==
    ASSUME Sure, NEW o \in IndexedLimits
    PROVE  o \in {None, Current}
BY DEF Sure, One, IndexedLimits, WorkingLimits

\* What reconciliation makes of a row and an index that name one order names
\* it too, and the row it writes does.
LEMMA ReconciledNames ==
    ASSUME IInv, NEW q \in Int, q <= Quantity, NEW o \in {None, trade.order},
           pos # NoPosition => pos.order = trade.order,
           NEW p, p \in {Reconciled(q, o, trade), Preserve(Reconciled(q, o, trade), pos)}
    PROVE  /\ q <= 0 => p = NoPosition
           /\ q > 0 => p \in Position /\ p.qty = q /\ p.order = trade.order
           /\ Synced(p).order = trade.order
           /\ Synced(p).status = "closed" => p = NoPosition \/ trade.status = "closed"
<1>1. trade \in Row /\ trade.order \in 0..MaxOrders /\ o \in 0..MaxOrders
  BY Fields, Constants DEF IInv, TypeOK
<1>2. CASE q <= 0
  <2>1. p = NoPosition
    BY <1>2 DEF Reconciled, Preserve
  <2>2. Synced(p).order = trade.order
    BY <1>1, <2>1 DEF Synced, Row
  <2>3. QED
    BY <1>2, <2>1, <2>2
<1>3. CASE q > 0
  <2>1. PICK f : f = Reconciled(q, o, trade)
    OBVIOUS
  <2>2. f = [qty |-> q,
             order |-> IF trade.status = "exit_pending" /\ o # None THEN o ELSE trade.order,
             mode |-> IF trade.status = "exit_pending" THEN trade.mode ELSE NoMode,
             reprices |-> 0]
    BY <1>3, <2>1 DEF Reconciled
  <2>3. f.qty = q /\ f.order = trade.order
    BY <2>2
  <2>4. f \in Position
    BY <1>1, <1>3, <2>1, ReconciledIsOne
  <2>5. p \in Position /\ p.qty = q /\ p.order = trade.order
    <3>1. CASE p = f
      BY <2>3, <2>4, <3>1
    <3>2. CASE p # f
      <4>1. p = [pos EXCEPT !.qty = f.qty] /\ Pending(pos)
        BY <2>1, <3>2 DEF Preserve
      <4>2. pos \in Position /\ pos.order = trade.order
        BY <4>1 DEF Pending, IInv, TypeOK
      <4>3. f.qty \in 1..Quantity
        BY <2>4, Fields
      <4>4. QED
        BY <2>3, <4>1, <4>2, <4>3 DEF Position
    <3>3. QED
      BY <3>1, <3>2
  <2>6. p # NoPosition
    BY <2>5, Constants
  <2>7. Synced(p).order = trade.order /\ (Synced(p).status = "closed" => trade.status = "closed")
    BY <1>1, <2>5, <2>6 DEF Synced
  <2>8. QED
    BY <1>3, <2>5, <2>7
<1>4. QED
  BY <1>2, <1>3

\* Reconciliation keeps naming the current order, and a restart finds it again.
LEMMA PassSure ==
    ASSUME IInv, Sure, Unusual = {},
           FetchPortfolio \/ ReadTrades \/ CommitSnapshot \/ Crash \/ Restart
    PROVE  Sure'
<1> USE DEF Sure
<1>1. CASE FetchPortfolio
  <2>1. PICK indexed \in IndexedLimits :
            snap' = [qty |-> held, indexed |-> indexed, row |-> trade, read |-> FALSE]
    BY <1>1 DEF FetchPortfolio
  <2>2. /\ snap'.qty = held /\ snap'.indexed = indexed /\ snap'.row = trade
    BY <2>1
  <2>3. UNCHANGED <<orders, held, pos, pc, look, job, trade, legs, booked>>
    BY <1>1 DEF FetchPortfolio, broker, fills
  <2>4. Current' = Current /\ indexed \in {None, Current}
    BY <2>3, IndexedIsCurrent DEF Current
  <2>5. held \in Int
    BY Typed
  <2>6. QED
    BY <2>2, <2>3, <2>4, <2>5 DEF One, Books, Copies, Sending, Fits
<1>2. CASE ReadTrades
  <2>1. /\ snap \in Snapshot /\ snap' = [snap EXCEPT !.row = trade, !.read = TRUE]
        /\ snap # NoSnapshot
        /\ UNCHANGED <<orders, held, pos, pc, look, job, trade, legs, booked>>
    BY <1>2 DEF ReadTrades, broker, fills, IInv, TypeOK
  <2>2. snap'.qty = snap.qty /\ snap'.indexed = snap.indexed /\ snap'.row = trade
    BY <2>1 DEF Snapshot
  <2>3. Current' = Current
    BY <2>1 DEF Current
  <2>4. QED
    BY <2>1, <2>2, <2>3 DEF One, Books, Copies, Sending, Fits
<1>3. CASE CommitSnapshot
  <2>1. PICK p : p = Preserve(Reconciled(snap.qty, snap.indexed, snap.row), pos)
    OBVIOUS
  <2>2. /\ pos' = p /\ trade' = Synced(p) /\ snap' = NoSnapshot /\ snap # NoSnapshot
        /\ pc # "down"
        /\ UNCHANGED <<orders, held, pc, look, job, legs, booked>>
    BY <1>3, <2>1 DEF CommitSnapshot, broker, fills
  <2>3. /\ snap.row = trade /\ snap.indexed \in {None, Current}
        /\ snap.qty >= held /\ Fits(snap.qty) /\ snap.qty \in Int /\ snap.qty <= Quantity
        /\ held \in Int
    BY <2>2, Typed DEF Copies, IInv, Amounts
  <2>4. CASE job.sent = None
    <3>1. Current = trade.order /\ (pos # NoPosition => pos.order = trade.order)
      BY <2>4 DEF Current, Copies
    <3>2. /\ snap.qty <= 0 => p = NoPosition
          /\ snap.qty > 0 => p \in Position /\ p.qty = snap.qty /\ p.order = trade.order
          /\ Synced(p).order = trade.order
          /\ Synced(p).status = "closed" => p = NoPosition \/ trade.status = "closed"
      BY <2>1, <2>3, <3>1, ReconciledNames
    <3>3. Current' = Current /\ trade'.order = trade.order
      BY <2>2, <2>4, <3>1, <3>2 DEF Current
    <3>4. p # NoPosition => p.order = trade.order /\ Fits(p.qty)
      BY <2>3, <3>2
    <3>5. held > 0 => p # NoPosition
      BY <2>3, <3>2, Constants
    <3>6. trade.status = "closed" => held = 0 /\ snap.qty = 0
      BY <2>2 DEF Copies
    <3>7. held >= 0
      BY SentHeld
    <3>8. Synced(p).status = "closed" => held = 0 /\ p = NoPosition
      <4>1. trade.status = "closed" => p = NoPosition
        BY <2>3, <3>2, <3>6
      <4>2. p = NoPosition => held = 0
        BY <2>3, <3>5, <3>7
      <4>3. QED
        BY <3>2, <4>1, <4>2
    <3>9. One' /\ Books' /\ Sending'
      BY <2>2, <2>4, <3>3 DEF One, Books, Sending
    <3>10. Copies'
      BY <2>2, <2>4, <3>3, <3>4, <3>5, <3>8 DEF Copies, Fits
    <3>11. QED
      BY <3>9, <3>10
  <2>5. CASE job.sent # None
    <3>1. Current' = Current
      BY <2>2, <2>5 DEF Current
    <3>2. Synced(p).status = "closed" => held = 0
      <4>1. trade.status = "closed" => held = 0
        BY DEF Copies
      <4>2. CASE p = NoPosition
        <5>1. snap.qty <= 0
          <6>1. ASSUME snap.qty > 0 PROVE FALSE
            <7>1. /\ trade \in Row /\ trade.order \in 0..MaxOrders
                  /\ snap.indexed \in 0..MaxOrders
              BY <2>2, Fields DEF IInv, TypeOK
            <7>2. PICK f : f = Reconciled(snap.qty, snap.indexed, trade)
              OBVIOUS
            <7>3. f \in Position
              BY <2>3, <6>1, <7>1, <7>2, ReconciledIsOne
            <7>4. p = f \/ (p = [pos EXCEPT !.qty = f.qty] /\ pos \in Position)
              BY <2>1, <2>3, <7>2 DEF Preserve, Pending, IInv, TypeOK
            <7>5. f.qty \in 1..Quantity
              BY <7>3, Fields
            <7>6. p \in Position
              BY <7>3, <7>4, <7>5 DEF Position
            <7>7. QED
              BY <4>2, <7>6, Constants
          <6>2. QED
            BY <2>3, <6>1
        <5>2. held <= 0
          BY <2>3, <5>1
        <5>3. QED
          BY <2>3, <5>2, SentHeld
      <4>3. CASE p # NoPosition
        <5>1. Synced(p).status = "closed" => trade.status = "closed"
          BY <4>3 DEF Synced
        <5>2. QED
          BY <4>1, <5>1
      <4>4. QED
        BY <4>2, <4>3
    <3>3. One' /\ Books' /\ Sending'
      BY <2>2, <2>5, <3>1 DEF One, Books, Sending, Fits
    <3>4. Copies'
      BY <2>2, <2>5, <3>1, <3>2 DEF Copies
    <3>5. QED
      BY <3>3, <3>4
  <2>6. QED
    BY <2>4, <2>5
<1>4. CASE Crash
  <2>1. /\ job.sent = None /\ pc' = "down" /\ pos' = NoPosition /\ look' = NoPosition
        /\ job' = NoJob /\ snap' = NoSnapshot
        /\ UNCHANGED <<orders, held, trade, legs, booked>>
    BY <1>4 DEF Crash, broker, fills
  <2>2. Current' = Current /\ job'.sent = None
    BY <2>1, NoJobFields DEF Current
  <2>3. QED
    BY <2>1, <2>2 DEF One, Books, Copies, Sending
<1>5. CASE Restart
  <2>1. PICK indexed \in IndexedLimits :
            pos' = Reconciled(held, indexed, trade) /\ trade' = Synced(Reconciled(held, indexed, trade))
    BY <1>5 DEF Restart
  <2>2. /\ pc = "down" /\ pc' = "idle"
        /\ UNCHANGED <<orders, held, look, job, snap, legs, booked>>
    BY <1>5 DEF Restart, broker, fills
  <2>3. job.sent = None /\ look = NoPosition /\ snap = NoSnapshot
    BY <2>2, NoJobFields DEF IInv, Handler
  <2>4. Current = trade.order /\ (pos # NoPosition => pos.order = trade.order)
    BY <2>3 DEF Current, Copies
  <2>5. PICK p : p = Reconciled(held, indexed, trade)
    OBVIOUS
  <2>6. /\ held <= 0 => p = NoPosition
        /\ held > 0 => p \in Position /\ p.qty = held /\ p.order = trade.order
        /\ Synced(p).order = trade.order
        /\ Synced(p).status = "closed" => p = NoPosition \/ trade.status = "closed"
    <3>1. indexed \in {None, trade.order} /\ held \in Int /\ held <= Quantity
      BY <2>4, IndexedIsCurrent, Typed DEF IInv, Amounts
    <3>2. QED
      BY <2>4, <2>5, <3>1, ReconciledNames
  <2>7. Current' = Current /\ trade'.order = trade.order
    BY <2>1, <2>2, <2>3, <2>4, <2>5, <2>6 DEF Current
  <2>8. held \in Int /\ held >= 0
    BY Typed, SentHeld
  <2>9. p # NoPosition => p.order = trade.order /\ p.qty = held
    BY <2>6, <2>8
  <2>10. Synced(p).status = "closed" => held = 0 /\ p = NoPosition
    <3>1. trade.status = "closed" => held = 0
      BY DEF Copies
    <3>2. p = NoPosition <=> held = 0
      BY <2>6, <2>8, Constants
    <3>3. QED
      BY <2>6, <3>1, <3>2
  <2>11. One' /\ Books' /\ Sending'
    BY <2>2, <2>3, <2>7 DEF One, Books, Sending
  <2>12. held > 0 => p # NoPosition
    BY <2>6, Constants
  <2>13. Copies'
    BY <2>1, <2>2, <2>3, <2>5, <2>7, <2>9, <2>10, <2>12 DEF Copies, Fits
  <2>14. QED
    BY <2>11, <2>13
<1>6. QED
  BY <1>1, <1>2, <1>3, <1>4, <1>5
\* Before the exit starts nothing is sold and nothing is for sale.
LEMMA SureStarts == Init => Sure
<1> SUFFICES ASSUME Init PROVE Sure
  OBVIOUS
<1>1. /\ trade.order = None /\ trade.status = "open" /\ job.sent = None /\ pos.order = None
      /\ pos.qty = Quantity /\ Current = None
  BY NoJobFields DEF Init, Current
<1>2. pos # NoPosition
  <2>1. Quantity \in 1..Quantity /\ NoMode \in Modes \cup {NoMode} /\ 0 \in 0..1
    BY Constants
  <2>2. pos \in Position
    BY <2>1, Makes, Constants DEF Init
  <2>3. QED
    BY <2>2, Constants
<1>3. \A o \in OrderNumbers : orders[o].st = "none"
  BY DEF Init, NoOrder
<1>4. One
  BY <1>1, <1>3, Constants DEF Init, One
<1>5. Books
  BY <1>1, Constants DEF Init, Books
<1>6. Copies /\ Sending
  BY <1>1, <1>2 DEF Init, Copies, Sending, Fits
<1>7. QED
  BY <1>4, <1>5, <1>6 DEF Sure

\* Every step keeps Sure when nothing unusual happens.
LEMMA SureStep ==
    ASSUME Unusual = {}
    PROVE  IInv /\ Sure /\ [Next]_vars => Sure'
<1> SUFFICES ASSUME IInv, Sure, [Next]_vars PROVE Sure'
  OBVIOUS
<1>1. CASE Poller
  BY <1>1, PollSure, QuietSure, PlaceSure, TrackSure DEF Poller, Polls
<1>2. CASE Market
  BY <1>2, MarketSure DEF Market
<1>3. CASE TimePasses \/ \E mode \in Modes : StartExit(mode)
  BY <1>3, QuietSure
<1>4. CASE FetchPortfolio \/ ReadTrades \/ CommitSnapshot \/ Crash \/ Restart
  BY <1>4, PassSure
<1>5. CASE UNCHANGED vars
  BY <1>5 DEF Sure, One, Books, Copies, Sending, Fits, Current, vars, broker, memory, fills
<1>6. QED
  BY <1>1, <1>2, <1>3, <1>4, <1>5 DEF Next

\* Sure holds in every reachable state.
LEMMA AlwaysSure == ASSUME Unusual = {} PROVE Spec => [](IInv /\ Sure)
<1>1. Init => IInv /\ Sure
  BY TypesStart, SureStarts
<1>2. (IInv /\ Sure) /\ [Next]_vars => (IInv /\ Sure)'
  BY TypesStep, SureStep
<1>3. QED
  BY <1>1, <1>2, PTL DEF Spec

-----------------------------------------------------------------------------
(* The theorems                                                            *)

\* Unless something of UnusualEvents happens, the poller, the ladders and
\* reconciliation never have more contracts for sale than the account holds:
\* only the current order works, and what it has left is what is held.
THEOREM ExitsNeverOversell == ASSUME Unusual = {} PROVE Spec => []NeverOversold
<1>1. ASSUME IInv, Sure PROVE NeverOversold
  <2> DEFINE f == [o \in OrderNumbers |-> Remaining(o)]
  <2>1. IsFiniteSet(OrderNumbers)
    BY Constants, FS_Interval DEF OrderNumbers
  <2>2. ASSUME NEW o \in OrderNumbers
        PROVE  /\ f[o] = IF orders[o].st = "working" THEN orders[o].qty - orders[o].filled ELSE 0
               /\ f[o] \in Int
    <3>1. f[o] = IF orders[o].st = "working" THEN orders[o].qty - orders[o].filled ELSE 0
      BY DEF Remaining
    <3>2. orders[o].qty \in Nat /\ orders[o].filled \in Nat
      BY <1>1, Typed
    <3> HIDE DEF f
    <3>3. QED
      BY <3>1, <3>2
  <2>3. \A o \in OrderNumbers \ {Current} : f[o] = 0
    BY <1>1, <2>2 DEF Sure, One
  <2>4. Exposure = Sum(f, OrderNumbers)
    BY DEF Exposure
  <2>5. held \in Int /\ held >= 0
    BY <1>1, Typed, SentHeld DEF Sure
  <2> HIDE DEF f
  <2>6. Sum(f, OrderNumbers) <= held
    <3>1. CASE Current = None
      <4>1. \A o \in OrderNumbers : f[o] = 0
        BY <2>3, <3>1, Constants
      <4>2. Sum(f, OrderNumbers) = 0
        BY <2>1, <4>1, SumZero
      <4>3. QED
        BY <2>5, <4>2
    <3>2. CASE Current # None
      <4>1. Current \in OrderNumbers
        BY <1>1, <3>2, Typed
      <4>2. Sum(f, OrderNumbers) = f[Current]
        BY <2>1, <2>2, <2>3, <4>1, SumOnly
      <4>3. orders[Current].qty - orders[Current].filled = held
        BY <1>1, <3>2 DEF Sure, One
      <4>4. f[Current] <= held
        BY <2>2, <2>5, <4>1, <4>3
      <4>5. QED
        BY <4>2, <4>4
    <3>3. QED
      BY <3>1, <3>2
  <2>7. Sum(f, OrderNumbers) \in Int
    BY <2>1, <2>2, SumInteger
  <2>8. QED
    BY <2>4, <2>5, <2>6, <2>7 DEF NeverOversold, Oversold
<1>2. IInv /\ Sure => NeverOversold
  BY <1>1
<1>3. QED
  BY <1>2, AlwaysSure, PTL

\* Under the same condition every working order is the one the tracker names,
\* or the one the coroutine is about to give to it.
THEOREM SellsAreKnown == ASSUME Unusual = {} PROVE Spec => []WorkingSellIsKnown
<1>1. ASSUME IInv, Sure PROVE WorkingSellIsKnown
  <2>1. SUFFICES ASSUME pc # "down", NEW o \in OrderNumbers, orders[o].st = "working"
                 PROVE  \/ pc = "track" /\ job.sent = o
                        \/ pos # NoPosition /\ pos.order = o
    BY DEF WorkingSellIsKnown
  <2>2. o = Current /\ o # None
    BY <1>1, <2>1, Constants DEF Sure, One
  <2>3. CASE job.sent # None
    <3>1. pc = "track"
      BY <1>1, <2>3, NoJobFields DEF IInv, Handler, TypeOK
    <3>2. QED
      BY <2>2, <2>3, <3>1 DEF Current
  <2>4. CASE job.sent = None
    <3>1. /\ orders[o].qty \in Nat /\ orders[o].filled \in Nat
          /\ orders[o].filled < orders[o].qty /\ orders[o].qty - orders[o].filled = held
      BY <1>1, <2>1, <2>2, Typed DEF Sure, One, IInv, Amounts
    <3>2. held > 0
      BY <3>1
    <3>3. QED
      BY <1>1, <2>1, <2>2, <2>4, <3>2 DEF Sure, Copies, Current
  <2>5. QED
    BY <2>3, <2>4
<1>2. IInv /\ Sure => WorkingSellIsKnown
  BY <1>1
<1>3. QED
  BY <1>2, AlwaysSure, PTL

\* And a closed trade holds nothing and accounts for every contract: its
\* recorded legs and its last order add up to the quantity, each fill once.
THEOREM ClosedTradesAddUp == ASSUME Unusual = {} PROVE Spec => []ClosedAccountsForEveryFill
<1>1. ASSUME IInv, Sure PROVE ClosedAccountsForEveryFill
  <2>1. SUFFICES ASSUME trade.status = "closed", pc = "idle"
                 PROVE  /\ held = 0
                        /\ trade.order # None
                        /\ booked + orders[trade.order].filled = Quantity
    BY DEF ClosedAccountsForEveryFill
  <2>2. Current = trade.order
    BY <1>1, <2>1, NoJobFields DEF IInv, Handler, Current
  <2>3. held = 0
    BY <1>1, <2>1 DEF Sure, Copies
  <2>4. Current # None
    BY <1>1, <2>3 DEF Sure, One
  <2>5. /\ orders[Current].qty \in Nat /\ orders[Current].filled \in Nat /\ booked \in Nat
        /\ orders[Current].qty - orders[Current].filled = held
    BY <1>1, <2>4, Typed DEF Sure, One
  <2>6. Current \notin legs
    BY <1>1, <2>3, <2>4, <2>5 DEF Sure, Books
  <2>7. booked + orders[Current].filled = Quantity - held
    BY <1>1, <2>4, <2>6 DEF Sure, Books
  <2>8. QED
    BY <2>2, <2>3, <2>4, <2>7, Constants
<1>2. IInv /\ Sure => ClosedAccountsForEveryFill
  BY <1>1
<1>3. QED
  BY <1>2, AlwaysSure, PTL
=============================================================================
