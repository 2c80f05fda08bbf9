------------------------- MODULE PartialScale_proof -------------------------
(***************************************************************************)
(* Proofs about PartialScale, for any quantity, any number of actions and  *)
(* stops and any number of faults and crashes: types, what the durable row *)
(* and the ladder say about the partial, and that the SELL orders never    *)
(* ask for more than the account holds.                                    *)
(***************************************************************************)
EXTENDS PartialScale, Sums_proof, SequenceTheorems

-----------------------------------------------------------------------------
(* The first inductive invariant: types, orders, actions, the handler      *)

\* An order fills up to its size; an id the broker does not know sold nothing.
Amounts ==
    \A o \in SellIds :
        /\ orders[o].filled <= orders[o].qty
        /\ orders[o].st = "working" => orders[o].filled < orders[o].qty
        /\ orders[o].st = "none" => orders[o].filled = 0 /\ orders[o].acked

\* An action's order exists for an action of that kind only, and only the
\* newest action may be open.
Known ==
    /\ \A i \in 1..MaxIntents, k \in {"partial_scale", "stop_to_breakeven"} :
          orders[<<k, i>>].st # "none" => i \in DOMAIN intents /\ intents[i].kind = k
    /\ \A i \in DOMAIN intents :
          /\ i < Len(intents) => intents[i].status \notin OpenStatuses
          /\ intents[i].status # "abandoned"

OpenAt == {"lookup", "bank", "committed", "cancel", "canceling", "post", "repost", "bind",
           "readback", "quarantine", "quarantining", "commit", "retaining"}
PartialAt == {"bank", "rearm", "readback", "quarantine", "quarantining", "leg", "residual",
              "residual2", "retaining"}
LadderAt == {"protect", "resizing", "arm", "evaluate"}
LiveAt == {"cancel", "canceling", "post", "repost", "rearm", "bind", "readback",
           "quarantine", "quarantining", "leg", "residual", "residual2", "commit"}
BareAt == {"retaining", "decide", "protect", "arm", "post", "repost", "rearm", "bind",
           "readback", "quarantine", "quarantining", "leg", "residual", "residual2", "commit"}

\* What the handler may rely on at each of its steps.
Handler ==
    /\ at # "idle" => upd # NoPosition
    /\ at \in OpenAt \cup PartialAt \/ mode = "live" => intents # <<>>
    /\ at \in OpenAt => intent.status \in OpenStatuses
    /\ at \in PartialAt => IsPartial
    /\ at \in {"repost", "commit"} => ~IsPartial
    /\ at = "bank" => Terminal(ActionOrder) /\ orders[ActionOrder].filled > 0
    /\ at \in {"leg", "residual", "residual2"} => intent.status = "confirmed"
    /\ at = "rearm" => intent.status = "failed"
    /\ at \in LadderAt => ladder # NoLadder /\ ~IsOpen(intent)
    /\ at \in LiveAt => mode = "live"
    /\ at \in LadderAt \cup {"idle", "settle", "retain"} => mode = "hydrate"
    /\ at = "lookup" => mode # "live"
    /\ mode = "live" /\ IsPartial => intent.qty > 0 /\ intent.qty < upd.qty
    /\ at \in {"resizing", "cancel", "canceling"} => upd.stop # NoOrder
    /\ \/ at \in BareAt \/ mode = "retain"
       \/ mode = "live" /\ at \in {"bank", "committed"}
       => upd.stop = NoOrder
    /\ at \in {"cancel", "canceling", "post"} => orders[ActionOrder].st = "none"

IInv == TypeOK /\ Amounts /\ Known /\ Handler

-----------------------------------------------------------------------------
(* Ids and records                                                         *)

ActionKinds == {"partial_scale", "stop_to_breakeven"}

LEMMA Ids ==
    /\ \A k \in ActionKinds, i \in 1..MaxIntents : <<k, i>> \in ActionIds /\ <<k, i>> \in SellIds
    /\ \A i \in 1..MaxStops : <<"stop", i>> \in SellIds /\ <<"stop", i>> \notin ActionIds
    /\ \A o \in ActionIds : \E k \in ActionKinds, i \in 1..MaxIntents : o = <<k, i>>
    /\ \A o \in SellIds : o \in ActionIds \/ \E i \in 1..MaxStops : o = <<"stop", i>>
    /\ NoOrder \notin SellIds
  BY IdsAssumption, NoOrderAssumption DEF SellIds, ActionIds, ActionKinds

LEMMA SellIdsFinite == IsFiniteSet(SellIds)
<1>1. IsFiniteSet(1..MaxIntents) /\ IsFiniteSet(1..MaxStops)
  BY FS_Interval, BoundsAssumption
<1>2. IsFiniteSet({"partial_scale", "stop_to_breakeven"}) /\ IsFiniteSet({"stop"})
  <2>1. IsFiniteSet({"partial_scale"}) /\ IsFiniteSet({"stop"})
    BY FS_Singleton
  <2>2. {"partial_scale"} \cup {"stop_to_breakeven"} = {"partial_scale", "stop_to_breakeven"}
    OBVIOUS
  <2>3. QED
    BY <2>1, <2>2, FS_AddElement
<1>3. QED
  BY <1>1, <1>2, FS_Product, FS_Union DEF SellIds, ActionIds

LEMMA MaxOfTwo ==
    ASSUME NEW a \in Nat, NEW b \in Nat
    PROVE  /\ Max({a, b}) \in {a, b}
           /\ Max({a, b}) >= a /\ Max({a, b}) >= b
  BY DEF Max

LEMMA Numbers == /\ Quantity \in Nat /\ MaxIntents \in Nat /\ MaxStops \in Nat /\ Budget \in Nat
                 /\ Quantity > 1 /\ MaxStops > 0
                 /\ Levels \subseteq Nat /\ Base \in Levels /\ Entry \in Levels
                 /\ 0 \notin Levels /\ InitStops \subseteq Levels
  BY BoundsAssumption, StopsAssumption DEF Levels, Base, Entry

-----------------------------------------------------------------------------
(* What a step does to the orders                                          *)

\* All that is compared of an order; only cxl is left out.
Same(o) == /\ orders'[o].st = orders[o].st
           /\ orders'[o].qty = orders[o].qty
           /\ orders'[o].filled = orders[o].filled
           /\ orders'[o].px = orders[o].px
           /\ orders'[o].acked = orders[o].acked
OthersSame(o) == \A x \in SellIds : x # o => Same(x)

Quiet == orders' \in [SellIds -> Order] /\ \A x \in SellIds : Same(x)

Sells(o) ==
    /\ orders' \in [SellIds -> Order] /\ OthersSame(o)
    /\ orders[o].st = "working"
    /\ orders'[o].qty = orders[o].qty /\ orders'[o].filled = orders[o].filled + 1
    /\ orders'[o].px = orders[o].px /\ orders'[o].acked = orders[o].acked
    /\ \/ orders'[o].st = "working" /\ orders'[o].filled < orders[o].qty
       \/ orders'[o].st = "filled" /\ orders'[o].filled = orders[o].qty

Ends(o) ==
    /\ orders' \in [SellIds -> Order] /\ OthersSame(o)
    /\ orders[o].st = "working" /\ orders'[o].st = "dead"
    /\ orders'[o].qty = orders[o].qty /\ orders'[o].filled = orders[o].filled
    /\ orders'[o].px = orders[o].px /\ orders'[o].acked = orders[o].acked

Placed(o, q, px, acked) ==
    /\ orders' \in [SellIds -> Order] /\ OthersSame(o)
    /\ orders'[o].st = "working" /\ orders'[o].qty = q /\ orders'[o].filled = 0
    /\ orders'[o].px = px /\ orders'[o].acked = acked

LEMMA OneOrder ==
    ASSUME orders \in [SellIds -> Order], NEW o \in SellIds, NEW r \in Order,
           orders' = [orders EXCEPT ![o] = r]
    PROVE  /\ orders' \in [SellIds -> Order]
           /\ orders'[o] = r
           /\ OthersSame(o)
  BY DEF OthersSame, Same

LEMMA FillSells ==
    ASSUME TypeOK, Amounts, NEW o \in SellIds, Fill(o)
    PROVE  Sells(o) /\ held > 0 /\ held' = held - 1
<1> DEFINE x == orders[o]
           s == IF Remaining(o) = 1 THEN "filled" ELSE x.st
           c == x.cxl /\ Remaining(o) > 1
           r == [x EXCEPT !.filled = x.filled + 1, !.st = s, !.cxl = c]
<1>1. /\ orders \in [SellIds -> Order] /\ x \in Order /\ x.st = "working"
      /\ x.filled \in Nat /\ x.qty \in 0..Quantity /\ x.filled < x.qty
  BY Numbers DEF TypeOK, Amounts, Fill, Order
<1>2. x.filled + 1 \in 0..Quantity /\ x.filled + 1 <= x.qty
  BY <1>1, Numbers
<1>3. /\ s \in {"working", "filled"} /\ c \in BOOLEAN
      /\ (s = "working" /\ x.filled + 1 < x.qty) \/ (s = "filled" /\ x.filled + 1 = x.qty)
  BY <1>1 DEF Remaining, Order
<1>4. orders' = [orders EXCEPT ![o] = r]
  BY <1>1 DEF Fill
<1> HIDE DEF s, c
<1>5. /\ r \in Order /\ r.st = s /\ r.qty = x.qty /\ r.filled = x.filled + 1
      /\ r.px = x.px /\ r.acked = x.acked
  BY <1>1, <1>2, <1>3 DEF Order
<1> HIDE DEF r
<1>6. orders' \in [SellIds -> Order] /\ orders'[o] = r /\ OthersSame(o)
  BY <1>1, <1>4, <1>5, OneOrder
<1>7. Sells(o)
  BY <1>1, <1>3, <1>5, <1>6 DEF Sells
<1>8. QED
  BY <1>7 DEF Fill

LEMMA DiesEnds ==
    ASSUME TypeOK, NEW o \in SellIds, Dies(o)
    PROVE  Ends(o) /\ held' = held
<1> DEFINE x == orders[o]
           r == [x EXCEPT !.st = "dead", !.cxl = FALSE]
<1>1. orders \in [SellIds -> Order] /\ x \in Order /\ x.st = "working"
  BY DEF TypeOK, Dies
<1>2. orders' = [orders EXCEPT ![o] = r]
  BY DEF Dies
<1>3. /\ r \in Order /\ r.st = "dead" /\ r.qty = x.qty /\ r.filled = x.filled
      /\ r.px = x.px /\ r.acked = x.acked
  BY <1>1 DEF Order
<1> HIDE DEF r
<1>4. orders' \in [SellIds -> Order] /\ orders'[o] = r /\ OthersSame(o)
  BY <1>1, <1>2, <1>3, OneOrder
<1>5. QED
  BY <1>1, <1>3, <1>4 DEF Ends, Dies

LEMMA UnchangedQuiet == TypeOK /\ orders' = orders => Quiet
  BY DEF TypeOK, Quiet, Same

LEMMA CancelQuiet ==
    ASSUME TypeOK, NEW o \in SellIds, CancelRequested(o)
    PROVE  Quiet
<1> DEFINE x == orders[o]
           b == x.cxl \/ orders[o].st = "working"
           r == [x EXCEPT !.cxl = b]
<1>1. orders \in [SellIds -> Order] /\ x \in Order
  BY DEF TypeOK
<1>2. orders' = [orders EXCEPT ![o] = r] /\ b \in BOOLEAN
  BY <1>1 DEF CancelRequested, Order
<1> HIDE DEF b
<1>3. /\ r \in Order /\ r.st = x.st /\ r.qty = x.qty /\ r.filled = x.filled
      /\ r.px = x.px /\ r.acked = x.acked
  BY <1>1, <1>2 DEF Order
<1> HIDE DEF r
<1>4. orders' \in [SellIds -> Order] /\ orders'[o] = r /\ OthersSame(o)
  BY <1>1, <1>2, <1>3, OneOrder
<1>5. Same(o)
  BY <1>3, <1>4 DEF Same
<1>6. QED
  BY <1>4, <1>5 DEF Quiet, OthersSame

LEMMA RestingOrder ==
    ASSUME NEW q \in 1..Quantity, NEW px \in {0} \cup Levels, NEW a \in BOOLEAN
    PROVE  /\ Resting(q, px, a) \in Order
           /\ Resting(q, px, a).st = "working" /\ Resting(q, px, a).qty = q
           /\ Resting(q, px, a).filled = 0 /\ Resting(q, px, a).px = px
           /\ Resting(q, px, a).acked = a
<1>1. q \in 0..Quantity /\ 0 \in 0..Quantity
  BY Numbers
<1>2. Absent \in Order /\ Absent.filled = 0
  BY <1>1 DEF Order, Absent
<1>3. PICK x \in Order : x = Absent /\ x.filled = 0
  BY <1>2
<1>4. Resting(q, px, a) = [x EXCEPT !.st = "working", !.qty = q, !.px = px, !.acked = a]
  BY <1>3 DEF Resting
<1>5. QED
  BY <1>1, <1>3, <1>4 DEF Order

LEMMA SubmitPlaces ==
    ASSUME TypeOK, NEW o \in SellIds, NEW q \in 1..Quantity, NEW px \in {0} \cup Levels,
           NEW outcome \in Outcomes, Submit(o, q, px, outcome)
    PROVE  \/ Quiet /\ (outcome = "refused" \/ orders[o].st # "none")
           \/ /\ Placed(o, q, px, outcome = "ack") /\ orders[o].st = "none"
              /\ outcome # "refused"
<1>1. orders \in [SellIds -> Order]
  BY DEF TypeOK
<1>2. CASE outcome # "refused" /\ orders[o].st = "none"
  <2>1. PICK a \in BOOLEAN : a = (outcome = "ack")
    OBVIOUS
  <2>2. PICK r : r = Resting(q, px, a)
    OBVIOUS
  <2>3. /\ r \in Order /\ r.st = "working" /\ r.qty = q /\ r.filled = 0 /\ r.px = px
        /\ r.acked = a
    <3>1. a \in BOOLEAN
      BY <2>1
    <3>2. /\ Resting(q, px, a) \in Order
          /\ Resting(q, px, a).st = "working" /\ Resting(q, px, a).qty = q
          /\ Resting(q, px, a).filled = 0 /\ Resting(q, px, a).px = px
          /\ Resting(q, px, a).acked = a
      BY <3>1, RestingOrder
    <3>3. QED
      BY <2>2, <3>2, Zenon
  <2>4. orders' = [orders EXCEPT ![o] = r]
    BY <1>2, <2>1, <2>2 DEF Submit
  <2>5. orders' \in [SellIds -> Order] /\ orders'[o] = r /\ OthersSame(o)
    BY <1>1, <2>3, <2>4, OneOrder
  <2>6. Placed(o, q, px, outcome = "ack")
    BY <2>1, <2>3, <2>5, Zenon DEF Placed
  <2>7. QED
    BY <1>2, <2>6
<1>3. CASE ~(outcome # "refused" /\ orders[o].st = "none")
  <2>1. orders' = orders
    BY <1>3, Zenon DEF Submit
  <2>2. QED
    BY <1>3, <2>1, UnchangedQuiet
<1>4. QED
  BY <1>2, <1>3

\* A stop with a fresh uuid: unknown to the broker, or over and forgotten.
Fresh(o) == /\ o \in SellIds /\ o \notin ActionIds
            /\ orders[o].st # "working" /\ orders[o].acked
            /\ orders[o].st # "none" => o \notin Named

LEMMA FreshStopFresh == TypeOK /\ Amounts /\ FreshStops # {} => Fresh(FreshStop)
<1> SUFFICES ASSUME TypeOK, Amounts, FreshStops # {} PROVE Fresh(FreshStop)
  OBVIOUS
<1>1. FreshStops \subseteq 1..MaxStops /\ 1..MaxStops \subseteq Nat
  BY Numbers DEF FreshStops
<1>2. Min(FreshStops) \in FreshStops
  BY <1>1, MinIsMember
<1>3. PICK i \in FreshStops : i = Min(FreshStops)
  BY <1>2
<1>4. FreshStop = <<"stop", i>> /\ i \in 1..MaxStops
  BY <1>1, <1>3 DEF FreshStop
<1>5. \/ orders[<<"stop", i>>].st = "none"
      \/ Terminal(<<"stop", i>>) /\ orders[<<"stop", i>>].acked /\ <<"stop", i>> \notin Named
  BY <1>3 DEF FreshStops
<1>6. QED
  BY <1>4, <1>5, Ids DEF Fresh, Terminal, Amounts

LEMMA PlaceStopPlaces ==
    ASSUME TypeOK, Amounts, NEW q \in 1..Quantity, NEW px \in {0} \cup Levels,
           NEW outcome \in Outcomes, PlaceStop(q, px, outcome)
    PROVE  /\ Fresh(FreshStop)
           /\ \/ Quiet /\ outcome = "refused"
              \/ Placed(FreshStop, q, px, outcome = "ack") /\ outcome # "refused"
<1>1. orders \in [SellIds -> Order]
  BY DEF TypeOK
<1>2. Fresh(FreshStop)
  BY FreshStopFresh DEF PlaceStop
<1>3. CASE outcome # "refused"
  <2>1. PICK a \in BOOLEAN : a = (outcome = "ack")
    OBVIOUS
  <2>2. PICK r : r = Resting(q, px, a)
    OBVIOUS
  <2>3. /\ r \in Order /\ r.st = "working" /\ r.qty = q /\ r.filled = 0 /\ r.px = px
        /\ r.acked = a
    <3>1. a \in BOOLEAN
      BY <2>1
    <3>2. /\ Resting(q, px, a) \in Order
          /\ Resting(q, px, a).st = "working" /\ Resting(q, px, a).qty = q
          /\ Resting(q, px, a).filled = 0 /\ Resting(q, px, a).px = px
          /\ Resting(q, px, a).acked = a
      BY <3>1, RestingOrder
    <3>3. QED
      BY <2>2, <3>2, Zenon
  <2>4. orders' = [orders EXCEPT ![FreshStop] = r] /\ FreshStop \in SellIds
    BY <1>2, <1>3, <2>1, <2>2 DEF PlaceStop, Fresh
  <2>5. /\ orders' \in [SellIds -> Order] /\ orders'[FreshStop] = r
        /\ OthersSame(FreshStop)
    BY <1>1, <2>3, <2>4, OneOrder
  <2>6. Placed(FreshStop, q, px, outcome = "ack")
    BY <2>1, <2>3, <2>5, Zenon DEF Placed
  <2>7. QED
    BY <1>2, <1>3, <2>6
<1>4. CASE outcome = "refused"
  BY <1>2, <1>4, UnchangedQuiet DEF PlaceStop
<1>5. QED
  BY <1>3, <1>4

-----------------------------------------------------------------------------
(* What a step does to the actions                                         *)

last == Len(intents)

LEMMA IntentFacts ==
    ASSUME TypeOK, intents # <<>>
    PROVE  /\ last \in Nat /\ last \in 1..MaxIntents /\ last \in DOMAIN intents
           /\ DOMAIN intents = 1..last
           /\ intent = intents[last] /\ intent \in Action /\ intent # NoIntent
           /\ intent.kind \in ActionKinds /\ intent.qty \in 0..Quantity
           /\ ActionOrder = <<intent.kind, last>>
           /\ ActionOrder \in ActionIds /\ ActionOrder \in SellIds
           /\ IsOpen(intent) <=> intent.status \in OpenStatuses
<1>1. intents \in Seq(Action) /\ last \in Nat /\ last <= MaxIntents /\ DOMAIN intents = 1..last
  BY LenProperties, Numbers DEF TypeOK, last
<1>2. last \in 1..MaxIntents /\ last \in DOMAIN intents
  BY <1>1, EmptySeq, Numbers DEF last
<1>3. intent = intents[last] /\ intent \in Action
  BY <1>1, <1>2, ElementOfSeq DEF intent, last
<1>4. intent # NoIntent /\ intent.kind \in ActionKinds /\ intent.qty \in 0..Quantity
  BY <1>3, SentinelsAssumption DEF Action, ActionKinds
<1>5. ActionOrder = <<intent.kind, last>> /\ ActionOrder \in ActionIds /\ ActionOrder \in SellIds
  BY <1>2, <1>4, Ids DEF ActionOrder, last
<1>6. QED
  BY <1>1, <1>2, <1>3, <1>4, <1>5 DEF IsOpen

LEMMA NoIntents == intents = <<>> => intent = NoIntent /\ ~IsOpen(intent)
  BY DEF intent, IsOpen

\* The newest action changes its status; or one is added.
Marked(status, proof) ==
    /\ intents # <<>> /\ intents' # <<>>
    /\ intents' \in Seq(Action) /\ Len(intents') = last
    /\ \A i \in 1..last : i # last => intents'[i] = intents[i]
    /\ intents'[last].kind = intent.kind /\ intents'[last].qty = intent.qty
    /\ intents'[last].status = status /\ intents'[last].proof = proof
    /\ intent' = intents'[last]
    /\ ActionOrder' = ActionOrder /\ (IsPartial' <=> IsPartial)

Added(kind, q) ==
    /\ last < MaxIntents
    /\ intents' # <<>>
    /\ intents' \in Seq(Action) /\ Len(intents') = last + 1
    /\ \A i \in 1..last : intents'[i] = intents[i]
    /\ intents'[last + 1].kind = kind /\ intents'[last + 1].qty = q
    /\ intents'[last + 1].status = "prepared" /\ intents'[last + 1].proof = "live"
    /\ intent' = intents'[last + 1]
    /\ ActionOrder' = <<kind, last + 1>>

LEMMA OneIntent ==
    ASSUME TypeOK, intents # <<>>, NEW r \in Action, r.kind = intent.kind, r.qty = intent.qty,
           intents' = [intents EXCEPT ![Len(intents)] = r]
    PROVE  Marked(r.status, r.proof)
<1>1. /\ intents \in Seq(Action) /\ last \in 1..last /\ DOMAIN intents = 1..last
      /\ last \in Nat /\ Len(intents) = last
  BY IntentFacts DEF TypeOK, last
<1>2. /\ intents' \in Seq(Action) /\ Len(intents') = last
      /\ \A i \in 1..last : intents'[i] = IF i = last THEN r ELSE intents[i]
  BY <1>1, ExceptSeq DEF last
<1>3. intents' # <<>>
  BY <1>1, <1>2, EmptySeq
<1>4. intent' = intents'[last] /\ intents'[last] = r
  BY <1>1, <1>2, <1>3 DEF intent
<1>5. ActionOrder' = ActionOrder /\ (IsPartial' <=> IsPartial)
  BY <1>1, <1>2, <1>4 DEF ActionOrder, IsPartial
<1>6. QED
  BY <1>2, <1>3, <1>4, <1>5 DEF Marked

LEMMA BoundMarks ==
    ASSUME TypeOK, intents # <<>>, Bound
    PROVE  Marked("submitted", intent.proof)
<1>1. PICK x \in Action : x = intents[Len(intents)] /\ x = intent
  BY IntentFacts DEF last
<1>2. PICK r : r = [x EXCEPT !.status = "submitted"]
  OBVIOUS
<1>3. /\ r \in Action /\ r.kind = x.kind /\ r.qty = x.qty /\ r.status = "submitted"
      /\ r.proof = x.proof
  BY <1>1, <1>2 DEF Action, OpenStatuses
<1>4. intents' = [intents EXCEPT ![Len(intents)] = r]
  BY <1>1, <1>2 DEF Bound
<1>5. QED
  BY <1>1, <1>3, <1>4, OneIntent

LEMMA ResolvedMarks ==
    ASSUME TypeOK, intents # <<>>, NEW s \in TerminalStatuses, NEW p \in {"live", "readback"},
           Resolved(s, p)
    PROVE  Marked(s, p)
<1>1. PICK x \in Action : x = intents[Len(intents)] /\ x = intent
  BY IntentFacts DEF last
<1>2. PICK r : r = [[x EXCEPT !.status = s] EXCEPT !.proof = p]
  OBVIOUS
<1>3. r \in Action /\ r.kind = x.kind /\ r.qty = x.qty /\ r.status = s /\ r.proof = p
  BY <1>1, <1>2 DEF Action
<1>4. intents' = [intents EXCEPT ![Len(intents)] = r]
  BY <1>1, <1>2 DEF Resolved, WithResolution
<1>5. QED
  BY <1>1, <1>3, <1>4, OneIntent

LEMMA PreparedAdds ==
    ASSUME TypeOK, NEW k \in ActionKinds, NEW q \in 0..Quantity, Prepared(k, q)
    PROVE  Added(k, q)
<1>1. PICK r : r = [kind |-> k, qty |-> q, status |-> "prepared", proof |-> "live"]
  OBVIOUS
<1>2. /\ r \in Action /\ r.kind = k /\ r.qty = q /\ r.status = "prepared" /\ r.proof = "live"
  BY <1>1 DEF Action, ActionKinds, OpenStatuses
<1>3. intents \in Seq(Action) /\ intents' = Append(intents, r) /\ last < MaxIntents
  BY <1>1 DEF Prepared, TypeOK, last
<1>4. /\ intents' \in Seq(Action) /\ intents' # <<>> /\ Len(intents') = last + 1
      /\ \A i \in 1..last : intents'[i] = intents[i]
      /\ intents'[last + 1] = r
  BY <1>2, <1>3, AppendProperties DEF last
<1>5. intent' = intents'[last + 1]
  BY <1>4 DEF intent
<1>6. ActionOrder' = <<k, last + 1>>
  BY <1>2, <1>4, <1>5 DEF ActionOrder
<1>7. QED
  BY <1>2, <1>3, <1>4, <1>5, <1>6 DEF Added

LEMMA IntentsStay ==
    intents' = intents => /\ last' = last /\ intent' = intent /\ ActionOrder' = ActionOrder
                          /\ (IsPartial' <=> IsPartial) /\ (IsOpen(intent)' <=> IsOpen(intent))
  BY DEF last, intent, ActionOrder, IsPartial, IsOpen

-----------------------------------------------------------------------------
(* The steps by what they do to orders and actions                         *)

\* No order is placed, sells or dies, and no action changes.
Calm ==
    \/ Begin \/ LookupFails \/ Bank \/ Settle \/ Retain \/ Defer
    \/ FindsNone \/ (\E o \in SellIds : FindsProtection(o))
    \/ (\E canceled \in BOOLEAN : ResizeReadback(canceled))
    \/ Hold \/ RequestCancel \/ (\E ok \in BOOLEAN : Readback(ok))
    \/ Quarantine \/ RecordLeg \/ CommitBreakeven
    \/ Reconcile \/ CrashRestart \/ UNCHANGED vars

\* The open action changes its status.
Marks ==
    \/ LookupPartial \/ LookupBreakeven \/ Confirm \/ Bind
    \/ \E canceled \in BOOLEAN :
          RetainReadback(canceled) \/ CancelReadback(canceled) \/ QuarantineReadback(canceled)

\* The ladder decides.
Decides == StopToBreakeven \/ \E q \in 1..Quantity : Target1(q)

\* A stop is placed under a fresh uuid.
Stops == \E outcome \in Outcomes :
            Restore(outcome) \/ Arm(outcome) \/ Rearm(outcome) \/ ResidualStop(outcome)

\* The open action's order is posted.
Posts == \E outcome \in Outcomes : PostPartial(outcome) \/ PostBreakeven(outcome)

Trades == \E o \in SellIds : Fill(o) \/ Dies(o)

LEMMA Steps == [Next]_vars => Calm \/ Marks \/ Decides \/ Stops \/ Posts \/ Trades
  BY DEF Next, Recover, Protect, Act, Calm, Marks, Decides, Stops, Posts, Trades

LEMMA CalmMoves ==
    ASSUME IInv, Calm
    PROVE  Quiet /\ held' = held /\ intents' = intents
<1> USE DEF IInv
<1>1. CASE RequestCancel \/ Quarantine \/ Retain \/ \E o \in SellIds : FindsProtection(o)
  <2>1. CASE RequestCancel
    <3>1. upd \in Tracked /\ upd.stop # NoOrder
      BY <2>1 DEF RequestCancel, Handler, TypeOK
    <3>2. upd.stop \in SellIds
      BY <3>1 DEF Tracked
    <3>3. QED
      BY <2>1, <3>2, CancelQuiet DEF RequestCancel, durable
  <2>2. CASE Quarantine
    <3>1. intents # <<>>
      BY <2>2 DEF Quarantine, Handler, OpenAt
    <3>2. QED
      BY <2>2, <3>1, IntentFacts, CancelQuiet DEF Quarantine, durable
  <2>3. CASE Retain
    <3>1. IsOpen(intent) => ActionOrder \in SellIds
      BY IntentFacts, NoIntents
    <3>2. held' = held /\ intents' = intents
      BY <2>3 DEF Retain, durable
    <3>3. orders' = orders \/ (IsOpen(intent) /\ CancelRequested(ActionOrder))
      BY <2>3 DEF Retain
    <3>4. QED
      BY <3>1, <3>2, <3>3, CancelQuiet, UnchangedQuiet
  <2>4. ASSUME NEW o \in SellIds, FindsProtection(o)
        PROVE  Quiet /\ held' = held /\ intents' = intents
    <3>1. orders' = orders \/ CancelRequested(o)
      BY <2>4 DEF FindsProtection
    <3>2. held' = held /\ intents' = intents
      BY <2>4 DEF FindsProtection, durable
    <3>3. QED
      BY <3>1, <3>2, CancelQuiet, UnchangedQuiet
  <2>5. QED
    BY <1>1, <2>1, <2>2, <2>3, <2>4
<1>2. CASE ~(RequestCancel \/ Quarantine \/ Retain \/ \E o \in SellIds : FindsProtection(o))
  <2>1. orders' = orders /\ held' = held /\ intents' = intents
    <3>1. CASE \/ Begin \/ LookupFails \/ Bank \/ Settle \/ Defer \/ FindsNone
      BY <3>1 DEF Begin, LookupFails, Bank, Settle, Defer, FindsNone, broker, durable
    <3>2. CASE \/ (\E canceled \in BOOLEAN : ResizeReadback(canceled))
               \/ Hold \/ (\E ok \in BOOLEAN : Readback(ok))
      BY <3>2 DEF ResizeReadback, Hold, Readback, broker, durable
    <3>3. CASE RecordLeg \/ CommitBreakeven \/ Reconcile \/ CrashRestart \/ UNCHANGED vars
      BY <3>3 DEF RecordLeg, CommitBreakeven, Reconcile, CrashRestart, vars, broker, durable
    <3>4. QED
      BY <1>2, <3>1, <3>2, <3>3 DEF Calm
  <2>2. QED
    BY <2>1, UnchangedQuiet
<1>3. QED
  BY <1>1, <1>2

\* The status an open action is given.
Status(s, p) ==
    /\ IsOpen(intent)
    /\ s \in {"submitted", "confirmed", "failed"} /\ p \in {"live", "readback"}
    /\ Marked(s, p)

LEMMA BoundStatus ==
    ASSUME IInv, at \in OpenAt, Bound
    PROVE  Status("submitted", intent.proof)
<1>1. intents # <<>> /\ IsOpen(intent) /\ intent \in Action
  BY IntentFacts DEF IInv, Handler
<1>2. intent.proof \in {"live", "readback"}
  BY <1>1 DEF Action
<1>3. QED
  BY <1>1, <1>2, BoundMarks DEF Status, IInv

LEMMA ResolvedStatus ==
    ASSUME IInv, at \in OpenAt, NEW s \in {"confirmed", "failed"}, NEW p \in {"live", "readback"},
           Resolved(s, p)
    PROVE  Status(s, p)
<1>1. intents # <<>> /\ IsOpen(intent)
  BY IntentFacts DEF IInv, Handler
<1>2. QED
  BY <1>1, ResolvedMarks DEF Status, IInv, TerminalStatuses

SomeStatus == \E s \in {"submitted", "confirmed", "failed"}, p \in {"live", "readback"} : Status(s, p)

LEMMA MarksMoves ==
    ASSUME IInv, Marks
    PROVE  Quiet /\ held' = held /\ (intents' = intents \/ SomeStatus)
<1> USE DEF IInv
<1>1. orders' = orders /\ held' = held
  BY DEF Marks, LookupPartial, LookupBreakeven, Confirm, Bind, RetainReadback, CancelReadback,
         QuarantineReadback, broker
<1>2. /\ at \in OpenAt
      /\ intents' = intents \/ Bound
         \/ \E s \in {"confirmed", "failed"}, p \in {"live", "readback"} : Resolved(s, p)
  <2>1. CASE LookupPartial
    BY <2>1 DEF LookupPartial, OpenAt
  <2>2. CASE LookupBreakeven
    BY <2>2 DEF LookupBreakeven, OpenAt
  <2>3. CASE Confirm
    BY <2>3 DEF Confirm, OpenAt
  <2>4. CASE Bind
    BY <2>4 DEF Bind, OpenAt
  <2>5. CASE \E canceled \in BOOLEAN :
               RetainReadback(canceled) \/ CancelReadback(canceled) \/ QuarantineReadback(canceled)
    BY <2>5 DEF RetainReadback, CancelReadback, QuarantineReadback, Fails, OpenAt
  <2>6. QED
    BY <2>1, <2>2, <2>3, <2>4, <2>5 DEF Marks
<1>3. intents' = intents \/ SomeStatus
  <2>1. CASE Bound
    <3>1. Status("submitted", intent.proof)
      BY <1>2, <2>1, BoundStatus
    <3>2. QED
      BY <3>1 DEF SomeStatus, Status
  <2>2. ASSUME NEW s \in {"confirmed", "failed"}, NEW p \in {"live", "readback"}, Resolved(s, p)
        PROVE  SomeStatus
    BY <1>2, <2>2, ResolvedStatus DEF SomeStatus
  <2>3. QED
    BY <1>2, <2>1, <2>2
<1>4. QED
  BY <1>1, <1>3, UnchangedQuiet

LEMMA DecidesMoves ==
    ASSUME IInv, Decides
    PROVE  /\ Quiet /\ held' = held /\ ~IsOpen(intent)
           /\ intents' = intents \/ \E k \in ActionKinds, q \in 0..Quantity : Added(k, q)
<1> USE DEF IInv
<1>1. orders' = orders /\ held' = held /\ at = "evaluate"
  BY DEF Decides, StopToBreakeven, Target1, broker
<1>2. ~IsOpen(intent)
  BY <1>1 DEF Handler, LadderAt
<1>3. \/ intents' = intents
      \/ Prepared("stop_to_breakeven", 0)
      \/ \E q \in 1..Quantity : Prepared("partial_scale", q)
  BY DEF Decides, StopToBreakeven, Target1
<1>4. 0 \in 0..Quantity /\ \A q \in 1..Quantity : q \in 0..Quantity
  BY Numbers
<1>5. ASSUME NEW q \in 1..Quantity, Prepared("partial_scale", q)
      PROVE  \E k \in ActionKinds, r \in 0..Quantity : Added(k, r)
  BY <1>4, <1>5, PreparedAdds DEF ActionKinds
<1>6. ASSUME Prepared("stop_to_breakeven", 0)
      PROVE  \E k \in ActionKinds, r \in 0..Quantity : Added(k, r)
  BY <1>4, <1>6, PreparedAdds DEF ActionKinds
<1>7. QED
  BY <1>1, <1>2, <1>3, <1>5, <1>6, UnchangedQuiet

\* A stop for q contracts was placed, or nothing reached the broker.
NewStop(q) ==
    \/ Quiet
    \/ Fresh(FreshStop) /\ \E px \in {0} \cup Levels, a \in BOOLEAN : Placed(FreshStop, q, px, a)

\* The quantity of the stop that is placed, and where.
Size == IF at \in {"residual", "residual2"} THEN upd.qty - intent.qty ELSE upd.qty

LEMMA UpdFacts ==
    ASSUME IInv, at # "idle"
    PROVE  /\ upd \in Tracked /\ upd # NoPosition /\ upd.qty \in Nat /\ upd.qty \in 1..Quantity
           /\ upd.stop \in SellIds \cup {NoOrder} /\ upd.px \in {0} \cup Levels
<1>1. upd \in Tracked /\ upd # NoPosition
  BY DEF IInv, Handler, TypeOK
<1>2. QED
  BY <1>1, Numbers DEF Tracked

LEMMA SizeFits ==
    ASSUME IInv, at \in {"decide", "arm", "rearm", "residual", "residual2"}
    PROVE  Size \in 1..Quantity
<1> USE DEF IInv
<1>1. upd.qty \in 1..Quantity
  BY UpdFacts
<1>2. CASE at \in {"residual", "residual2"}
  <2>1. /\ intents # <<>> /\ mode = "live" /\ IsPartial
    BY <1>2 DEF Handler, PartialAt, LiveAt
  <2>2. intent.qty > 0 /\ intent.qty < upd.qty /\ intent.qty \in 0..Quantity
    BY <2>1, IntentFacts DEF Handler
  <2>3. QED
    BY <1>1, <1>2, <2>2, Numbers DEF Size
<1>3. CASE at \notin {"residual", "residual2"}
  BY <1>1, <1>3 DEF Size
<1>4. QED
  BY <1>2, <1>3

\* A stop is asked for, or (without a price to put it at) nothing is done.
LEMMA StopsPlace ==
    ASSUME IInv, NEW outcome \in Outcomes,
           Restore(outcome) \/ Arm(outcome) \/ Rearm(outcome) \/ ResidualStop(outcome)
    PROVE  /\ held' = held /\ intents' = intents
           /\ at \in {"decide", "arm", "rearm", "residual", "residual2"}
           /\ Size \in 1..Quantity
           /\ \/ orders' = orders /\ outcome = "refused"
              \/ \E px \in {0} \cup Levels : PlaceStop(Size, px, outcome)
<1> USE DEF IInv
<1>2. /\ held' = held /\ intents' = intents
      /\ at \in {"decide", "arm", "rearm", "residual", "residual2"}
  BY DEF Restore, Arm, Rearm, ResidualStop, durable
<1>3. Size \in 1..Quantity
  BY <1>2, SizeFits
<1>4. /\ row.stop \in {0} \cup Levels /\ prior \in {0} \cup Levels
      /\ Base \in {0} \cup Levels /\ upd.px \in {0} \cup Levels
  <2>1. row.stop \in Levels
    BY DEF TypeOK
  <2>2. upd.px \in {0} \cup Levels
    BY <1>2, UpdFacts
  <2>3. QED
    BY <2>1, <2>2, Numbers DEF TypeOK
<1>5. (orders' = orders /\ outcome = "refused") \/ \E px \in {0} \cup Levels : PlaceStop(Size, px, outcome)
  <2>1. CASE Restore(outcome)
    <3>1. PICK px : px = (IF upd.px # 0 THEN upd.px ELSE row.stop) /\ PlaceStop(upd.qty, px, outcome)
      BY <2>1 DEF Restore
    <3>2. px \in {0} \cup Levels
      BY <1>4, <3>1
    <3>3. Size = upd.qty
      BY <2>1 DEF Restore, Size
    <3>4. QED
      BY <3>1, <3>2, <3>3
  <2>2. CASE Arm(outcome)
    BY <1>4, <2>2 DEF Arm, Size
  <2>3. CASE Rearm(outcome)
    BY <1>4, <2>3 DEF Rearm, Size
  <2>4. CASE ResidualStop(outcome)
    <3>1. PICK px : px = (IF prior # 0 THEN prior ELSE Base)
                    /\ PlaceStop([upd EXCEPT !.qty = @ - intent.qty].qty, px, outcome)
      BY <2>4 DEF ResidualStop
    <3>2. px \in {0} \cup Levels
      BY <1>4, <3>1
    <3>3. [upd EXCEPT !.qty = @ - intent.qty].qty = Size
      <4>1. upd \in Tracked /\ at \in {"residual", "residual2"}
        BY <1>2, <2>4, UpdFacts DEF ResidualStop
      <4>2. QED
        BY <4>1 DEF Tracked, Size
    <3>4. QED
      BY <3>1, <3>2, <3>3
  <2>5. QED
    BY <2>1, <2>2, <2>3, <2>4
<1>6. QED
  BY <1>2, <1>3, <1>5

LEMMA StopsMoves ==
    ASSUME IInv, Stops
    PROVE  /\ held' = held /\ intents' = intents
           /\ at \in {"decide", "arm", "rearm", "residual", "residual2"}
           /\ Size \in 1..Quantity /\ NewStop(Size)
<1>1. PICK outcome \in Outcomes :
         Restore(outcome) \/ Arm(outcome) \/ Rearm(outcome) \/ ResidualStop(outcome)
  BY DEF Stops
<1>2. /\ held' = held /\ intents' = intents
      /\ at \in {"decide", "arm", "rearm", "residual", "residual2"}
      /\ Size \in 1..Quantity
      /\ orders' = orders \/ \E px \in {0} \cup Levels : PlaceStop(Size, px, outcome)
  BY <1>1, StopsPlace
<1>3. ASSUME NEW px \in {0} \cup Levels, PlaceStop(Size, px, outcome)
      PROVE  NewStop(Size)
  <2>1. (outcome = "ack") \in BOOLEAN
    OBVIOUS
  <2>2. /\ Fresh(FreshStop)
        /\ \/ Quiet /\ outcome = "refused"
           \/ Placed(FreshStop, Size, px, outcome = "ack") /\ outcome # "refused"
    BY <1>2, <1>3, PlaceStopPlaces DEF IInv
  <2>3. QED
    BY <2>1, <2>2 DEF NewStop
<1>4. QED
  BY <1>2, <1>3, UnchangedQuiet DEF NewStop, IInv

\* The quantity an action asks for.
ActionSize == IF IsPartial THEN intent.qty ELSE upd.qty

LEMMA ActionSizeFits ==
    ASSUME IInv, at \in {"post", "repost"}
    PROVE  ActionSize \in 1..Quantity /\ intents # <<>>
<1> USE DEF IInv
<1>1. upd.qty \in 1..Quantity /\ intents # <<>> /\ mode = "live"
  BY UpdFacts DEF Handler, OpenAt, LiveAt
<1>2. IsPartial => intent.qty > 0 /\ intent.qty \in 0..Quantity
  BY <1>1, IntentFacts DEF Handler
<1>3. CASE IsPartial
  <2>1. intent.qty \in 1..Quantity
    BY <1>2, <1>3, Numbers
  <2>2. QED
    BY <1>1, <1>3, <2>1 DEF ActionSize
<1>4. CASE ~IsPartial
  BY <1>1, <1>4 DEF ActionSize
<1>5. QED
  BY <1>3, <1>4

\* The answer to a POST of the open action's order.
Posted(outcome) ==
    \/ Quiet /\ (outcome = "refused" \/ orders[ActionOrder].st # "none")
    \/ /\ \E px \in {0} \cup Levels : Placed(ActionOrder, ActionSize, px, outcome = "ack")
       /\ orders[ActionOrder].st = "none" /\ outcome # "refused"

LEMMA PostMoves ==
    ASSUME IInv, NEW outcome \in Outcomes, PostPartial(outcome) \/ PostBreakeven(outcome)
    PROVE  /\ at \in {"post", "repost"} /\ held' = held
           /\ Posted(outcome)
           /\ intents' = intents \/ Status("failed", "live")
<1> USE DEF IInv
<1>1. at \in {"post", "repost"} /\ held' = held
  BY DEF PostPartial, PostBreakeven
<1>2. ActionSize \in 1..Quantity /\ ActionOrder \in SellIds
  BY <1>1, ActionSizeFits, IntentFacts
<1>3. 0 \in {0} \cup Levels /\ Entry \in {0} \cup Levels
  BY Numbers
<1>4. PICK px \in {0} \cup Levels : Submit(ActionOrder, ActionSize, px, outcome)
  BY <1>3 DEF PostPartial, PostBreakeven, ActionSize
<1>5. \/ Quiet /\ (outcome = "refused" \/ orders[ActionOrder].st # "none")
      \/ /\ Placed(ActionOrder, ActionSize, px, outcome = "ack")
         /\ orders[ActionOrder].st = "none" /\ outcome # "refused"
  BY <1>2, <1>4, SubmitPlaces
<1>6. Posted(outcome)
  BY <1>5 DEF Posted
<1>7. intents' = intents \/ Resolved("failed", "live")
  BY DEF PostPartial, PostBreakeven, Fails
<1>8. intents' = intents \/ Status("failed", "live")
  BY <1>1, <1>7, ResolvedStatus DEF OpenAt
<1>9. QED
  BY <1>1, <1>6, <1>8

-----------------------------------------------------------------------------
(* Orders and actions at every step                                        *)

OrderMove ==
    \/ Quiet /\ held' = held
    \/ \E o \in SellIds : Sells(o) /\ held > 0 /\ held' = held - 1
    \/ \E o \in SellIds : Ends(o) /\ held' = held
    \/ \E o \in SellIds, q \in 1..Quantity, px \in {0} \cup Levels, a \in BOOLEAN :
          /\ Placed(o, q, px, a) /\ held' = held
          /\ orders[o].acked /\ orders[o].st # "working"
          /\ \/ o \notin ActionIds
             \/ intents # <<>> /\ o = ActionOrder /\ orders[o].st = "none" /\ IsOpen(intent)

IntentMove ==
    \/ intents' = intents
    \/ SomeStatus
    \/ ~IsOpen(intent) /\ \E k \in ActionKinds, q \in 0..Quantity : Added(k, q)

LEMMA Moves == IInv /\ [Next]_vars => OrderMove /\ IntentMove
<1> SUFFICES ASSUME IInv, [Next]_vars PROVE OrderMove /\ IntentMove
  OBVIOUS
<1>1. CASE Calm
  BY <1>1, CalmMoves DEF OrderMove, IntentMove
<1>2. CASE Marks
  BY <1>2, MarksMoves DEF OrderMove, IntentMove
<1>3. CASE Decides
  BY <1>3, DecidesMoves DEF OrderMove, IntentMove
<1>4. CASE Stops
  <2>1. held' = held /\ intents' = intents /\ Size \in 1..Quantity /\ NewStop(Size)
    BY <1>4, StopsMoves
  <2>2. OrderMove
    BY <2>1 DEF OrderMove, NewStop, Fresh
  <2>3. QED
    BY <2>1, <2>2 DEF IntentMove
<1>5. CASE Posts
  <2>1. PICK outcome \in Outcomes : PostPartial(outcome) \/ PostBreakeven(outcome)
    BY <1>5 DEF Posts
  <2>2. /\ at \in {"post", "repost"} /\ held' = held /\ Posted(outcome)
        /\ intents' = intents \/ Status("failed", "live")
    BY <2>1, PostMoves
  <2>3. /\ ActionSize \in 1..Quantity /\ ActionOrder \in SellIds /\ intents # <<>>
        /\ IsOpen(intent)
    BY <2>2, ActionSizeFits, IntentFacts DEF IInv, Handler, OpenAt
  <2>4. (outcome = "ack") \in BOOLEAN
    OBVIOUS
  <2>5. OrderMove
    BY <2>2, <2>3, <2>4 DEF OrderMove, Posted, IInv, Amounts
  <2>6. IntentMove
    BY <2>2 DEF IntentMove, SomeStatus
  <2>7. QED
    BY <2>5, <2>6
<1>6. CASE Trades
  <2>1. PICK o \in SellIds : Fill(o) \/ Dies(o)
    BY <1>6 DEF Trades
  <2>2. intents' = intents
    BY <2>1 DEF Fill, Dies, durable
  <2>3. OrderMove
    BY <2>1, FillSells, DiesEnds DEF OrderMove, IInv
  <2>4. QED
    BY <2>2, <2>3 DEF IntentMove
<1>7. QED
  BY Steps, <1>1, <1>2, <1>3, <1>4, <1>5, <1>6

LEMMA AmountsStep == IInv /\ [Next]_vars => Amounts'
<1> SUFFICES ASSUME IInv, [Next]_vars, NEW x \in SellIds
             PROVE  /\ orders'[x].filled <= orders'[x].qty
                    /\ orders'[x].st = "working" => orders'[x].filled < orders'[x].qty
                    /\ orders'[x].st = "none" => orders'[x].filled = 0 /\ orders'[x].acked
  BY DEF Amounts
<1>1. OrderMove
  BY Moves
<1>2. /\ orders[x].filled <= orders[x].qty
      /\ orders[x].st = "working" => orders[x].filled < orders[x].qty
      /\ orders[x].st = "none" => orders[x].filled = 0 /\ orders[x].acked
  BY DEF IInv, Amounts
<1>3. \/ Same(x) \/ Sells(x) \/ Ends(x)
      \/ \E q \in 1..Quantity, px \in {0} \cup Levels, a \in BOOLEAN : Placed(x, q, px, a)
  BY <1>1 DEF OrderMove, Quiet, Sells, Ends, Placed, OthersSame
<1>4. orders[x].qty \in Nat /\ orders[x].filled \in Nat
  BY Numbers DEF IInv, TypeOK, Order
<1>5. CASE Same(x)
  BY <1>2, <1>5 DEF Same
<1>6. CASE Sells(x)
  BY <1>2, <1>4, <1>6 DEF Sells
<1>7. CASE Ends(x)
  BY <1>2, <1>7 DEF Ends
<1>8. ASSUME NEW q \in 1..Quantity, NEW px \in {0} \cup Levels, NEW a \in BOOLEAN,
             Placed(x, q, px, a)
      PROVE  /\ orders'[x].filled <= orders'[x].qty
             /\ orders'[x].st = "working" => orders'[x].filled < orders'[x].qty
             /\ orders'[x].st = "none" => orders'[x].filled = 0 /\ orders'[x].acked
  BY <1>8, Numbers DEF Placed
<1>9. QED
  BY <1>3, <1>5, <1>6, <1>7, <1>8

\* Actions keep their kind and quantity, and one that is resolved stays so.
LEMMA ActionsKept ==
    ASSUME IInv, IntentMove
    PROVE  /\ intents' \in Seq(Action) /\ Len(intents') <= MaxIntents
           /\ \A i \in DOMAIN intents :
                 /\ i \in DOMAIN intents'
                 /\ intents'[i].kind = intents[i].kind /\ intents'[i].qty = intents[i].qty
                 /\ \/ intents'[i] = intents[i]
                    \/ i = last /\ IsOpen(intent) /\ SomeStatus
           /\ DOMAIN intents' = 1..Len(intents') /\ last \in Nat
<1> USE DEF IInv
<1>1. intents \in Seq(Action) /\ last \in Nat /\ last <= MaxIntents /\ DOMAIN intents = 1..last
  BY LenProperties DEF TypeOK, last
<1>2. CASE intents' = intents
  BY <1>1, <1>2 DEF last
<1>3. ASSUME NEW s, NEW p, Status(s, p)
      PROVE  /\ intents' \in Seq(Action) /\ Len(intents') = last
             /\ \A i \in 1..last : i # last => intents'[i] = intents[i]
             /\ intents'[last].kind = intents[last].kind /\ intents'[last].qty = intents[last].qty
             /\ IsOpen(intent)
  BY <1>3, IntentFacts DEF Status, Marked
<1>4. CASE SomeStatus
  <2>1. PICK s \in {"submitted", "confirmed", "failed"}, p \in {"live", "readback"} : Status(s, p)
    BY <1>4 DEF SomeStatus
  <2>2. /\ intents' \in Seq(Action) /\ Len(intents') = last
        /\ \A i \in 1..last : i # last => intents'[i] = intents[i]
        /\ intents'[last].kind = intents[last].kind /\ intents'[last].qty = intents[last].qty
        /\ IsOpen(intent)
    BY <1>3, <2>1
  <2>3. DOMAIN intents' = 1..last
    BY <2>2, LenProperties
  <2>4. QED
    BY <1>1, <1>4, <2>2, <2>3
<1>5. ASSUME NEW k \in ActionKinds, NEW q \in 0..Quantity, Added(k, q)
      PROVE  /\ intents' \in Seq(Action) /\ Len(intents') <= MaxIntents
             /\ \A i \in DOMAIN intents : i \in DOMAIN intents' /\ intents'[i] = intents[i]
             /\ DOMAIN intents' = 1..Len(intents')
  <2>1. /\ intents' \in Seq(Action) /\ Len(intents') = last + 1 /\ last < MaxIntents
        /\ \A i \in 1..last : intents'[i] = intents[i]
    BY <1>5 DEF Added
  <2>2. DOMAIN intents' = 1..(last + 1)
    BY <2>1, LenProperties
  <2>3. QED
    BY <1>1, <2>1, <2>2, Numbers
<1>6. CASE \E k \in ActionKinds, q \in 0..Quantity : Added(k, q)
  BY <1>1, <1>5, <1>6
<1>7. QED
  BY <1>2, <1>4, <1>6 DEF IntentMove

\* An order that is not unknown was not before, or it is the open action's
\* or a stop.
LEMMA Appears ==
    ASSUME IInv, OrderMove, NEW x \in ActionIds, orders'[x].st # "none"
    PROVE  orders[x].st # "none" \/ (intents # <<>> /\ x = ActionOrder)
<1>1. x \in SellIds
  BY DEF SellIds
<1>2. CASE Quiet
  BY <1>1, <1>2 DEF Quiet, Same
<1>3. ASSUME NEW o \in SellIds, Sells(o) PROVE orders[x].st # "none"
  BY <1>1, <1>3 DEF Sells, OthersSame, Same
<1>4. ASSUME NEW o \in SellIds, Ends(o) PROVE orders[x].st # "none"
  BY <1>1, <1>4 DEF Ends, OthersSame, Same
<1>5. ASSUME NEW o \in SellIds, NEW q, NEW px, NEW a, Placed(o, q, px, a),
             o \notin ActionIds \/ (intents # <<>> /\ o = ActionOrder)
      PROVE  orders[x].st # "none" \/ (intents # <<>> /\ x = ActionOrder)
  BY <1>1, <1>5 DEF Placed, OthersSame, Same
<1>6. QED
  BY <1>2, <1>3, <1>4, <1>5 DEF OrderMove

LEMMA KnownStep == IInv /\ [Next]_vars => Known'
<1> SUFFICES ASSUME IInv, [Next]_vars PROVE Known'
  OBVIOUS
<1> USE DEF IInv
<1>1. OrderMove /\ IntentMove
  BY Moves
<1>2. /\ \A i \in DOMAIN intents :
            /\ i \in DOMAIN intents' /\ intents'[i].kind = intents[i].kind
            /\ intents'[i] = intents[i] \/ (i = last /\ IsOpen(intent) /\ SomeStatus)
      /\ DOMAIN intents' = 1..Len(intents')
  BY <1>1, ActionsKept
<1>3. ASSUME NEW i \in 1..MaxIntents, NEW k \in {"partial_scale", "stop_to_breakeven"},
             orders'[<<k, i>>].st # "none"
      PROVE  i \in DOMAIN intents' /\ intents'[i].kind = k
  <2>1. <<k, i>> \in ActionIds
    BY Ids DEF ActionKinds
  <2>2. orders[<<k, i>>].st # "none" \/ (intents # <<>> /\ <<k, i>> = ActionOrder)
    BY <1>1, <1>3, <2>1, Appears
  <2>3. i \in DOMAIN intents /\ intents[i].kind = k
    <3>1. CASE orders[<<k, i>>].st # "none"
      BY <3>1 DEF Known
    <3>2. CASE intents # <<>> /\ <<k, i>> = ActionOrder
      BY <3>2, IntentFacts
    <3>3. QED
      BY <2>2, <3>1, <3>2
  <2>4. QED
    BY <1>2, <2>3
<1>4. ASSUME NEW i \in DOMAIN intents'
      PROVE  /\ i < Len(intents') => intents'[i].status \notin OpenStatuses
             /\ intents'[i].status # "abandoned"
  <2>1. intents \in Seq(Action) /\ last \in Nat /\ DOMAIN intents = 1..last
    BY LenProperties DEF TypeOK, last
  <2>2. \A j \in 1..last : /\ j < last => intents[j].status \notin OpenStatuses
                           /\ intents[j].status # "abandoned"
    BY <2>1 DEF Known, last
  <2>3. CASE intents' = intents
    BY <1>4, <2>1, <2>2, <2>3 DEF last
  <2>4. CASE SomeStatus
    <3>1. PICK s \in {"submitted", "confirmed", "failed"}, p \in {"live", "readback"} : Status(s, p)
      BY <2>4 DEF SomeStatus
    <3>2. /\ Len(intents') = last /\ intents'[last].status = s
          /\ \A j \in 1..last : j # last => intents'[j] = intents[j]
      BY <3>1 DEF Status, Marked
    <3>3. QED
      BY <1>2, <1>4, <2>2, <3>2
  <2>5. ASSUME ~IsOpen(intent), NEW k \in ActionKinds, NEW q \in 0..Quantity, Added(k, q)
        PROVE  /\ i < Len(intents') => intents'[i].status \notin OpenStatuses
               /\ intents'[i].status # "abandoned"
    <3>1. /\ Len(intents') = last + 1 /\ intents'[last + 1].status = "prepared"
          /\ \A j \in 1..last : intents'[j] = intents[j]
      BY <2>5 DEF Added
    <3>2. last > 0 => intents[last].status \notin OpenStatuses
      BY <2>1, <2>5, IntentFacts DEF last
    <3>3. CASE i = last + 1
      BY <3>1, <3>3, <2>1
    <3>4. CASE i # last + 1
      <4>1. i \in 1..last
        BY <1>2, <1>4, <2>1, <3>1, <3>4
      <4>2. intents[i].status \notin OpenStatuses
        BY <2>1, <2>2, <3>2, <4>1
      <4>3. QED
        BY <2>2, <3>1, <4>1, <4>2
    <3>5. QED
      BY <3>3, <3>4
  <2>6. QED
    BY <1>1, <2>3, <2>4, <2>5 DEF IntentMove
<1>5. QED
  BY <1>3, <1>4 DEF Known

-----------------------------------------------------------------------------
(* What a step does to the row, the legs and the ladder                    *)

RowMove ==
    \/ row' = row
    \/ Bank
    \/ BreakevenAccepted /\ row' = BreakevenRow /\ ~IsPartial

LegMove ==
    \/ legs' = legs
    \/ /\ LookupPartial /\ Terminal(ActionOrder) /\ orders[ActionOrder].filled > 0
       /\ legs' = [legs EXCEPT ![Len(intents)] = orders[ActionOrder].filled]
    \/ RecordLeg

LadderMove ==
    \/ ladder' = ladder
    \/ Settle
    \/ ladder' = NoLadder
    \/ ladder' = RolledBack /\ Status("failed", "live")
    \/ (\E q \in 1..Quantity : Target1(q)) \/ StopToBreakeven

LEMMA CalmBooks ==
    ASSUME IInv, Calm
    PROVE  RowMove /\ LegMove /\ LadderMove
<1>1. CASE Begin \/ LookupFails \/ Bank \/ Settle \/ Retain \/ Defer
  BY <1>1 DEF RowMove, LegMove, LadderMove, Begin, LookupFails, Bank, Settle, Retain, Defer, durable
<1>2. CASE \/ FindsNone \/ (\E o \in SellIds : FindsProtection(o))
           \/ (\E canceled \in BOOLEAN : ResizeReadback(canceled))
  BY <1>2 DEF RowMove, LegMove, LadderMove, FindsNone, FindsProtection, ResizeReadback, durable
<1>3. CASE Hold \/ RequestCancel \/ (\E ok \in BOOLEAN : Readback(ok)) \/ Quarantine
  BY <1>3 DEF RowMove, LegMove, LadderMove, Hold, RequestCancel, Readback, Quarantine, durable
<1>4. CASE RecordLeg \/ Reconcile \/ CrashRestart \/ UNCHANGED vars
  BY <1>4 DEF RowMove, LegMove, LadderMove, RecordLeg, Reconcile, CrashRestart, vars, durable
<1>5. CASE CommitBreakeven
  <2>1. ~IsPartial
    BY <1>5 DEF CommitBreakeven, IInv, Handler
  <2>2. QED
    BY <1>5, <2>1 DEF RowMove, LegMove, LadderMove, CommitBreakeven
<1>6. QED
  BY <1>1, <1>2, <1>3, <1>4, <1>5 DEF Calm

LEMMA FailsMoves ==
    ASSUME IInv, at \in OpenAt, Fails
    PROVE  Status("failed", "live") /\ ladder' = RolledBack
  BY ResolvedStatus DEF Fails

LEMMA MarksBooks ==
    ASSUME IInv, Marks
    PROVE  RowMove /\ LegMove /\ LadderMove
<1>1. CASE LookupPartial
  <2>1. row' = row /\ ladder' = ladder
    BY <1>1 DEF LookupPartial
  <2>2. LegMove
    BY <1>1 DEF LookupPartial, LegMove
  <2>3. QED
    BY <2>1, <2>2 DEF RowMove, LadderMove
<1>2. CASE LookupBreakeven
  <2>1. legs' = legs /\ ladder' = ladder /\ ~IsPartial
    BY <1>2 DEF LookupBreakeven
  <2>2. row' = row \/ (BreakevenAccepted /\ row' = BreakevenRow)
    BY <1>2 DEF LookupBreakeven
  <2>3. QED
    BY <2>1, <2>2 DEF RowMove, LegMove, LadderMove
<1>3. CASE Confirm \/ Bind
  BY <1>3 DEF Confirm, Bind, RowMove, LegMove, LadderMove
<1>4. ASSUME NEW canceled \in BOOLEAN,
             RetainReadback(canceled) \/ CancelReadback(canceled) \/ QuarantineReadback(canceled)
      PROVE  RowMove /\ LegMove /\ LadderMove
  <2>1. /\ row' = row /\ legs' = legs /\ at \in OpenAt
        /\ ladder' = ladder \/ Fails
    BY <1>4 DEF RetainReadback, CancelReadback, QuarantineReadback, OpenAt
  <2>2. QED
    BY <2>1, FailsMoves DEF RowMove, LegMove, LadderMove
<1>5. QED
  BY <1>1, <1>2, <1>3, <1>4 DEF Marks

LEMMA BookMoves == IInv /\ [Next]_vars => RowMove /\ LegMove /\ LadderMove
<1> SUFFICES ASSUME IInv, [Next]_vars PROVE RowMove /\ LegMove /\ LadderMove
  OBVIOUS
<1>1. CASE Decides
  BY <1>1 DEF Decides, Target1, StopToBreakeven, RowMove, LegMove, LadderMove
<1>2. CASE Stops
  BY <1>2 DEF Stops, Restore, Arm, Rearm, ResidualStop, RowMove, LegMove, LadderMove, durable
<1>3. CASE Posts
  <2>1. row' = row /\ legs' = legs /\ at \in OpenAt /\ (ladder' = ladder \/ Fails)
    BY <1>3 DEF Posts, PostPartial, PostBreakeven, OpenAt
  <2>2. QED
    BY <2>1, FailsMoves DEF RowMove, LegMove, LadderMove
<1>4. CASE Trades
  BY <1>4 DEF Trades, Fill, Dies, RowMove, LegMove, LadderMove, durable
<1>5. QED
  BY <1>1, <1>2, <1>3, <1>4, Steps, CalmBooks, MarksBooks

-----------------------------------------------------------------------------
(* Types                                                                   *)

LEMMA TrackedStop ==
    ASSUME NEW p \in Tracked, NEW o \in SellIds \cup {NoOrder}, NEW px \in {0} \cup Levels
    PROVE  /\ WithStop(p, o, px) \in Tracked /\ WithStop(p, o, px) # NoPosition
           /\ WithStop(p, o, px).qty = p.qty /\ WithStop(p, o, px).stop = o
           /\ WithStop(p, o, px).px = px
           /\ Naked(p) \in Tracked /\ Naked(p) # NoPosition
           /\ Naked(p).qty = p.qty /\ Naked(p).stop = NoOrder /\ Naked(p).px = 0
<1>1. /\ WithStop(p, o, px) \in Tracked /\ WithStop(p, o, px).qty = p.qty
      /\ WithStop(p, o, px).stop = o /\ WithStop(p, o, px).px = px
  BY DEF WithStop, Tracked
<1>2. /\ Naked(p) \in Tracked /\ Naked(p).qty = p.qty
      /\ Naked(p).stop = NoOrder /\ Naked(p).px = 0
  BY DEF Naked, WithStop, Tracked
<1>3. QED
  BY <1>1, <1>2, SentinelsAssumption

LEMMA ReconciledFacts ==
    ASSUME TypeOK, NEW p \in Reconciled
    PROVE  /\ p \in Tracked \cup {NoPosition}
           /\ p = NoPosition => held = 0
           /\ p # NoPosition =>
                 /\ p \in Tracked /\ p.qty = held
                 /\ \/ /\ p.stop = NoOrder
                       /\ WorkingStops = {} \/ \E o \in WorkingStops : Remaining(o) # held
                    \/ p.stop \in WorkingStops /\ Remaining(p.stop) = held
<1> DEFINE bare == [qty |-> held, stop |-> NoOrder, px |-> 0]
           fitting == {o \in WorkingStops : Remaining(o) = held}
<1>1. CASE held = 0
  BY <1>1 DEF Reconciled
<1>2. CASE held # 0
  <2>1. held \in 1..Quantity /\ bare \in Tracked /\ bare.qty = held /\ bare.stop = NoOrder
    BY <1>2, Numbers DEF TypeOK, Tracked
  <2>2. p \in {WithStop(bare, o, orders[o].px) : o \in fitting}
             \cup {b \in {bare} : WorkingStops = {} \/ WorkingStops # fitting}
    BY <1>2 DEF Reconciled
  <2> HIDE DEF bare
  <2>3. CASE p = bare /\ (WorkingStops = {} \/ WorkingStops # fitting)
    BY <2>1, <2>3, SentinelsAssumption
  <2>4. ASSUME NEW o \in fitting, p = WithStop(bare, o, orders[o].px)
        PROVE  /\ p \in Tracked /\ p # NoPosition /\ p.qty = held /\ p.stop = o
               /\ o \in WorkingStops /\ Remaining(o) = held
    <3>1. o \in SellIds /\ orders[o].px \in {0} \cup Levels /\ o \in WorkingStops
      BY DEF WorkingStops, Working, TypeOK, Order
    <3>2. PICK b \in Tracked, px \in {0} \cup Levels : p = WithStop(b, o, px) /\ b.qty = held
      BY <2>1, <2>4, <3>1
    <3>3. o \in SellIds \cup {NoOrder}
      BY <3>1
    <3>4. p \in Tracked /\ p # NoPosition /\ p.qty = b.qty /\ p.stop = o
      BY <3>2, <3>3, TrackedStop
    <3>5. QED
      BY <3>1, <3>2, <3>4
  <2>5. QED
    BY <2>2, <2>3, <2>4
<1>3. QED
  BY <1>1, <1>2

LEMMA RolledBackType == TypeOK => RolledBack \in Ladder \cup {NoLadder}
  BY DEF TypeOK, RolledBack, FreshLadder, Ladder

LEMMA RowType ==
    ASSUME IInv, RowMove
    PROVE  row' \in [banked : 0..Quantity, be : BOOLEAN, stop : Levels]
<1> USE DEF IInv
<1>1. row \in [banked : 0..Quantity, be : BOOLEAN, stop : Levels]
  BY DEF TypeOK
<1>2. CASE Bank
  <2>1. intents # <<>>
    BY <1>2 DEF Bank, Handler, OpenAt
  <2>2. ActionOrder \in SellIds
    BY <2>1, IntentFacts
  <2>3. row.banked \in Nat /\ orders[ActionOrder].filled \in 0..Quantity /\ row.banked \in 0..Quantity
    BY <1>1, <2>2, Numbers DEF TypeOK, Order
  <2>4. PICK m \in 0..Quantity : m = Max({row.banked, orders[ActionOrder].filled})
    BY <2>3, MaxOfTwo, Numbers
  <2>5. row' = [row EXCEPT !.banked = m]
    BY <1>2, <2>4 DEF Bank
  <2>6. QED
    BY <1>1, <2>4, <2>5
<1>3. CASE row' = BreakevenRow
  BY <1>1, <1>3, Numbers DEF BreakevenRow
<1>4. QED
  BY <1>1, <1>2, <1>3 DEF RowMove

LEMMA LegType ==
    ASSUME IInv, LegMove
    PROVE  legs' \in [1..MaxIntents -> 0..Quantity]
<1> USE DEF IInv
<1>1. legs \in [1..MaxIntents -> 0..Quantity]
  BY DEF TypeOK
<1>2. CASE legs' = [legs EXCEPT ![Len(intents)] = orders[ActionOrder].filled] /\ intents # <<>>
  <2>1. ActionOrder \in SellIds
    BY <1>2, IntentFacts
  <2>2. orders[ActionOrder].filled \in 0..Quantity
    BY <2>1 DEF TypeOK, Order
  <2>3. QED
    BY <1>1, <1>2, <2>2
<1>3. LookupPartial \/ RecordLeg => intents # <<>>
  BY DEF LookupPartial, RecordLeg, Handler, OpenAt, PartialAt
<1>4. RecordLeg => legs' = [legs EXCEPT ![Len(intents)] = orders[ActionOrder].filled]
  BY DEF RecordLeg
<1>5. QED
  BY <1>1, <1>2, <1>3, <1>4 DEF LegMove

LEMMA LadderType ==
    ASSUME IInv, LadderMove
    PROVE  ladder' \in Ladder \cup {NoLadder}
<1> USE DEF IInv
<1>1. ladder \in Ladder \cup {NoLadder} /\ row.banked \in Nat /\ row.be \in BOOLEAN
  BY Numbers DEF TypeOK
<1>2. CASE Settle
  <2>1. \/ ladder' = ladder \/ ladder' = FreshLadder
        \/ ladder' = [t1 |-> row.banked > 0, armed |-> row.be, emitted |-> row.be]
    BY <1>2 DEF Settle
  <2>2. (row.banked > 0) \in BOOLEAN
    OBVIOUS
  <2>3. [t1 |-> row.banked > 0, armed |-> row.be, emitted |-> row.be] \in Ladder
    BY <1>1, <2>2 DEF Ladder
  <2>4. FreshLadder \in Ladder
    BY DEF FreshLadder, Ladder
  <2>5. QED
    BY <1>1, <2>1, <2>3, <2>4
<1>3. CASE (\E q \in 1..Quantity : Target1(q)) \/ StopToBreakeven
  <2>1. ladder \in Ladder
    BY <1>1, <1>3 DEF Target1, StopToBreakeven, Handler, LadderAt
  <2>2. \/ ladder' = [ladder EXCEPT !.t1 = TRUE, !.armed = TRUE]
        \/ ladder' = [ladder EXCEPT !.emitted = TRUE]
    BY <1>3 DEF Target1, StopToBreakeven
  <2>3. QED
    BY <2>1, <2>2 DEF Ladder
<1>4. QED
  BY <1>1, <1>2, <1>3, RolledBackType DEF LadderMove

LEMMA BudgetType == TypeOK /\ (budget' = budget \/ Spends) => budget' \in 0..Budget
  BY Numbers DEF TypeOK, Spends

\* Types of what the handler keeps to itself.
HandlerTyped == /\ at \in Places /\ mode \in {"hydrate", "retain", "live"}
                /\ upd \in Tracked \cup {NoPosition} /\ prior \in {0} \cup Levels

LEMMA ReturnsType == Returns => HandlerTyped'
  BY DEF Returns, HandlerTyped, Places

LEMMA GotoType == ASSUME TypeOK, NEW w \in Places, Goto(w) PROVE HandlerTyped'
  BY DEF Goto, HandlerTyped, TypeOK

LEMMA BudgetMove == [Next]_vars => budget' = budget \/ Spends
<1> SUFFICES ASSUME [Next]_vars PROVE budget' = budget \/ Spends
  OBVIOUS
<1>1. CASE Begin \/ LookupFails \/ Bank \/ Settle \/ Retain \/ Defer \/ FindsNone
  BY <1>1 DEF Begin, LookupFails, Bank, Settle, Retain, Defer, FindsNone, StatusRead
<1>2. CASE (\E o \in SellIds : FindsProtection(o))
           \/ (\E canceled \in BOOLEAN : ResizeReadback(canceled))
           \/ Hold \/ RequestCancel \/ (\E ok \in BOOLEAN : Readback(ok)) \/ Quarantine
  BY <1>2 DEF FindsProtection, ResizeReadback, Hold, RequestCancel, Readback, Quarantine,
              CancelConfirmed, StatusRead
<1>3. CASE RecordLeg \/ CommitBreakeven \/ Reconcile \/ CrashRestart \/ UNCHANGED vars
  BY <1>3 DEF RecordLeg, CommitBreakeven, Reconcile, CrashRestart, vars
<1>4. CASE Marks
  BY <1>4 DEF Marks, LookupPartial, LookupBreakeven, Confirm, Bind, RetainReadback,
              CancelReadback, QuarantineReadback, CancelConfirmed, StatusRead
<1>5. CASE Decides \/ Trades
  BY <1>5 DEF Decides, StopToBreakeven, Target1, Trades, Fill, Dies
<1>6. CASE Stops \/ Posts
  BY <1>6 DEF Stops, Posts, Restore, Arm, Rearm, ResidualStop, PostPartial, PostBreakeven,
              PlaceStop, Submit
<1>7. QED
  BY Steps, <1>1, <1>2, <1>3, <1>4, <1>5, <1>6 DEF Calm

PosTyped == pos \in Tracked \cup {NoPosition}

LEMMA CalmHandler ==
    ASSUME IInv, Calm
    PROVE  HandlerTyped' /\ PosTyped'
<1> USE DEF IInv
<1>0. HandlerTyped /\ PosTyped
  BY DEF TypeOK, HandlerTyped, PosTyped
<1>1. CASE Begin
  BY <1>0, <1>1 DEF Begin, HandlerTyped, PosTyped, Places
<1>2. CASE LookupFails \/ Bank \/ FindsNone \/ RequestCancel \/ Quarantine \/ RecordLeg
           \/ \E ok \in BOOLEAN : Readback(ok)
  <2>1. pos' = pos /\ \E w \in Places : Goto(w)
    BY <1>2 DEF LookupFails, Bank, FindsNone, RequestCancel, Quarantine, RecordLeg, Readback,
                AfterLookup, Places
  <2>2. QED
    BY <1>0, <2>1, GotoType DEF PosTyped
<1>3. CASE Settle
  <2>1. pos' = pos
    BY <1>3 DEF Settle
  <2>2. Returns \/ (at' \in Places /\ upd' = pos /\ mode' = mode /\ prior' = prior)
    BY <1>3 DEF Settle, Places
  <2>3. QED
    BY <1>0, <2>1, <2>2, ReturnsType DEF PosTyped, HandlerTyped
<1>4. CASE Retain \/ Defer \/ Hold \/ CommitBreakeven
  <2>1. pos' = pos /\ (Returns \/ \E w \in Places : Goto(w))
    BY <1>4 DEF Retain, Defer, Hold, CommitBreakeven, Places
  <2>2. QED
    BY <1>0, <2>1, ReturnsType, GotoType DEF PosTyped
<1>5. ASSUME NEW o \in SellIds, FindsProtection(o) PROVE HandlerTyped' /\ PosTyped'
  <2>1. upd \in Tracked
    BY <1>5, UpdFacts DEF FindsProtection
  <2>2. PICK px \in {0} \cup Levels : px = orders[o].px
    BY DEF TypeOK, Order
  <2>3. upd' \in Tracked
    BY <1>5, <2>1, <2>2, TrackedStop DEF FindsProtection
  <2>4. /\ at' \in Places /\ mode' = mode /\ prior' = prior /\ (pos' = upd' \/ pos' = pos)
    BY <1>5 DEF FindsProtection, Places
  <2>5. QED
    BY <1>0, <2>3, <2>4 DEF HandlerTyped, PosTyped
<1>6. ASSUME NEW canceled \in BOOLEAN, ResizeReadback(canceled) PROVE HandlerTyped' /\ PosTyped'
  <2>1. upd \in Tracked /\ Naked(upd) \in Tracked
    BY <1>6, UpdFacts, TrackedStop DEF ResizeReadback
  <2>2. QED
    BY <1>0, <1>6, <2>1 DEF ResizeReadback, HandlerTyped, PosTyped, Places
<1>7. CASE Reconcile
  BY <1>0, <1>7, ReconciledFacts DEF Reconcile, handler, HandlerTyped, PosTyped
<1>8. CASE CrashRestart
  BY <1>8, ReconciledFacts, ReturnsType DEF CrashRestart, PosTyped
<1>9. CASE UNCHANGED vars
  BY <1>0, <1>9 DEF vars, handler, HandlerTyped, PosTyped
<1>10. QED
  BY <1>1, <1>2, <1>3, <1>4, <1>5, <1>6, <1>7, <1>8, <1>9 DEF Calm

LEMMA MarksHandler ==
    ASSUME IInv, Marks
    PROVE  HandlerTyped' /\ PosTyped'
<1> USE DEF IInv
<1>0. HandlerTyped /\ PosTyped
  BY DEF TypeOK, HandlerTyped, PosTyped
<1>1. CASE LookupPartial \/ Bind
  <2>1. pos' = pos /\ \E w \in Places : Goto(w)
    BY <1>1 DEF LookupPartial, Bind, AfterLookup, Places
  <2>2. QED
    BY <1>0, <2>1, GotoType DEF PosTyped
<1>2. CASE LookupBreakeven
  <2>1. pos' = pos /\ (Returns \/ \E w \in Places : Goto(w))
    BY <1>2 DEF LookupBreakeven, AfterLookup, Places
  <2>2. QED
    BY <1>0, <2>1, ReturnsType, GotoType DEF PosTyped
<1>3. CASE Confirm
  <2>1. upd \in Tracked /\ intents # <<>>
    BY <1>3, UpdFacts DEF Confirm, Handler, OpenAt
  <2>2. WithStop(upd, ActionOrder, Entry) \in Tracked
    BY <2>1, IntentFacts, TrackedStop, Numbers
  <2>3. /\ pos' = pos \/ pos' = WithStop(upd, ActionOrder, Entry)
        /\ Returns \/ \E w \in Places : Goto(w)
    BY <1>3 DEF Confirm, AfterLookup, Places
  <2>4. QED
    BY <1>0, <2>2, <2>3, ReturnsType, GotoType DEF PosTyped
<1>4. ASSUME NEW canceled \in BOOLEAN, RetainReadback(canceled)
      PROVE  HandlerTyped' /\ PosTyped'
  BY <1>0, <1>4 DEF RetainReadback, HandlerTyped, PosTyped, Places
<1>5. ASSUME NEW canceled \in BOOLEAN, CancelReadback(canceled)
      PROVE  HandlerTyped' /\ PosTyped'
  <2>1. Naked(upd) \in Tracked
    BY <1>5, UpdFacts, TrackedStop DEF CancelReadback
  <2>2. /\ pos' = pos
        /\ Returns \/ (at' = "post" /\ upd' = Naked(upd) /\ mode' = mode /\ prior' = prior)
    BY <1>5 DEF CancelReadback
  <2>3. QED
    BY <1>0, <2>1, <2>2, ReturnsType DEF HandlerTyped, PosTyped, Places
<1>6. ASSUME NEW canceled \in BOOLEAN, QuarantineReadback(canceled)
      PROVE  HandlerTyped' /\ PosTyped'
  <2>1. Naked(upd) \in Tracked
    BY <1>6, UpdFacts, TrackedStop DEF QuarantineReadback
  <2>2. [Naked(upd) EXCEPT !.px = prior] \in Tracked
    BY <1>0, <2>1 DEF Tracked, HandlerTyped
  <2>3. \/ pos' = Naked(upd) /\ Returns
        \/ /\ pos' = pos /\ at' = "decide" /\ upd' = [Naked(upd) EXCEPT !.px = prior]
           /\ mode' = mode /\ prior' = prior
    BY <1>6 DEF QuarantineReadback
  <2>4. QED
    BY <1>0, <2>1, <2>2, <2>3, ReturnsType DEF HandlerTyped, PosTyped, Places
<1>7. QED
  BY <1>1, <1>2, <1>3, <1>4, <1>5, <1>6 DEF Marks

LEMMA OtherHandler ==
    ASSUME IInv, Decides \/ Stops \/ Posts \/ Trades
    PROVE  HandlerTyped' /\ PosTyped'
<1> USE DEF IInv
<1>0. HandlerTyped /\ PosTyped
  BY DEF TypeOK, HandlerTyped, PosTyped
<1>1. CASE Decides
  <2>1. upd.px \in {0} \cup Levels
    BY <1>1, UpdFacts DEF Decides, Target1, StopToBreakeven
  <2>2. pos' = pos /\ (Returns \/ Starts)
    BY <1>1 DEF Decides, Target1, StopToBreakeven
  <2>3. Starts => HandlerTyped'
    BY <1>0, <2>1 DEF Starts, HandlerTyped, Places
  <2>4. QED
    BY <1>0, <2>2, <2>3, ReturnsType DEF PosTyped
<1>2. ASSUME NEW outcome \in Outcomes,
             Restore(outcome) \/ Arm(outcome) \/ Rearm(outcome) \/ ResidualStop(outcome)
      PROVE  HandlerTyped' /\ PosTyped'
  <2>1. /\ at \in {"decide", "arm", "rearm", "residual", "residual2"}
        /\ Size \in 1..Quantity
    BY <1>2, StopsMoves DEF Stops
  <2>2. /\ upd \in Tracked /\ Naked(upd) \in Tracked /\ upd.px \in {0} \cup Levels
        /\ row.stop \in {0} \cup Levels /\ prior \in {0} \cup Levels /\ Base \in {0} \cup Levels
    BY <2>1, UpdFacts, TrackedStop, Numbers DEF TypeOK
  <2>3. ASSUME NEW q, NEW px, PlaceStop(q, px, outcome)
        PROVE  FreshStop \in SellIds \cup {NoOrder}
    BY <2>3, FreshStopFresh DEF PlaceStop, Fresh
  <2>4. CASE Restore(outcome)
    <3>1. PICK px \in {0} \cup Levels :
             /\ PlaceStop(upd.qty, px, outcome)
             /\ pos' = IF outcome = "ack" THEN WithStop(upd, FreshStop, px) ELSE pos
      BY <2>2, <2>4 DEF Restore
    <3>2. PosTyped'
      BY <1>0, <2>2, <2>3, <3>1, TrackedStop DEF PosTyped
    <3>3. QED
      BY <2>4, <3>2, ReturnsType DEF Restore
  <2>5. CASE Arm(outcome)
    <3>1. upd' \in Tracked
      BY <2>2, <2>3, <2>5, TrackedStop DEF Arm
    <3>2. QED
      BY <1>0, <2>5, <3>1 DEF Arm, PosTyped, HandlerTyped, Places
  <2>6. CASE Rearm(outcome)
    <3>1. \/ pos' = Naked(upd)
          \/ PlaceStop(upd.qty, prior, outcome) /\ pos' = WithStop(upd, FreshStop, prior)
      BY <2>6 DEF Rearm
    <3>2. PosTyped'
      BY <2>2, <2>3, <3>1, TrackedStop DEF PosTyped
    <3>3. QED
      BY <2>6, <3>2, ReturnsType DEF Rearm
  <2>7. CASE ResidualStop(outcome)
    <3>1. Size = upd.qty - intent.qty
      BY <2>7 DEF ResidualStop, Size
    <3>2. PICK rest : rest = [upd EXCEPT !.qty = @ - intent.qty]
      OBVIOUS
    <3>3. rest \in Tracked
      BY <2>1, <2>2, <3>1, <3>2 DEF Tracked
    <3>4. PICK px \in {0} \cup Levels :
             /\ PlaceStop(rest.qty, px, outcome)
             /\ \/ Goto("residual2") /\ pos' = pos
                \/ /\ pos' = IF outcome = "ack" THEN WithStop(rest, FreshStop, px) ELSE Naked(rest)
                   /\ Returns
      BY <2>2, <2>7, <3>2 DEF ResidualStop
    <3>5. FreshStop \in SellIds \cup {NoOrder}
      BY <2>3, <3>4
    <3>6. WithStop(rest, FreshStop, px) \in Tracked /\ Naked(rest) \in Tracked
      BY <3>3, <3>5, TrackedStop
    <3>7. PosTyped'
      BY <1>0, <3>4, <3>6 DEF PosTyped
    <3>8. "residual2" \in Places
      BY DEF Places
    <3>9. QED
      BY <3>4, <3>7, <3>8, ReturnsType, GotoType
  <2>8. QED
    BY <1>2, <2>4, <2>5, <2>6, <2>7
<1>3. CASE Posts
  <2>1. /\ at # "idle"
        /\ pos' = pos \/ pos' = Naked(upd)
        /\ Returns \/ \E w \in Places : Goto(w)
    BY <1>3 DEF Posts, PostPartial, PostBreakeven, Places
  <2>2. Naked(upd) \in Tracked
    BY <2>1, UpdFacts, TrackedStop
  <2>3. QED
    BY <1>0, <2>1, <2>2, ReturnsType, GotoType DEF PosTyped
<1>4. CASE Trades
  BY <1>0, <1>4 DEF Trades, Fill, Dies, handler, HandlerTyped, PosTyped
<1>5. QED
  BY <1>1, <1>2, <1>3, <1>4 DEF Stops

LEMMA TypeStep == IInv /\ [Next]_vars => TypeOK'
<1> SUFFICES ASSUME IInv, [Next]_vars PROVE TypeOK'
  OBVIOUS
<1>1. OrderMove /\ IntentMove /\ RowMove /\ LegMove /\ LadderMove
  BY Moves, BookMoves
<1>2. orders' \in [SellIds -> Order]
  BY <1>1 DEF OrderMove, Quiet, Sells, Ends, Placed
<1>3. held' \in 0..Quantity
  BY <1>1, Numbers DEF OrderMove, IInv, TypeOK
<1>4. intents' \in Seq(Action) /\ Len(intents') <= MaxIntents
  BY <1>1, ActionsKept
<1>5. /\ row' \in [banked : 0..Quantity, be : BOOLEAN, stop : Levels]
      /\ legs' \in [1..MaxIntents -> 0..Quantity]
      /\ ladder' \in Ladder \cup {NoLadder}
  BY <1>1, RowType, LegType, LadderType
<1>6. HandlerTyped' /\ PosTyped'
  BY Steps, CalmHandler, MarksHandler, OtherHandler
<1>7. budget' \in 0..Budget
  BY BudgetMove, BudgetType DEF IInv
<1>8. QED
  BY <1>2, <1>3, <1>4, <1>5, <1>6, <1>7 DEF TypeOK, HandlerTyped, PosTyped

-----------------------------------------------------------------------------
(* The handler                                                             *)

LEMMA ReturnsHandler == Returns => Handler'
  BY DEF Returns, Handler, OpenAt, PartialAt, LadderAt, LiveAt, BareAt

LEMMA CalmHandlerStep ==
    ASSUME IInv, Calm
    PROVE  Handler'
<1> USE DEF IInv
<1>0. Quiet /\ intents' = intents
  BY CalmMoves
<1>1. /\ intent' = intent /\ ActionOrder' = ActionOrder /\ (IsPartial' <=> IsPartial)
      /\ (IsOpen(intent)' <=> IsOpen(intent))
  BY <1>0, IntentsStay
<1>2. intents # <<>> => /\ orders'[ActionOrder].st = orders[ActionOrder].st
                        /\ orders'[ActionOrder].filled = orders[ActionOrder].filled
                        /\ (IsOpen(intent) <=> intent.status \in OpenStatuses)
  BY <1>0, IntentFacts DEF Quiet, Same
<1>3. intents = <<>> => ~IsOpen(intent)
  BY NoIntents
<1>4. (at # "idle" => upd \in Tracked) /\ mode \in {"hydrate", "retain", "live"}
  BY UpdFacts DEF TypeOK
<1> USE DEF Handler, OpenAt, PartialAt, LadderAt, LiveAt, BareAt, Terminal
<1>5. CASE Begin
  BY <1>0, <1>1, <1>2, <1>3, <1>5 DEF Begin
<1>6. CASE LookupFails \/ Bank
  BY <1>0, <1>1, <1>2, <1>3, <1>4, <1>6 DEF LookupFails, Bank, Goto, AfterLookup
<1>7. CASE Settle
  <2>1. Returns \/ (/\ pos # NoPosition /\ upd' = pos /\ mode' = mode /\ ladder' # NoLadder
                    /\ at' \in {"retain", "protect", "evaluate"}
                    /\ at' # "retain" => ~IsOpen(intent)
                    /\ at' = "protect" => pos.stop = NoOrder)
    <3>1. ladder' # NoLadder
      <4>1. FreshLadder \in Ladder
        BY DEF FreshLadder, Ladder
      <4>2. (row.banked > 0) \in BOOLEAN /\ row.be \in BOOLEAN
        BY DEF TypeOK
      <4>3. [t1 |-> row.banked > 0, armed |-> row.be, emitted |-> row.be] \in Ladder
        BY <4>2 DEF Ladder
      <4>4. QED
        BY <1>7, <4>1, <4>3, SentinelsAssumption DEF Settle
    <3>2. QED
      BY <1>7, <3>1 DEF Settle
  <2>2. at = "settle"
    BY <1>7 DEF Settle
  <2>3. CASE ~Returns
    BY <1>0, <1>1, <1>2, <1>3, <2>1, <2>2, <2>3
  <2>4. QED
    BY <2>3, ReturnsHandler
<1>8. CASE Retain
  <2>1. Returns \/ (/\ at = "retain" /\ upd.stop = NoOrder
                    /\ \/ IsOpen(intent) /\ IsPartial /\ Goto("retaining")
                       \/ Goto("decide"))
    BY <1>8 DEF Retain
  <2>2. ladder' = ladder
    BY <1>8 DEF Retain
  <2>3. CASE ~Returns
    BY <1>0, <1>1, <1>2, <1>3, <2>1, <2>2, <2>3 DEF Goto
  <2>4. QED
    BY <2>3, ReturnsHandler
<1>9. CASE Defer \/ Hold \/ CrashRestart
  BY <1>9, ReturnsHandler DEF Defer, Hold, CrashRestart
<1>10. CASE FindsNone
  BY <1>0, <1>1, <1>2, <1>3, <1>10 DEF FindsNone, Goto
<1>11. ASSUME NEW o \in SellIds, FindsProtection(o) PROVE Handler'
  <2>1. PICK px \in {0} \cup Levels : px = orders[o].px
    BY DEF TypeOK, Order
  <2>2. upd \in Tracked /\ upd' = WithStop(upd, o, px) /\ o # NoOrder
    BY <1>4, <1>11, <2>1, Ids DEF FindsProtection
  <2>3. upd' # NoPosition /\ upd'.stop = o
    <3>1. upd \in Tracked /\ o \in SellIds \cup {NoOrder} /\ px \in {0} \cup Levels
      BY <2>1, <2>2
    <3>2. /\ WithStop(upd, o, px) \in Tracked /\ WithStop(upd, o, px) # NoPosition
          /\ WithStop(upd, o, px).qty = upd.qty /\ WithStop(upd, o, px).stop = o
      BY ONLY <3>1, TrackedStop
    <3>3. QED
      BY <2>2, <3>2
  <2>4. at = "protect" /\ at' \in {"evaluate", "resizing"} /\ mode' = mode /\ ladder' = ladder
    BY <1>11 DEF FindsProtection
  <2>5. QED
    BY <1>0, <1>1, <1>2, <1>3, <2>2, <2>3, <2>4
<1>12. ASSUME NEW canceled \in BOOLEAN, ResizeReadback(canceled) PROVE Handler'
  <2>1. Naked(upd).stop = NoOrder /\ Naked(upd) # NoPosition
    BY <1>4, <1>12, TrackedStop DEF ResizeReadback
  <2>2. /\ at = "resizing" /\ mode' = mode /\ ladder' = ladder
        /\ \/ at' = "arm" /\ upd' = Naked(upd)
           \/ at' = "evaluate" /\ upd' = upd
    BY <1>12 DEF ResizeReadback
  <2>3. QED
    BY <1>0, <1>1, <1>2, <1>3, <2>1, <2>2
<1>13. CASE RequestCancel
  BY <1>0, <1>1, <1>2, <1>3, <1>13 DEF RequestCancel, Goto
<1>14. ASSUME NEW ok \in BOOLEAN, Readback(ok) PROVE Handler'
  <2>1. /\ at = "readback" /\ ladder' = ladder
        /\ \/ Goto("quarantine")
           \/ /\ Goto("bank") /\ orders[ActionOrder].st \in {"filled", "dead"}
              /\ orders[ActionOrder].filled = intent.qty
    BY <1>14 DEF Readback
  <2>2. intent.qty > 0
    BY <2>1
  <2>3. QED
    BY <1>0, <1>1, <1>2, <1>3, <2>1, <2>2 DEF Goto
<1>15. CASE Quarantine \/ RecordLeg
  BY <1>0, <1>1, <1>2, <1>3, <1>15 DEF Quarantine, RecordLeg, Goto
<1>16. CASE CommitBreakeven
  <2>1. /\ at = "commit" /\ ladder' = ladder /\ (Returns \/ Goto("committed"))
    BY <1>16 DEF CommitBreakeven
  <2>2. CASE Goto("committed")
    BY <1>0, <1>1, <1>2, <1>3, <2>1, <2>2 DEF Goto
  <2>3. QED
    BY <2>1, <2>2, ReturnsHandler
<1>17. CASE Reconcile
  BY <1>0, <1>1, <1>2, <1>3, <1>17 DEF Reconcile, handler
<1>18. CASE UNCHANGED vars
  BY <1>0, <1>1, <1>2, <1>3, <1>18 DEF vars, handler
<1>19. QED
  BY <1>5, <1>6, <1>7, <1>8, <1>9, <1>10, <1>11, <1>12, <1>13, <1>14, <1>15, <1>16, <1>17, <1>18
     DEF Calm

LEMMA MarksHandlerStep ==
    ASSUME IInv, Marks
    PROVE  Handler'
<1> USE DEF IInv
<1>0. orders' = orders
  BY DEF Marks, LookupPartial, LookupBreakeven, Confirm, Bind, RetainReadback, CancelReadback,
         QuarantineReadback, broker
<1>1. at \in OpenAt /\ at # "idle"
  BY DEF Marks, LookupPartial, LookupBreakeven, Confirm, Bind, RetainReadback, CancelReadback,
         QuarantineReadback, OpenAt
<1>2. /\ intents # <<>> /\ upd \in Tracked /\ upd # NoPosition
      /\ intent.qty \in 0..Quantity /\ IsOpen(intent)
  BY <1>1, UpdFacts, IntentFacts DEF Handler
<1>3. ASSUME NEW s, NEW p, Status(s, p)
      PROVE  /\ intents' # <<>> /\ ActionOrder' = ActionOrder /\ (IsPartial' <=> IsPartial)
             /\ intent'.qty = intent.qty /\ intent'.status = s
  BY <1>3 DEF Status, Marked
<1>4. Bound => Status("submitted", intent.proof)
  BY <1>1, BoundStatus
<1>5. ASSUME NEW s \in {"confirmed", "failed"}, NEW p \in {"live", "readback"}, Resolved(s, p)
      PROVE  Status(s, p)
  BY <1>1, <1>5, ResolvedStatus
<1>6. /\ Bound => /\ intents' # <<>> /\ ActionOrder' = ActionOrder /\ (IsPartial' <=> IsPartial)
                  /\ intent'.qty = intent.qty /\ intent'.status = "submitted"
      /\ \A s \in {"confirmed", "failed"}, p \in {"live", "readback"} : Resolved(s, p) =>
            /\ intents' # <<>> /\ ActionOrder' = ActionOrder /\ (IsPartial' <=> IsPartial)
            /\ intent'.qty = intent.qty /\ intent'.status = s
  BY <1>3, <1>4, <1>5
<1>7. intents' = intents =>
         /\ intent' = intent /\ ActionOrder' = ActionOrder /\ (IsPartial' <=> IsPartial)
  BY IntentsStay
<1>8. OpenStatuses = {"prepared", "submitted"} /\ mode \in {"hydrate", "retain", "live"}
  BY DEF OpenStatuses, TypeOK
<1> USE DEF Handler, OpenAt, PartialAt, LadderAt, LiveAt, BareAt, Terminal
<1>9. CASE LookupPartial
  <2>1. /\ at = "lookup" /\ IsPartial /\ ladder' = ladder
        /\ \/ /\ Bound /\ Goto("bank") /\ orders[ActionOrder].st \in {"filled", "dead"}
              /\ orders[ActionOrder].filled > 0
           \/ Goto(AfterLookup) /\ (Bound \/ Resolved("failed", "readback"))
    BY <1>9 DEF LookupPartial
  <2>2. CASE /\ Bound /\ Goto("bank") /\ orders[ActionOrder].st \in {"filled", "dead"}
             /\ orders[ActionOrder].filled > 0
    BY <1>0, <1>2, <1>6, <1>8, <2>1, <2>2 DEF Goto
  <2>3. CASE Goto(AfterLookup) /\ (Bound \/ Resolved("failed", "readback"))
    BY <1>0, <1>2, <1>6, <1>8, <2>1, <2>3 DEF Goto, AfterLookup
  <2>4. QED
    BY <2>1, <2>2, <2>3
<1>10. CASE LookupBreakeven
  <2>1. /\ at = "lookup" /\ ladder' = ladder
        /\ \/ Returns
           \/ Bound /\ Goto("committed")
           \/ Goto(AfterLookup) /\ (Bound \/ Resolved("failed", "readback"))
    BY <1>10 DEF LookupBreakeven
  <2>2. CASE Goto("committed") /\ Bound
    BY <1>0, <1>2, <1>6, <1>8, <2>1, <2>2 DEF Goto
  <2>3. CASE Goto(AfterLookup) /\ (Bound \/ Resolved("failed", "readback"))
    BY <1>0, <1>2, <1>6, <1>8, <2>1, <2>3 DEF Goto, AfterLookup
  <2>4. QED
    BY <2>1, <2>2, <2>3, ReturnsHandler
<1>11. CASE Confirm
  <2>1. /\ at = "committed" /\ ladder' = ladder
        /\ \E p \in {"live", "readback"} : Resolved("confirmed", p)
        /\ \/ Returns
           \/ mode = "live" /\ IsPartial /\ Goto("leg")
           \/ mode # "live" /\ Goto(AfterLookup)
    BY <1>11 DEF Confirm
  <2>2. CASE mode = "live" /\ IsPartial /\ Goto("leg")
    BY <1>0, <1>2, <1>6, <1>8, <2>1, <2>2 DEF Goto
  <2>3. CASE mode # "live" /\ Goto(AfterLookup)
    BY <1>0, <1>2, <1>6, <1>8, <2>1, <2>3 DEF Goto, AfterLookup
  <2>4. QED
    BY <2>1, <2>2, <2>3, ReturnsHandler
<1>12. CASE Bind
  <2>1. at = "bind" /\ ladder' = ladder /\ Bound
        /\ (IF IsPartial THEN Goto("readback") ELSE Goto("commit"))
    BY <1>12 DEF Bind
  <2>2. QED
    BY <1>0, <1>2, <1>6, <1>8, <2>1 DEF Goto
<1>13. ASSUME NEW canceled \in BOOLEAN, RetainReadback(canceled) PROVE Handler'
  <2>1. /\ at = "retaining" /\ mode' = "retain" /\ upd' = upd
        /\ \/ at' = "decide" /\ Resolved("failed", "live")
           \/ at' = "lookup" /\ intents' = intents
    BY <1>13 DEF RetainReadback, Fails
  <2>2. QED
    BY <1>0, <1>2, <1>6, <1>7, <1>8, <2>1
<1>14. ASSUME NEW canceled \in BOOLEAN, CancelReadback(canceled) PROVE Handler'
  <2>1. /\ at = "canceling"
        /\ Returns \/ (at' = "post" /\ upd' = Naked(upd) /\ intents' = intents /\ mode' = mode)
    BY <1>14 DEF CancelReadback
  <2>2. Naked(upd).stop = NoOrder /\ Naked(upd).qty = upd.qty /\ Naked(upd) # NoPosition
    BY <1>2, TrackedStop
  <2>3. CASE at' = "post" /\ upd' = Naked(upd) /\ intents' = intents /\ mode' = mode
    BY <1>0, <1>2, <1>7, <1>8, <2>1, <2>2, <2>3
  <2>4. QED
    BY <2>1, <2>3, ReturnsHandler
<1>15. ASSUME NEW canceled \in BOOLEAN, QuarantineReadback(canceled) PROVE Handler'
  <2>1. /\ at = "quarantining"
        /\ \/ Returns
           \/ /\ at' = "decide" /\ upd' = [Naked(upd) EXCEPT !.px = prior] /\ mode' = mode
              /\ Resolved("failed", "live")
    BY <1>15 DEF QuarantineReadback, Fails
  <2>2. /\ Naked(upd).stop = NoOrder /\ Naked(upd).qty = upd.qty /\ Naked(upd) \in Tracked
    BY <1>2, TrackedStop
  <2>3. PICK p : p = [Naked(upd) EXCEPT !.px = prior]
    OBVIOUS
  <2>4. p \in Tracked /\ p.stop = NoOrder /\ p.qty = upd.qty
    BY <2>2, <2>3 DEF Tracked, TypeOK
  <2>5. p # NoPosition
    BY <2>4, SentinelsAssumption
  <2>6. CASE at' = "decide" /\ upd' = p /\ mode' = mode /\ Resolved("failed", "live")
    BY <1>0, <1>2, <1>6, <1>8, <2>1, <2>4, <2>5, <2>6
  <2>7. QED
    BY <2>1, <2>3, <2>6, ReturnsHandler
<1>16. QED
  BY <1>9, <1>10, <1>11, <1>12, <1>13, <1>14, <1>15 DEF Marks

LEMMA DecidesHandlerStep ==
    ASSUME IInv, Decides
    PROVE  Handler'
<1> USE DEF IInv
<1>1. /\ at = "evaluate" /\ orders' = orders /\ upd \in Tracked /\ upd # NoPosition
      /\ upd.qty \in Nat
  <2>1. at = "evaluate" /\ orders' = orders
    BY DEF Decides, Target1, StopToBreakeven, broker
  <2>2. QED
    BY <2>1, UpdFacts
<1>2. Returns \/ \E k \in ActionKinds, q \in 0..Quantity :
                    Prepared(k, q) /\ Starts /\ (k = "partial_scale" => q > 0 /\ q < upd.qty)
  <2>1. 0 \in 0..Quantity /\ \A q \in 1..Quantity : q \in 0..Quantity /\ q > 0
    BY Numbers
  <2>2. QED
    BY <2>1 DEF Decides, Target1, StopToBreakeven, ActionKinds
<1>3. ASSUME NEW k \in ActionKinds, NEW q \in 0..Quantity, Prepared(k, q), Starts,
             k = "partial_scale" => q > 0 /\ q < upd.qty
      PROVE  Handler'
  <2>1. Added(k, q)
    BY <1>3, PreparedAdds
  <2>2. /\ intents' # <<>> /\ intent'.kind = k /\ intent'.qty = q /\ intent'.status = "prepared"
        /\ ActionOrder' = <<k, last + 1>> /\ last + 1 \in 1..MaxIntents /\ last + 1 \notin DOMAIN intents
    <3>1. last \in Nat /\ DOMAIN intents = 1..last
      BY LenProperties DEF TypeOK, last
    <3>2. QED
      BY <2>1, <3>1, Numbers DEF Added
  <2>3. orders'[ActionOrder'].st = "none"
    <3>1. orders[<<k, last + 1>>].st = "none"
      BY <2>2 DEF Known, ActionKinds
    <3>2. QED
      BY <1>1, <2>2, <3>1
  <2>4. IsPartial' => intent'.qty > 0 /\ intent'.qty < upd.qty
    BY <1>3, <2>2 DEF IsPartial
  <2>5. /\ mode' = "live" /\ upd' = upd
        /\ at' = IF upd.stop = NoOrder THEN "post" ELSE "cancel"
    BY <1>3 DEF Starts
  <2>6. "prepared" \in OpenStatuses
    BY DEF OpenStatuses
  <2>7. QED
    BY <1>1, <2>2, <2>3, <2>4, <2>5, <2>6
       DEF Handler, OpenAt, PartialAt, LadderAt, LiveAt, BareAt
<1>4. QED
  BY <1>2, <1>3, ReturnsHandler

LEMMA StopsHandlerStep ==
    ASSUME IInv, Stops
    PROVE  Handler'
<1> USE DEF IInv
<1>1. PICK outcome \in Outcomes :
         Restore(outcome) \/ Arm(outcome) \/ Rearm(outcome) \/ ResidualStop(outcome)
  BY DEF Stops
<1>2. /\ intents' = intents /\ NewStop(Size)
      /\ at \in {"decide", "arm", "rearm", "residual", "residual2"}
  BY StopsMoves
<1>3. /\ intent' = intent /\ ActionOrder' = ActionOrder /\ (IsPartial' <=> IsPartial)
      /\ (IsOpen(intent)' <=> IsOpen(intent))
  BY <1>2, IntentsStay
<1>4. intents # <<>> => /\ orders'[ActionOrder].st = orders[ActionOrder].st
                        /\ orders'[ActionOrder].filled = orders[ActionOrder].filled
  <2>1. intents # <<>> => ActionOrder \in SellIds /\ ActionOrder \in ActionIds
    BY IntentFacts
  <2>2. QED
    BY <1>2, <2>1 DEF NewStop, Quiet, Fresh, Placed, OthersSame, Same
<1>5. upd \in Tracked
  BY <1>2, UpdFacts
<1>6. CASE Restore(outcome) \/ Rearm(outcome)
  BY <1>6, ReturnsHandler DEF Restore, Rearm
<1>7. CASE Arm(outcome)
  <2>1. FreshStop \in SellIds \cup {NoOrder} /\ Base \in {0} \cup Levels
    BY <1>7, FreshStopFresh, Numbers DEF Arm, PlaceStop, Fresh
  <2>2. WithStop(upd, FreshStop, Base) # NoPosition
    BY <1>5, <2>1, TrackedStop
  <2>3. at = "arm" /\ at' = "evaluate" /\ mode' = mode /\ ladder' = ladder
    BY <1>7 DEF Arm
  <2>4. upd # NoPosition
    BY <1>2 DEF Handler
  <2>5. upd' # NoPosition
    BY <1>7, <2>2, <2>4 DEF Arm
  <2>6. QED
    BY <1>2, <1>3, <1>4, <2>3, <2>5 DEF Handler, OpenAt, PartialAt, LadderAt, LiveAt, BareAt
<1>8. CASE ResidualStop(outcome)
  <2>1. Returns \/ (at = "residual" /\ Goto("residual2"))
    BY <1>8 DEF ResidualStop
  <2>2. CASE at = "residual" /\ Goto("residual2")
    BY <1>2, <1>3, <1>4, <2>2 DEF Goto, Handler, OpenAt, PartialAt, LadderAt, LiveAt, BareAt
  <2>3. QED
    BY <2>1, <2>2, ReturnsHandler
<1>9. QED
  BY <1>1, <1>6, <1>7, <1>8

LEMMA PostsHandlerStep ==
    ASSUME IInv, Posts
    PROVE  Handler'
<1> USE DEF IInv
<1>1. PICK outcome \in Outcomes : PostPartial(outcome) \/ PostBreakeven(outcome)
  BY DEF Posts
<1>2. at \in {"post", "repost"} /\ (intents' = intents \/ Status("failed", "live"))
  BY <1>1, PostMoves
<1>3. /\ intents # <<>> /\ upd # NoPosition /\ mode = "live" /\ upd.stop = NoOrder
      /\ intent.status \in OpenStatuses
  BY <1>2 DEF Handler, OpenAt, LiveAt, BareAt
<1>4. intents' = intents =>
         /\ intent' = intent /\ ActionOrder' = ActionOrder /\ (IsPartial' <=> IsPartial)
         /\ intents' # <<>>
  BY <1>3, IntentsStay
<1>5. Status("failed", "live") =>
         /\ intents' # <<>> /\ ActionOrder' = ActionOrder /\ (IsPartial' <=> IsPartial)
         /\ intent'.qty = intent.qty /\ intent'.status = "failed"
  BY DEF Status, Marked
<1>6. /\ \/ Returns
         \/ Goto("bind") /\ intents' = intents
         \/ Goto("repost") /\ intents' = intents /\ ~IsPartial
         \/ Goto("rearm") /\ IsPartial /\ Resolved("failed", "live")
  BY <1>1 DEF PostPartial, PostBreakeven, Fails
<1>7. Resolved("failed", "live") => Status("failed", "live")
  BY <1>2, ResolvedStatus DEF OpenAt
<1>8. CASE Goto("bind") /\ intents' = intents
  BY <1>2, <1>3, <1>4, <1>8 DEF Goto, Handler, OpenAt, PartialAt, LadderAt, LiveAt, BareAt
<1>9. CASE Goto("repost") /\ intents' = intents /\ ~IsPartial
  BY <1>2, <1>3, <1>4, <1>9 DEF Goto, Handler, OpenAt, PartialAt, LadderAt, LiveAt, BareAt
<1>10. CASE Goto("rearm") /\ IsPartial /\ Status("failed", "live")
  BY <1>2, <1>3, <1>5, <1>10 DEF Goto, Handler, OpenAt, PartialAt, LadderAt, LiveAt, BareAt
<1>11. QED
  BY <1>6, <1>7, <1>8, <1>9, <1>10, ReturnsHandler

LEMMA TradesHandlerStep ==
    ASSUME IInv, Trades
    PROVE  Handler'
<1> USE DEF IInv
<1>1. PICK o \in SellIds : Fill(o) \/ Dies(o)
  BY DEF Trades
<1>2. /\ intents' = intents /\ ladder' = ladder /\ at' = at /\ mode' = mode /\ upd' = upd
  BY <1>1 DEF Fill, Dies, durable, handler
<1>3. /\ intent' = intent /\ ActionOrder' = ActionOrder /\ (IsPartial' <=> IsPartial)
      /\ (IsOpen(intent)' <=> IsOpen(intent))
  BY <1>2, IntentsStay
<1>4. intents # <<>> => ActionOrder \in SellIds
  BY IntentFacts
<1>5. Sells(o) \/ Ends(o)
  BY <1>1, FillSells, DiesEnds
<1>6. ASSUME NEW x \in SellIds
      PROVE  /\ orders[x].st = "none" => orders'[x].st = "none"
             /\ Terminal(x) => orders'[x].st = orders[x].st /\ orders'[x].filled = orders[x].filled
  BY <1>5 DEF Sells, Ends, OthersSame, Same, Terminal
<1>7. QED
  BY <1>2, <1>3, <1>4, <1>6 DEF Handler, Terminal, OpenAt

LEMMA InitInv == Init => IInv
<1> SUFFICES ASSUME Init PROVE IInv
  OBVIOUS
<1>0. row.stop \in Levels /\ row \in [banked : 0..Quantity, be : BOOLEAN, stop : Levels]
  <2>1. row \in [banked : {0}, be : {FALSE}, stop : InitStops]
    BY DEF Init
  <2>2. 0 \in 0..Quantity /\ InitStops \subseteq Levels
    BY Numbers
  <2>3. QED
    BY <2>1, <2>2
<1> USE DEF Init
<1>1. <<"stop", 1>> \in SellIds /\ <<"stop", 1>> \notin ActionIds
  BY Ids, Numbers
<1>2. /\ row.stop \in Levels /\ row \in [banked : 0..Quantity, be : BOOLEAN, stop : Levels]
  BY <1>0
<1>3. PICK r : r = Resting(Quantity, row.stop, TRUE)
  OBVIOUS
<1>4. /\ r \in Order /\ r.st = "working" /\ r.qty = Quantity /\ r.filled = 0 /\ r.acked = TRUE
  <2>1. Quantity \in 1..Quantity /\ row.stop \in {0} \cup Levels
    BY <1>2, Numbers
  <2>2. PICK q \in 1..Quantity, px \in {0} \cup Levels : q = Quantity /\ px = row.stop
    BY <2>1
  <2> HIDE DEF Init
  <2>3. PICK a \in BOOLEAN : a = TRUE
    OBVIOUS
  <2>4. r = Resting(q, px, a)
    BY <1>3, <2>2, <2>3, Zenon
  <2>5. r \in Order /\ r.st = "working" /\ r.qty = q /\ r.filled = 0 /\ r.acked = a
    BY <2>4, RestingOrder
  <2>6. QED
    BY <2>2, <2>3, <2>5, Zenon
<1>5. Absent \in Order /\ Absent.st = "none" /\ Absent.filled = 0 /\ Absent.qty = 0 /\ Absent.acked
  BY Numbers DEF Absent, Order
<1>6. orders = [o \in SellIds |-> IF o = <<"stop", 1>> THEN r ELSE Absent]
  BY <1>3
<1>7. /\ orders \in [SellIds -> Order] /\ orders[<<"stop", 1>>] = r
      /\ \A o \in SellIds : o # <<"stop", 1>> => orders[o] = Absent
  BY <1>1, <1>4, <1>5, <1>6
<1>8. TypeOK
  <2>1. pos \in Tracked
    BY <1>1, <1>2, Numbers DEF Tracked
  <2>2. intents \in Seq(Action) /\ Len(intents) <= MaxIntents
    BY Numbers
  <2>3. legs \in [1..MaxIntents -> 0..Quantity]
    BY Numbers
  <2>4. held \in 0..Quantity /\ budget \in 0..Budget
    BY Numbers
  <2>5. QED
    BY <1>2, <1>7, <2>1, <2>2, <2>3, <2>4 DEF TypeOK, Places
<1>9. Amounts
  <2>1. /\ r.filled < r.qty /\ r.filled <= r.qty /\ r.st # "none"
    BY <1>4, Numbers
  <2>2. \A o \in SellIds : orders[o] = r \/ orders[o] = Absent
    BY <1>7
  <2>3. Absent.filled <= Absent.qty /\ Absent.st # "working"
    BY <1>5
  <2> HIDE DEF Init
  <2>4. QED
    BY <1>5, <2>1, <2>2, <2>3, Zenon DEF Amounts
<1>10. Known
  <2>1. \A i \in 1..MaxIntents, k \in {"partial_scale", "stop_to_breakeven"} :
           orders[<<k, i>>].st = "none"
    <3>1. \A i \in 1..MaxIntents, k \in ActionKinds :
             <<k, i>> \in SellIds /\ <<k, i>> # <<"stop", 1>>
      BY <1>1, Ids
    <3>2. QED
      BY <1>5, <1>7, <3>1 DEF ActionKinds
  <2>2. DOMAIN intents = {}
    OBVIOUS
  <2>3. QED
    BY <2>1, <2>2 DEF Known
<1>11. Handler
  BY DEF Handler, OpenAt, PartialAt, LadderAt, LiveAt, BareAt
<1>12. QED
  BY <1>8, <1>9, <1>10, <1>11 DEF IInv

LEMMA StepInv == IInv /\ [Next]_vars => IInv'
<1> SUFFICES ASSUME IInv, [Next]_vars PROVE IInv'
  OBVIOUS
<1>1. Handler'
  BY Steps, CalmHandlerStep, MarksHandlerStep, DecidesHandlerStep, StopsHandlerStep,
     PostsHandlerStep, TradesHandlerStep
<1>2. QED
  BY <1>1, TypeStep, AmountsStep, KnownStep DEF IInv

LEMMA Invariant == Spec => []IInv
  BY InitInv, StepInv, PTL DEF Spec

\* The types of orders, position, actions, row, legs and ladder: every handler
\* of partial scales and breakeven moves keeps them, with any number of
\* refusals, lost answers and crashes.
THEOREM TypeCorrect == Spec => []TypeOK
<1>1. IInv => TypeOK
  BY DEF IInv
<1>2. QED
  BY <1>1, Invariant, PTL

-----------------------------------------------------------------------------
(* How an action is resolved                                               *)

\* The partial's order sold nothing and never will.
Unsold == orders'[ActionOrder].st \in {"none", "dead"} /\ orders'[ActionOrder].filled = 0

Failed(p) == /\ Status("failed", p)
             /\ IsPartial /\ Answered' => Unsold
             /\ p = "live" => ladder' = RolledBack
             /\ p = "readback" => ladder' = ladder
             /\ row' = row /\ at' # "committed"

Verdict ==
    \/ intents' = intents
    \/ ~IsOpen(intent) /\ \E k \in ActionKinds, q \in 0..Quantity : Added(k, q)
    \/ \E p \in {"live", "readback"} : Status("submitted", p) /\ ladder' = ladder
    \/ \E p \in {"live", "readback"} : Status("confirmed", p) /\ Confirm
    \/ \E p \in {"live", "readback"} : Failed(p)

LEMMA MarksVerdict ==
    ASSUME IInv, Marks
    PROVE  Verdict
<1> USE DEF IInv
<1>0. orders' = orders
  BY DEF Marks, LookupPartial, LookupBreakeven, Confirm, Bind, RetainReadback, CancelReadback,
         QuarantineReadback, broker
<1>1. at \in OpenAt
  BY DEF Marks, LookupPartial, LookupBreakeven, Confirm, Bind, RetainReadback, CancelReadback,
         QuarantineReadback, OpenAt
<1>2. ASSUME Bound PROVE \E p \in {"live", "readback"} : Status("submitted", p)
  BY <1>1, <1>2, BoundStatus DEF Status
<1>3. ASSUME NEW s \in {"confirmed", "failed"}, NEW p \in {"live", "readback"}, Resolved(s, p)
      PROVE  Status(s, p)
  BY <1>1, <1>3, ResolvedStatus
<1>4. intents # <<>> /\ ActionOrder \in SellIds
  BY <1>1, IntentFacts DEF Handler
<1>5. CASE LookupPartial
  <2>1. /\ at = "lookup" /\ IsPartial /\ ladder' = ladder /\ row' = row
        /\ \/ Bound
           \/ /\ Resolved("failed", "readback") /\ Goto(AfterLookup)
              /\ orders[ActionOrder].st = "dead" /\ orders[ActionOrder].filled = 0
    BY <1>5 DEF LookupPartial
  <2>2. Resolved("failed", "readback") /\ Goto(AfterLookup)
        /\ orders[ActionOrder].st = "dead" /\ orders[ActionOrder].filled = 0 => Failed("readback")
    BY <1>0, <1>3, <2>1 DEF Failed, Unsold, Goto, AfterLookup
  <2>3. QED
    BY <1>2, <2>1, <2>2 DEF Verdict
<1>6. CASE LookupBreakeven
  <2>1. /\ at = "lookup" /\ ~IsPartial /\ ladder' = ladder
        /\ Bound \/ (Resolved("failed", "readback") /\ Goto(AfterLookup) /\ row' = row)
    BY <1>6 DEF LookupBreakeven
  <2>2. Resolved("failed", "readback") /\ Goto(AfterLookup) /\ row' = row => Failed("readback")
    BY <1>3, <2>1 DEF Failed, Goto, AfterLookup
  <2>3. QED
    BY <1>2, <2>1, <2>2 DEF Verdict
<1>7. CASE Confirm
  <2>1. PICK p \in {"live", "readback"} : Resolved("confirmed", p)
    BY <1>7 DEF Confirm
  <2>2. QED
    BY <1>3, <1>7, <2>1 DEF Verdict
<1>8. CASE Bind
  BY <1>2, <1>8 DEF Bind, Verdict
<1>9. ASSUME NEW canceled \in BOOLEAN,
             RetainReadback(canceled) \/ CancelReadback(canceled) \/ QuarantineReadback(canceled)
      PROVE  Verdict
  <2>1. row' = row /\ at' # "committed" /\ (intents' = intents \/ (Fails /\ Unsold))
    <3>1. CASE RetainReadback(canceled)
      BY <1>0, <3>1 DEF RetainReadback, CancelConfirmed, Unsold
    <3>2. CASE CancelReadback(canceled)
      <4>1. orders[ActionOrder].st = "none" /\ orders[ActionOrder].filled = 0
        BY <1>4, <3>2 DEF CancelReadback, Handler, Amounts
      <4>2. QED
        BY <1>0, <3>2, <4>1 DEF CancelReadback, Returns, Unsold
    <3>3. CASE QuarantineReadback(canceled)
      BY <1>0, <3>3 DEF QuarantineReadback, CancelConfirmed, Returns, Unsold
    <3>4. QED
      BY <1>9, <3>1, <3>2, <3>3
  <2>2. Fails /\ Unsold => Failed("live")
    BY <1>1, <2>1, FailsMoves DEF Failed
  <2>3. QED
    BY <2>1, <2>2 DEF Verdict
<1>10. QED
  BY <1>5, <1>6, <1>7, <1>8, <1>9 DEF Marks

LEMMA PostsVerdict ==
    ASSUME IInv, Posts
    PROVE  Verdict
<1> USE DEF IInv
<1>1. PICK outcome \in Outcomes : PostPartial(outcome) \/ PostBreakeven(outcome)
  BY DEF Posts
<1>2. at \in {"post", "repost"} /\ Posted(outcome)
  BY <1>1, PostMoves
<1>3. /\ row' = row /\ at' # "committed"
      /\ intents' = intents \/ (Fails /\ (IsPartial => at = "post" /\ outcome # "ack"))
  BY <1>1 DEF PostPartial, PostBreakeven, Returns, Goto
<1>4. intents # <<>> /\ ActionOrder \in SellIds
  BY <1>2, IntentFacts DEF Handler, OpenAt
<1>5. ASSUME at = "post", outcome # "ack", Answered'
      PROVE  Unsold
  <2>1. orders[ActionOrder].st = "none" /\ orders[ActionOrder].filled = 0
    BY <1>4, <1>5 DEF Handler, Amounts
  <2>2. orders'[ActionOrder].acked
    BY <1>4, <1>5 DEF Answered
  <2>3. Quiet
    <3>1. ASSUME NEW px, Placed(ActionOrder, ActionSize, px, outcome = "ack") PROVE FALSE
      BY <1>5, <2>2, <3>1 DEF Placed
    <3>2. QED
      BY <1>2, <3>1 DEF Posted
  <2>4. QED
    BY <1>4, <2>1, <2>3 DEF Quiet, Same, Unsold
<1>6. Fails /\ (IsPartial => at = "post" /\ outcome # "ack") => Failed("live")
  BY <1>2, <1>3, <1>5, FailsMoves DEF Failed, OpenAt
<1>7. QED
  BY <1>3, <1>6 DEF Verdict

LEMMA Verdicts == IInv /\ [Next]_vars => Verdict
<1> SUFFICES ASSUME IInv, [Next]_vars PROVE Verdict
  OBVIOUS
<1>1. CASE Calm
  BY <1>1, CalmMoves DEF Verdict
<1>2. CASE Decides
  BY <1>2, DecidesMoves DEF Verdict
<1>3. CASE Stops
  BY <1>3, StopsMoves DEF Verdict
<1>4. CASE Trades
  BY <1>4 DEF Trades, Fill, Dies, durable, Verdict
<1>5. QED
  BY <1>1, <1>2, <1>3, <1>4, Steps, MarksVerdict, PostsVerdict

-----------------------------------------------------------------------------
(* What the durable row and the legs say about the partials                *)

PartialId(i) == <<"partial_scale", i>>
Proved(i) == Terminal(PartialId(i)) /\ SoldBy(i) > 0 /\ SoldBy(i) <= row.banked

\* A confirmed partial is over and within what is banked; a failed one sold
\* nothing, unless an answer was lost; a leg is what its order sold.
Told(i) ==
    /\ intents[i].status = "confirmed" => Proved(i)
    /\ intents[i].status = "failed" /\ Answered =>
          orders[PartialId(i)].st \in {"none", "dead"} /\ SoldBy(i) = 0
Legs(i) == legs[i] # 0 => i \in Partials /\ Terminal(PartialId(i)) /\ legs[i] = SoldBy(i)
Books ==
    /\ \A i \in Partials : Told(i)
    /\ \A i \in 1..MaxIntents : Legs(i)
    /\ row.banked # 0 =>
          \E i \in Partials : Terminal(PartialId(i)) /\ row.banked = SoldBy(i)
    /\ at = "committed" /\ IsPartial => Proved(last)

LEMMA PartialFacts ==
    ASSUME TypeOK, NEW i \in Partials
    PROVE  /\ i \in DOMAIN intents /\ i \in 1..last /\ i \in 1..MaxIntents /\ i \in Nat
           /\ PartialId(i) \in ActionIds /\ PartialId(i) \in SellIds
           /\ SoldBy(i) \in Nat /\ SoldBy(i) \in 0..Quantity
           /\ intents[i].kind = "partial_scale"
<1>1. intents \in Seq(Action) /\ last \in Nat /\ last <= MaxIntents /\ DOMAIN intents = 1..last
  BY LenProperties DEF TypeOK, last
<1>2. i \in 1..last /\ intents[i].kind = "partial_scale"
  BY <1>1 DEF Partials
<1>3. i \in 1..MaxIntents
  BY <1>1, <1>2, Numbers
<1>4. PartialId(i) \in ActionIds /\ PartialId(i) \in SellIds
  BY <1>3, Ids DEF PartialId, ActionKinds
<1>5. orders[PartialId(i)].filled \in 0..Quantity
  BY <1>4 DEF TypeOK, Order
<1>6. QED
  BY <1>1, <1>2, <1>3, <1>4, <1>5, Numbers DEF SoldBy, PartialId

LEMMA LastPartial ==
    ASSUME TypeOK, intents # <<>>, IsPartial
    PROVE  last \in Partials /\ ActionOrder = PartialId(last) /\ intents[last] = intent
  BY IntentFacts DEF IsPartial, Partials, PartialId

\* An order of an action that is over stays as it is, an unknown one unless
\* its action is open, and none sells less than before.
LEMMA ActionOrderMove ==
    ASSUME IInv, OrderMove, NEW x \in ActionIds
    PROVE  /\ Terminal(x) => Terminal(x)' /\ orders'[x].st = orders[x].st
                             /\ orders'[x].filled = orders[x].filled
           /\ orders[x].st = "none" /\ ~(IsOpen(intent) /\ x = ActionOrder) =>
                 orders'[x].st = "none" /\ orders'[x].filled = 0
           /\ orders'[x].filled >= orders[x].filled
           /\ orders'[x].acked => orders[x].acked
<1>1. x \in SellIds /\ orders[x].filled \in Nat
  BY Numbers DEF SellIds, IInv, TypeOK, Order
<1>2. orders[x].st = "none" => orders[x].filled = 0
  BY <1>1 DEF IInv, Amounts
<1>3. CASE Same(x)
  BY <1>1, <1>2, <1>3 DEF Same, Terminal
<1>4. CASE Sells(x)
  BY <1>1, <1>2, <1>4 DEF Sells, Terminal
<1>5. CASE Ends(x)
  BY <1>1, <1>2, <1>5 DEF Ends, Terminal
<1>6. ASSUME NEW q \in 1..Quantity, NEW px \in {0} \cup Levels, NEW a \in BOOLEAN,
             Placed(x, q, px, a), orders[x].st = "none", orders[x].acked,
             IsOpen(intent), x = ActionOrder
      PROVE  /\ Terminal(x) => Terminal(x)' /\ orders'[x].st = orders[x].st
                               /\ orders'[x].filled = orders[x].filled
             /\ orders[x].st = "none" /\ ~(IsOpen(intent) /\ x = ActionOrder) =>
                   orders'[x].st = "none" /\ orders'[x].filled = 0
             /\ orders'[x].filled >= orders[x].filled
             /\ orders'[x].acked => orders[x].acked
  BY <1>1, <1>2, <1>6 DEF Placed, Terminal
<1>7. \/ Same(x) \/ Sells(x) \/ Ends(x)
      \/ \E q \in 1..Quantity, px \in {0} \cup Levels, a \in BOOLEAN :
            /\ Placed(x, q, px, a) /\ orders[x].st = "none" /\ orders[x].acked
            /\ IsOpen(intent) /\ x = ActionOrder
  BY <1>1 DEF OrderMove, Quiet, Sells, Ends, Placed, OthersSame
<1>8. QED
  BY <1>3, <1>4, <1>5, <1>6, <1>7

\* An answer that was lost stays lost.
LEMMA AnsweredBefore ==
    ASSUME IInv, OrderMove, Answered'
    PROVE  Answered
<1> SUFFICES ASSUME NEW x \in SellIds PROVE orders[x].acked
  BY DEF Answered
<1>1. orders'[x].acked
  BY DEF Answered
<1>2. \/ Same(x) \/ Sells(x) \/ Ends(x) \/ orders[x].acked
  BY DEF OrderMove, Quiet, Sells, Ends, Placed, OthersSame
<1>3. QED
  BY <1>1, <1>2 DEF Same, Sells, Ends

LEMMA BankedGrows ==
    ASSUME IInv, RowMove
    PROVE  row'.banked >= row.banked /\ row.banked \in Nat
<1> USE DEF IInv
<1>1. row.banked \in Nat /\ row \in [banked : 0..Quantity, be : BOOLEAN, stop : Levels]
  BY Numbers DEF TypeOK
<1>2. CASE Bank
  <2>1. intents # <<>>
    BY <1>2 DEF Bank, Handler, OpenAt
  <2>2. orders[ActionOrder].filled \in Nat
    BY <2>1, IntentFacts, Numbers DEF TypeOK, Order
  <2>3. PICK m \in Nat : m = Max({row.banked, orders[ActionOrder].filled}) /\ m >= row.banked
    BY <1>1, <2>2, MaxOfTwo
  <2>4. row' = [row EXCEPT !.banked = m]
    BY <1>2, <2>3 DEF Bank
  <2>5. QED
    BY <1>1, <2>3, <2>4
<1>3. CASE row' = BreakevenRow
  BY <1>1, <1>3 DEF BreakevenRow
<1>4. QED
  BY <1>1, <1>2, <1>3 DEF RowMove

\* Partials stay partials; one that is over keeps what it sold.
LEMMA PartialsKept ==
    ASSUME IInv, OrderMove, IntentMove, NEW i \in Partials
    PROVE  /\ i \in Partials'
           /\ Terminal(PartialId(i)) => Terminal(PartialId(i))' /\ SoldBy(i)' = SoldBy(i)
           /\ SoldBy(i)' >= SoldBy(i)
<1>1. i \in DOMAIN intents /\ intents[i].kind = "partial_scale" /\ PartialId(i) \in ActionIds
  BY PartialFacts DEF IInv
<1>2. i \in Partials'
  BY <1>1, ActionsKept DEF Partials
<1>3. PICK x \in ActionIds : x = PartialId(i)
  BY <1>1
<1>4. SoldBy(i) = orders[x].filled /\ SoldBy(i)' = orders'[x].filled
  BY <1>3 DEF SoldBy, PartialId
<1>5. Terminal(PartialId(i)) = Terminal(x) /\ Terminal(PartialId(i))' = Terminal(x)'
  BY <1>3 DEF Terminal, PartialId
<1>6. QED
  BY <1>2, <1>4, <1>5, ActionOrderMove

LEMMA ProvedKept ==
    ASSUME IInv, OrderMove, IntentMove, RowMove, NEW i \in Partials, Proved(i)
    PROVE  Proved(i)'
<1>1. /\ Terminal(PartialId(i)) /\ Terminal(PartialId(i))' /\ SoldBy(i)' = SoldBy(i)
  BY PartialsKept DEF Proved
<1>2. SoldBy(i) \in Nat /\ row.banked \in Nat /\ row'.banked >= row.banked /\ row'.banked \in Nat
  <2>1. row'.banked \in Nat
    BY RowType, Numbers
  <2>2. QED
    BY <2>1, PartialFacts, BankedGrows DEF IInv
<1>3. QED
  BY <1>1, <1>2 DEF Proved

LEMMA ToldKept ==
    ASSUME IInv, Books, OrderMove, IntentMove, RowMove, NEW i \in Partials,
           intents'[i] = intents[i]
    PROVE  Told(i)'
<1>1. Told(i)
  BY DEF Books
<1>2. CASE intents[i].status = "confirmed"
  BY <1>1, <1>2, ProvedKept DEF Told
<1>3. ASSUME intents[i].status = "failed", Answered'
      PROVE  orders'[PartialId(i)].st \in {"none", "dead"} /\ SoldBy(i)' = 0
  <2>1. Answered
    BY <1>3, AnsweredBefore
  <2>2. orders[PartialId(i)].st \in {"none", "dead"} /\ SoldBy(i) = 0
    BY <1>1, <1>3, <2>1 DEF Told
  <2>3. PICK x \in ActionIds : x = PartialId(i)
    BY PartialFacts DEF IInv
  <2>4. SoldBy(i) = orders[x].filled /\ SoldBy(i)' = orders'[x].filled
    BY <2>3 DEF SoldBy, PartialId
  <2>5. ~(IsOpen(intent) /\ x = ActionOrder)
    <3> SUFFICES ASSUME IsOpen(intent), x = ActionOrder PROVE FALSE
      OBVIOUS
    <3>1. intents # <<>>
      BY NoIntents
    <3>2. ActionOrder = <<intent.kind, last>> /\ intent = intents[last]
          /\ intent.status \in OpenStatuses
      BY <3>1, IntentFacts DEF IInv
    <3>3. <<"partial_scale", i>> = <<intent.kind, last>>
      BY <2>3, <3>2 DEF PartialId
    <3>4. i = last
      BY <3>3
    <3>5. QED
      BY <1>3, <3>2, <3>4 DEF OpenStatuses
  <2>6. QED
    BY <2>2, <2>3, <2>4, <2>5, ActionOrderMove DEF Terminal
<1>4. CASE intents[i].status # "confirmed"
  BY <1>3, <1>4 DEF Told, PartialId
<1>5. QED
  BY <1>2, <1>4 DEF Told

LEMMA ToldStep ==
    ASSUME IInv, Books, [Next]_vars, NEW i \in Partials'
    PROVE  Told(i)'
<1> USE DEF IInv
<1>1. OrderMove /\ IntentMove /\ RowMove /\ Verdict
  BY Moves, BookMoves, Verdicts
<1>2. /\ i \in DOMAIN intents' /\ intents'[i].kind = "partial_scale"
      /\ DOMAIN intents' = 1..Len(intents') /\ DOMAIN intents = 1..last /\ last \in Nat
  <2>1. intents \in Seq(Action)
    BY DEF TypeOK
  <2>2. QED
    BY <1>1, <2>1, ActionsKept, LenProperties DEF Partials, last
<1>3. ASSUME i \in DOMAIN intents PROVE i \in Partials
  BY <1>1, <1>2, <1>3, ActionsKept DEF Partials
<1>4. CASE i \in DOMAIN intents /\ intents'[i] = intents[i]
  BY <1>1, <1>3, <1>4, ToldKept
<1>5. ASSUME i \in DOMAIN intents, intents'[i] # intents[i]
      PROVE  Told(i)'
  <2>1. i = last /\ IsOpen(intent) /\ intents' # intents
    BY <1>1, <1>5, ActionsKept
  <2>2. /\ intents # <<>> /\ i \in Partials
    BY <1>3, <1>5, <2>1, NoIntents
  <2>3. IsPartial /\ ActionOrder = PartialId(i)
    BY <2>1, <2>2, IntentFacts, PartialFacts DEF IsPartial, PartialId
  <2>4. ASSUME NEW s, NEW p, Status(s, p) PROVE intents'[i].status = s
    BY <2>1, <2>4 DEF Status, Marked
  <2>5. CASE \E p \in {"live", "readback"} : Status("submitted", p)
    BY <2>4, <2>5 DEF Told
  <2>6. CASE \E p \in {"live", "readback"} : Status("confirmed", p) /\ Confirm
    <3>1. at = "committed" /\ intents'[i].status = "confirmed"
      BY <2>4, <2>6 DEF Confirm
    <3>2. Proved(i)
      BY <2>1, <2>3, <3>1 DEF Books
    <3>3. Proved(i)'
      BY <1>1, <2>2, <3>2, ProvedKept
    <3>4. QED
      BY <3>1, <3>3 DEF Told
  <2>7. CASE \E p \in {"live", "readback"} : Failed(p)
    <3>1. intents'[i].status = "failed" /\ (Answered' => Unsold)
      BY <2>3, <2>4, <2>7 DEF Failed
    <3>2. Unsold => orders'[PartialId(i)].st \in {"none", "dead"} /\ SoldBy(i)' = 0
      BY <2>3 DEF Unsold, SoldBy, PartialId
    <3>3. QED
      BY <3>1, <3>2 DEF Told, PartialId
  <2>8. QED
    BY <1>1, <2>1, <2>5, <2>6, <2>7 DEF Verdict
<1>6. ASSUME i \notin DOMAIN intents PROVE Told(i)'
  <2>1. PICK k \in ActionKinds, q \in 0..Quantity : Added(k, q)
    <3>1. intents' # intents
      BY <1>2, <1>6
    <3>2. ~SomeStatus
      BY <1>2, <1>6 DEF SomeStatus, Status, Marked
    <3>3. QED
      BY <1>1, <3>1, <3>2 DEF IntentMove
  <2>2. i = last + 1 /\ intents'[i].status = "prepared"
    BY <1>2, <1>6, <2>1 DEF Added
  <2>3. QED
    BY <2>2 DEF Told
<1>7. QED
  BY <1>4, <1>5, <1>6

LEMMA LegsStep ==
    ASSUME IInv, Books, [Next]_vars, NEW i \in 1..MaxIntents
    PROVE  Legs(i)'
<1> USE DEF IInv
<1>1. OrderMove /\ IntentMove /\ LegMove
  BY Moves, BookMoves
<1>2. Legs(i)
  BY DEF Books
<1>3. ASSUME legs'[i] = legs[i] PROVE Legs(i)'
  <2>1. SUFFICES ASSUME legs[i] # 0
                 PROVE  i \in Partials' /\ Terminal(PartialId(i))' /\ legs[i] = SoldBy(i)'
    BY <1>3 DEF Legs
  <2>2. i \in Partials /\ Terminal(PartialId(i)) /\ legs[i] = SoldBy(i)
    BY <1>2, <2>1 DEF Legs
  <2>3. QED
    BY <1>1, <2>2, PartialsKept
<1>4. ASSUME intents # <<>>, IsPartial, Terminal(ActionOrder),
             legs' = [legs EXCEPT ![Len(intents)] = orders[ActionOrder].filled]
      PROVE  Legs(i)'
  <2>1. last \in Partials /\ ActionOrder = PartialId(last)
    BY <1>4, LastPartial
  <2>2. CASE i = last
    <3>1. legs'[i] = SoldBy(i)
      BY <1>4, <2>1, <2>2 DEF TypeOK, SoldBy, PartialId, last
    <3>2. i \in Partials' /\ Terminal(PartialId(i))' /\ SoldBy(i)' = SoldBy(i)
      BY <1>1, <1>4, <2>1, <2>2, PartialsKept
    <3>3. QED
      BY <3>1, <3>2 DEF Legs
  <2>3. CASE i # last
    <3>1. legs'[i] = legs[i]
      BY <1>4, <2>3 DEF TypeOK, last
    <3>2. QED
      BY <1>3, <3>1
  <2>4. QED
    BY <2>2, <2>3
<1>5. CASE LookupPartial /\ Terminal(ActionOrder)
           /\ legs' = [legs EXCEPT ![Len(intents)] = orders[ActionOrder].filled]
  BY <1>4, <1>5 DEF LookupPartial, Handler, OpenAt
<1>6. CASE RecordLeg
  <2>1. at = "leg" /\ legs' = [legs EXCEPT ![Len(intents)] = orders[ActionOrder].filled]
    BY <1>6 DEF RecordLeg
  <2>2. intents # <<>> /\ IsPartial /\ intent.status = "confirmed"
    BY <2>1 DEF Handler, PartialAt
  <2>3. last \in Partials /\ ActionOrder = PartialId(last) /\ intents[last].status = "confirmed"
    BY <2>2, LastPartial
  <2>4. Terminal(ActionOrder)
    BY <2>3 DEF Books, Told, Proved
  <2>5. QED
    BY <1>4, <2>1, <2>2, <2>4
<1>7. QED
  BY <1>1, <1>3, <1>5, <1>6 DEF LegMove

\* What is banked is what one partial sold.
Witness == row.banked # 0 =>
              \E i \in Partials : Terminal(PartialId(i)) /\ row.banked = SoldBy(i)

LEMMA BankMoves ==
    ASSUME IInv, Bank
    PROVE  /\ last \in Partials /\ Terminal(PartialId(last)) /\ SoldBy(last) > 0
           /\ row'.banked \in {row.banked, SoldBy(last)} /\ SoldBy(last) <= row'.banked
<1> USE DEF IInv
<1>1. at = "bank"
  BY DEF Bank
<1>2. intents # <<>> /\ IsPartial /\ Terminal(ActionOrder) /\ orders[ActionOrder].filled > 0
  BY <1>1 DEF Handler, OpenAt, PartialAt
<1>3. last \in Partials /\ ActionOrder = PartialId(last)
  BY <1>2, LastPartial
<1>4. SoldBy(last) = orders[ActionOrder].filled /\ SoldBy(last) \in Nat
  BY <1>3, PartialFacts DEF SoldBy, PartialId
<1>5. row \in [banked : 0..Quantity, be : BOOLEAN, stop : Levels] /\ row.banked \in Nat
  BY Numbers DEF TypeOK
<1>6. PICK m \in Nat : /\ m = Max({row.banked, SoldBy(last)}) /\ m >= SoldBy(last)
                       /\ m \in {row.banked, SoldBy(last)}
  BY <1>4, <1>5, MaxOfTwo
<1>7. row' = [row EXCEPT !.banked = m]
  BY <1>4, <1>6 DEF Bank
<1>8. row'.banked = m
  BY <1>5, <1>7
<1>9. QED
  BY <1>2, <1>3, <1>4, <1>6, <1>8

LEMMA WitnessStep ==
    ASSUME IInv, Books, [Next]_vars
    PROVE  Witness'
<1> USE DEF IInv
<1>1. OrderMove /\ IntentMove /\ RowMove
  BY Moves, BookMoves
<1>2. ASSUME NEW i \in Partials, Terminal(PartialId(i)), row'.banked = SoldBy(i)
      PROVE  Witness'
  <2>1. i \in Partials' /\ Terminal(PartialId(i))' /\ SoldBy(i)' = SoldBy(i)
    BY <1>1, <1>2, PartialsKept
  <2>2. QED
    BY <1>2, <2>1 DEF Witness
<1>3. ASSUME row'.banked = row.banked PROVE Witness'
  <2>1. CASE row.banked = 0
    BY <1>3, <2>1 DEF Witness
  <2>2. CASE row.banked # 0
    BY <1>2, <1>3, <2>2 DEF Books
  <2>3. QED
    BY <2>1, <2>2
<1>4. CASE Bank
  BY <1>2, <1>3, <1>4, BankMoves
<1>5. CASE row' = BreakevenRow
  <2>1. row'.banked = row.banked
    BY <1>5 DEF BreakevenRow, TypeOK
  <2>2. QED
    BY <1>3, <2>1
<1>6. CASE row' = row
  BY <1>3, <1>6
<1>7. QED
  BY <1>1, <1>4, <1>5, <1>6 DEF RowMove

LEMMA CommittedStep ==
    ASSUME IInv, Books, [Next]_vars, at' = "committed", IsPartial'
    PROVE  Proved(last)'
<1> USE DEF IInv
<1>1. OrderMove /\ IntentMove /\ RowMove
  BY Moves, BookMoves
<1>2. CASE at = "committed" /\ intents' = intents
  <2>1. IsPartial /\ last' = last
    BY <1>2, IntentsStay
  <2>2. intents # <<>>
    BY <1>2 DEF Handler, OpenAt
  <2>3. last \in Partials /\ Proved(last)
    BY <1>2, <2>1, <2>2, LastPartial DEF Books
  <2>4. PICK i \in Partials : i = last /\ Proved(i)
    BY <2>3
  <2>5. Proved(i)'
    BY <1>1, <2>4, ProvedKept
  <2>6. last' = i
    BY <2>1, <2>4
  <2>7. QED
    BY <2>5, <2>6 DEF Proved, SoldBy, PartialId, Terminal
<1>3. CASE Bank
  <2>1. intents' = intents
    BY <1>3 DEF Bank
  <2>2. PICK i \in Partials : i = last /\ Terminal(PartialId(i)) /\ SoldBy(i) > 0
                              /\ SoldBy(i) <= row'.banked
    BY <1>3, BankMoves
  <2>3. Terminal(PartialId(i))' /\ SoldBy(i)' = SoldBy(i)
    BY <1>1, <2>2, PartialsKept
  <2>4. last' = i
    BY <2>1, <2>2, IntentsStay
  <2>5. QED
    BY <2>2, <2>3, <2>4 DEF Proved, SoldBy, PartialId, Terminal
<1>4. ASSUME LookupBreakeven \/ CommitBreakeven PROVE FALSE
  <2>1. ~IsPartial
    BY <1>4 DEF LookupBreakeven, CommitBreakeven, Handler
  <2>2. CASE CommitBreakeven
    BY <2>1, <2>2, IntentsStay DEF CommitBreakeven
  <2>3. CASE LookupBreakeven
    <3>1. Bound
      BY <2>3 DEF LookupBreakeven, Goto, AfterLookup
    <3>2. Status("submitted", intent.proof)
      BY <2>3, <3>1, BoundStatus DEF LookupBreakeven, OpenAt
    <3>3. QED
      BY <2>1, <3>2 DEF Status, Marked
  <2>4. QED
    BY <1>4, <2>2, <2>3
<1>5. \/ at = "committed" /\ intents' = intents
      \/ Bank \/ LookupBreakeven \/ CommitBreakeven
  <2>1. CASE Calm
    <3>1. CASE \/ Begin \/ LookupFails \/ Bank \/ Settle \/ Retain \/ Defer \/ FindsNone
      BY <3>1 DEF Begin, LookupFails, Settle, Retain, Defer, FindsNone, Goto, AfterLookup, Returns
    <3>2. CASE \/ (\E o \in SellIds : FindsProtection(o))
               \/ (\E canceled \in BOOLEAN : ResizeReadback(canceled))
               \/ Hold \/ RequestCancel \/ (\E ok \in BOOLEAN : Readback(ok)) \/ Quarantine
      BY <3>2 DEF FindsProtection, ResizeReadback, Hold, RequestCancel, Readback, Quarantine,
                  Goto, Returns
    <3>3. CASE RecordLeg \/ CommitBreakeven \/ Reconcile \/ CrashRestart \/ UNCHANGED vars
      BY <3>3 DEF RecordLeg, Reconcile, CrashRestart, vars, handler, durable, Goto, Returns
    <3>4. QED
      BY <2>1, <3>1, <3>2, <3>3 DEF Calm
  <2>2. CASE Marks
    BY <2>2 DEF Marks, LookupPartial, Confirm, Bind, RetainReadback, CancelReadback,
                QuarantineReadback, Goto, AfterLookup, Returns
  <2>3. CASE Decides \/ Stops \/ Posts
    BY <2>3 DEF Decides, StopToBreakeven, Target1, Starts, Stops, Posts, Restore, Arm, Rearm,
                ResidualStop, PostPartial, PostBreakeven, Goto, Returns
  <2>4. CASE Trades
    BY <2>4 DEF Trades, Fill, Dies, durable, handler
  <2>5. QED
    BY <2>1, <2>2, <2>3, <2>4, Steps
<1>6. QED
  BY <1>2, <1>3, <1>4, <1>5

LEMMA BooksInvariant == Spec => []Books
<1>1. Init => Books
  <2> SUFFICES ASSUME Init PROVE Books
    OBVIOUS
  <2>1. Partials = {}
    BY DEF Init, Partials
  <2>2. row.banked = 0
    <3>1. row \in [banked : {0}, be : {FALSE}, stop : InitStops]
      BY DEF Init
    <3>2. QED
      BY <3>1
  <2>3. \A i \in 1..MaxIntents : legs[i] = 0
    BY DEF Init
  <2>4. at = "idle"
    BY DEF Init
  <2>5. QED
    BY <2>1, <2>2, <2>3, <2>4 DEF Books, Legs
<1>2. IInv /\ Books /\ [Next]_vars => Books'
  <2> SUFFICES ASSUME IInv, Books, [Next]_vars PROVE Books'
    OBVIOUS
  <2>1. \A i \in Partials' : Told(i)'
    BY ToldStep
  <2>2. \A i \in 1..MaxIntents : Legs(i)'
    BY LegsStep
  <2>3. Witness'
    BY WitnessStep
  <2>4. at' = "committed" /\ IsPartial' => Proved(last)'
    BY CommittedStep
  <2>5. QED
    BY <2>1, <2>2, <2>3, <2>4 DEF Books, Witness
<1>3. QED
  BY <1>1, <1>2, Invariant, PTL DEF Spec

\* Of at most one partial that sold there are no two.
LEMMA OneSeller ==
    ASSUME TypeOK, OnePartial, NEW i \in Sellers, NEW j \in Sellers
    PROVE  i = j
<1> SUFFICES ASSUME i # j PROVE FALSE
  OBVIOUS
<1>1. Sellers \in SUBSET (1..MaxIntents)
  BY PartialFacts DEF Sellers
<1>2. IsFiniteSet(Sellers)
  <2>1. IsFiniteSet(1..MaxIntents)
    BY FS_Interval, Numbers
  <2>2. QED
    BY <1>1, <2>1, FS_Subset
<1>3. IsFiniteSet({i}) /\ Cardinality({i}) = 1
  BY FS_Singleton
<1>4. IsFiniteSet({i} \cup {j}) /\ Cardinality({i} \cup {j}) = 2
  BY <1>3, FS_AddElement
<1>5. {i} \cup {j} \subseteq Sellers
  OBVIOUS
<1>6. Cardinality({i} \cup {j}) <= Cardinality(Sellers)
  BY <1>2, <1>5, FS_Subset
<1>7. PICK n \in Nat : n = Cardinality(Sellers)
  BY <1>2, FS_CardinalityType
<1>8. 2 <= n
  BY <1>4, <1>6, <1>7
<1>9. n <= 1
  BY <1>7 DEF OnePartial
<1>10. QED
  BY ONLY <1>8, <1>9, n \in Nat

LEMMA SoldFacts ==
    ASSUME TypeOK
    PROVE  /\ IsFiniteSet(Partials)
           /\ \A i \in Partials : [p \in Partials |-> SoldBy(p)][i] \in Nat
           /\ Sold \in Nat
           /\ (\A i \in Partials : SoldBy(i) = 0) => Sold = 0
           /\ \A j \in Partials : (\A i \in Partials \ {j} : SoldBy(i) = 0) => Sold = SoldBy(j)
<1> DEFINE f == [p \in Partials |-> SoldBy(p)]
<1>1. Partials \subseteq 1..MaxIntents /\ \A i \in Partials : SoldBy(i) \in Nat
  BY PartialFacts
<1>2. IsFiniteSet(Partials)
  <2>1. IsFiniteSet(1..MaxIntents)
    BY FS_Interval, Numbers
  <2>2. Partials \in SUBSET (1..MaxIntents)
    BY <1>1
  <2>3. QED
    BY <2>1, <2>2, FS_Subset
<1>3. \A i \in Partials : f[i] = SoldBy(i) /\ f[i] \in Nat /\ f[i] \in Int
  BY <1>1
<1>4. Sold = Sum(f, Partials)
  BY DEF Sold
<1> HIDE DEF f
<1>5. Sold \in Nat
  BY <1>2, <1>3, <1>4, SumSubset
<1>6. (\A i \in Partials : SoldBy(i) = 0) => Sold = 0
  BY <1>2, <1>3, <1>4, SumZero
<1>7. \A j \in Partials : (\A i \in Partials \ {j} : SoldBy(i) = 0) => Sold = SoldBy(j)
  <2> SUFFICES ASSUME NEW j \in Partials, \A i \in Partials \ {j} : SoldBy(i) = 0
               PROVE  Sold = SoldBy(j)
    OBVIOUS
  <2>1. \A x \in Partials : f[x] \in Int
    BY <1>3
  <2>2. \A x \in Partials \ {j} : f[x] = 0
    BY <1>3
  <2>3. Sum(f, Partials) = f[j]
    BY <1>2, <2>1, <2>2, SumOnly
  <2>4. QED
    BY <1>3, <1>4, <2>3
<1>8. QED
  BY <1>2, <1>3, <1>5, <1>6, <1>7 DEF f

\* What every partial of a trade without an open action came to.
LEMMA Closed ==
    ASSUME IInv, Books, Answered, ~IsOpen(intent), NEW i \in Partials
    PROVE  \/ intents[i].status = "confirmed" /\ Proved(i)
           \/ intents[i].status = "failed" /\ SoldBy(i) = 0
              /\ orders[PartialId(i)].st \in {"none", "dead"}
<1> USE DEF IInv
<1>1. i \in DOMAIN intents /\ i \in 1..last /\ intents # <<>> /\ last \in Nat
  <2>1. intents \in Seq(Action) /\ i \in DOMAIN intents /\ i \in 1..last /\ last \in Nat
    BY PartialFacts, LenProperties DEF TypeOK, last
  <2>2. QED
    BY <2>1 DEF last
<1>2. intents[i].status \in OpenStatuses \cup TerminalStatuses
  <2>1. intents[i] \in Action
    BY <1>1, ElementOfSeq DEF TypeOK, last
  <2>2. QED
    BY <2>1 DEF Action
<1>3. intents[i].status \notin OpenStatuses
  <2>1. CASE i = last
    BY <1>1, <2>1, IntentFacts
  <2>2. CASE i # last
    BY <1>1, <2>2 DEF Known, last
  <2>3. QED
    BY <2>1, <2>2
<1>4. intents[i].status \in {"confirmed", "failed"}
  BY <1>1, <1>2, <1>3 DEF Known, TerminalStatuses
<1>5. QED
  BY <1>4 DEF Books, Told

LEMMA Counted ==
    IInv /\ Books => BankedIsSold
<1> SUFFICES ASSUME IInv, Books, Answered, OnePartial, ~IsOpen(intent)
             PROVE  row.banked = Sold
  BY DEF BankedIsSold
<1> USE DEF IInv
<1>1. \A i \in Partials : SoldBy(i) > 0 <=> i \in Sellers
  BY DEF Sellers
<1>2. \A i \in Partials : SoldBy(i) \in Nat
  BY PartialFacts
<1>3. CASE row.banked = 0
  <2>1. \A i \in Partials : SoldBy(i) = 0
    BY <1>2, <1>3, Closed DEF Proved
  <2>2. QED
    BY <1>3, <2>1, SoldFacts
<1>4. CASE row.banked # 0
  <2>1. PICK j \in Partials : row.banked = SoldBy(j)
    BY <1>4 DEF Books
  <2>2. j \in Sellers
    BY <1>1, <1>2, <1>4, <2>1
  <2>3. \A i \in Partials \ {j} : SoldBy(i) = 0
    BY <1>1, <1>2, <2>2, OneSeller
  <2>4. QED
    BY <2>1, <2>3, SoldFacts
<1>5. QED
  BY <1>3, <1>4

\* With every answer received and one partial that sold, the row has banked
\* exactly what the broker sold as soon as no action is open, however the
\* partial was proved: by the live readback, by quarantine or after a crash
\* (_confirm_partial_action_intent, _reconcile_open_profile_intents).
THEOREM BankedContractsWereSold == Spec => []BankedIsSold
  BY Counted, Invariant, BooksInvariant, PTL

-----------------------------------------------------------------------------
(* Which confirmed partials have a leg                                     *)

Due(i) == intents[i].status = "confirmed" /\ legs[i] = 0

\* Only a partial that the live handler proved may lack its leg, before
\* record_partial_fill or after a fault; recovery records before it banks.
Recorded ==
    /\ \A i \in Partials : Due(i) =>
          intents[i].proof = "live" /\ ((at = "leg" /\ i = last) \/ ~Faultless)
    /\ at \in {"bank", "committed"} /\ IsPartial /\ mode # "live" => legs[last] # 0

LEMMA FaultStays == TypeOK /\ [Next]_vars => (~Faultless => ~Faultless') /\ (Spends => ~Faultless')
<1> SUFFICES ASSUME TypeOK, [Next]_vars
             PROVE  (~Faultless => ~Faultless') /\ (Spends => ~Faultless')
  OBVIOUS
<1>1. budget \in 0..Budget /\ (budget' = budget \/ Spends)
  BY BudgetMove DEF TypeOK
<1>2. QED
  BY <1>1, Numbers DEF Spends, Faultless

\* A leg is only ever written for a partial that sold, and it stays.
LEMMA LegKept ==
    ASSUME IInv, Books, LegMove, NEW i \in 1..MaxIntents
    PROVE  /\ legs[i] # 0 => legs'[i] # 0
           /\ RecordLeg => legs'[last] # 0
<1> USE DEF IInv
<1>1. legs \in [1..MaxIntents -> 0..Quantity]
  BY DEF TypeOK
<1>2. ASSUME intents # <<>>, orders[ActionOrder].filled > 0,
             legs' = [legs EXCEPT ![Len(intents)] = orders[ActionOrder].filled]
      PROVE  (legs[i] # 0 => legs'[i] # 0) /\ legs'[last] # 0
  <2>1. last \in 1..MaxIntents /\ orders[ActionOrder].filled # 0
    BY <1>2, IntentFacts DEF TypeOK, Order
  <2>2. QED
    BY <1>1, <1>2, <2>1 DEF last
<1>3. CASE RecordLeg
  <2>1. intents # <<>> /\ IsPartial /\ intent.status = "confirmed"
    BY <1>3 DEF RecordLeg, Handler, PartialAt
  <2>2. last \in Partials /\ ActionOrder = PartialId(last) /\ intents[last].status = "confirmed"
    BY <2>1, LastPartial
  <2>3. orders[ActionOrder].filled > 0
    BY <2>2 DEF Books, Told, Proved, SoldBy, PartialId
  <2>4. QED
    BY <1>2, <1>3, <2>1, <2>3 DEF RecordLeg
<1>4. CASE ~RecordLeg
  <2>1. CASE legs' = legs
    BY <1>4, <2>1
  <2>2. CASE /\ LookupPartial /\ orders[ActionOrder].filled > 0
             /\ legs' = [legs EXCEPT ![Len(intents)] = orders[ActionOrder].filled]
    <3>1. intents # <<>>
      BY <2>2 DEF LookupPartial, Handler, OpenAt
    <3>2. QED
      BY <1>2, <1>4, <2>2, <3>1
  <2>3. QED
    BY <1>4, <2>1, <2>2 DEF LegMove
<1>5. QED
  BY <1>3, <1>4

\* Between the proof and the leg there is nothing but a crash.
LEMMA LeavesLeg ==
    ASSUME [Next]_vars, at = "leg"
    PROVE  (at' = "leg" /\ intents' = intents) \/ RecordLeg \/ CrashRestart
<1>1. CASE Calm
  <2>1. CASE \/ Begin \/ LookupFails \/ Bank \/ Settle \/ Retain \/ Defer \/ FindsNone
             \/ (\E o \in SellIds : FindsProtection(o))
             \/ (\E canceled \in BOOLEAN : ResizeReadback(canceled))
    BY <2>1 DEF Begin, LookupFails, Bank, Settle, Retain, Defer, FindsNone, FindsProtection,
                ResizeReadback
  <2>2. CASE \/ Hold \/ RequestCancel \/ (\E ok \in BOOLEAN : Readback(ok)) \/ Quarantine
             \/ CommitBreakeven
    BY <2>2 DEF Hold, RequestCancel, Readback, Quarantine, CommitBreakeven
  <2>3. CASE Reconcile \/ UNCHANGED vars
    BY <2>3 DEF Reconcile, vars, handler, durable
  <2>4. QED
    BY <1>1, <2>1, <2>2, <2>3 DEF Calm
<1>2. CASE Marks
  BY <1>2 DEF Marks, LookupPartial, LookupBreakeven, Confirm, Bind, RetainReadback,
              CancelReadback, QuarantineReadback
<1>3. CASE Decides \/ Stops \/ Posts
  BY <1>3 DEF Decides, StopToBreakeven, Target1, Stops, Posts, Restore, Arm, Rearm,
              ResidualStop, PostPartial, PostBreakeven
<1>4. CASE Trades
  BY <1>4 DEF Trades, Fill, Dies, durable, handler
<1>5. QED
  BY <1>1, <1>2, <1>3, <1>4, Steps

\* Recovery comes to bank a partial only from the lookup that recorded its leg.
LEMMA ComesToBank ==
    ASSUME IInv, [Next]_vars, at' \in {"bank", "committed"}, IsPartial', mode' # "live"
    PROVE  \/ /\ at \in {"bank", "committed"} /\ IsPartial /\ mode # "live"
              /\ legs' = legs /\ intents' = intents
           \/ /\ LookupPartial /\ Bound /\ orders[ActionOrder].filled > 0
              /\ legs' = [legs EXCEPT ![Len(intents)] = orders[ActionOrder].filled]
<1> USE DEF IInv
<1>1. CASE Calm
  <2>1. CASE \/ Begin \/ LookupFails \/ Settle \/ Retain \/ Defer \/ FindsNone
    BY <2>1 DEF Begin, LookupFails, Settle, Retain, Defer, FindsNone, Goto, AfterLookup, Returns
  <2>2. CASE \/ (\E o \in SellIds : FindsProtection(o))
             \/ (\E canceled \in BOOLEAN : ResizeReadback(canceled))
             \/ Hold \/ RequestCancel \/ Quarantine \/ RecordLeg \/ CrashRestart
    BY <2>2 DEF FindsProtection, ResizeReadback, Hold, RequestCancel, Quarantine, RecordLeg,
                CrashRestart, Goto, Returns
  <2>3. CASE \E ok \in BOOLEAN : Readback(ok)
    BY <2>3 DEF Readback, Goto, Handler, LiveAt
  <2>4. CASE CommitBreakeven
    BY <2>4, IntentsStay DEF CommitBreakeven, Handler
  <2>5. CASE Bank
    BY <2>5, IntentsStay DEF Bank, Goto
  <2>6. CASE Reconcile \/ UNCHANGED vars
    BY <2>6, IntentsStay DEF Reconcile, vars, handler, durable
  <2>7. QED
    BY <1>1, <2>1, <2>2, <2>3, <2>4, <2>5, <2>6 DEF Calm
<1>2. CASE LookupPartial
  BY <1>2 DEF LookupPartial, Goto, AfterLookup
<1>3. CASE LookupBreakeven
  <2>1. Bound /\ ~IsPartial /\ at = "lookup"
    BY <1>3 DEF LookupBreakeven, Goto, AfterLookup, Returns
  <2>2. Status("submitted", intent.proof)
    BY <2>1, BoundStatus DEF OpenAt
  <2>3. QED
    BY <2>1, <2>2 DEF Status, Marked
<1>4. CASE Marks /\ ~LookupPartial /\ ~LookupBreakeven
  BY <1>4 DEF Marks, Confirm, Bind, RetainReadback, CancelReadback, QuarantineReadback,
              Goto, AfterLookup, Returns
<1>5. CASE Decides \/ Stops \/ Posts
  BY <1>5 DEF Decides, StopToBreakeven, Target1, Starts, Stops, Posts, Restore, Arm, Rearm,
              ResidualStop, PostPartial, PostBreakeven, Goto, Returns
<1>6. CASE Trades
  BY <1>6, IntentsStay DEF Trades, Fill, Dies, durable, handler
<1>7. QED
  BY <1>1, <1>2, <1>3, <1>4, <1>5, <1>6, Steps

\* The handler that proves a partial itself goes on to its leg.
LEMMA ConfirmsLive ==
    ASSUME IInv, Recorded, Confirm, IsPartial
    PROVE  \/ legs[last] # 0
           \/ at' = "leg" /\ last' = last /\ intents'[last].proof = "live"
<1> USE DEF IInv
<1>1. at = "committed" /\ at \in OpenAt
  BY DEF Confirm, OpenAt
<1>2. CASE mode # "live"
  BY <1>1, <1>2 DEF Recorded
<1>3. CASE mode = "live"
  <2>1. Resolved("confirmed", "live") /\ at' = "leg"
    BY <1>3 DEF Confirm, Goto
  <2>2. Status("confirmed", "live")
    BY <1>1, <2>1, ResolvedStatus
  <2>3. QED
    BY <2>1, <2>2 DEF Status, Marked, last
<1>4. QED
  BY <1>2, <1>3

LEMMA DueStep ==
    ASSUME IInv, Books, Recorded, [Next]_vars, NEW i \in Partials', Due(i)'
    PROVE  intents'[i].proof = "live" /\ ((at' = "leg" /\ i = last') \/ ~Faultless')
<1> USE DEF IInv
<1>1. IntentMove /\ LegMove /\ Verdict
  BY Moves, BookMoves, Verdicts
<1>2. /\ i \in DOMAIN intents' /\ intents'[i].kind = "partial_scale"
      /\ DOMAIN intents' = 1..Len(intents') /\ DOMAIN intents = 1..last /\ last \in Nat
  <2>1. intents \in Seq(Action)
    BY DEF TypeOK
  <2>2. QED
    BY <1>1, <2>1, ActionsKept, LenProperties DEF Partials, last
<1>3. ASSUME i \in DOMAIN intents PROVE i \in Partials /\ i \in 1..MaxIntents /\ legs[i] = 0
  <2>1. i \in Partials
    BY <1>1, <1>2, <1>3, ActionsKept DEF Partials
  <2>2. i \in 1..MaxIntents
    BY <2>1, PartialFacts
  <2>3. QED
    BY <1>1, <2>1, <2>2, LegKept DEF Due
<1>4. ASSUME i \in DOMAIN intents, intents'[i] = intents[i]
      PROVE  intents'[i].proof = "live" /\ ((at' = "leg" /\ i = last') \/ ~Faultless')
  <2>1. intents[i].proof = "live" /\ ((at = "leg" /\ i = last) \/ ~Faultless)
    BY <1>3, <1>4 DEF Recorded, Due
  <2>2. CASE at = "leg" /\ i = last
    <3>1. CASE RecordLeg
      BY <1>1, <1>3, <1>4, <2>2, <3>1, LegKept DEF Due
    <3>2. CASE CrashRestart
      BY <1>4, <2>1, <3>2, FaultStays DEF CrashRestart
    <3>3. CASE at' = "leg" /\ intents' = intents
      BY <2>1, <2>2, <3>3, IntentsStay
    <3>4. QED
      BY <2>2, <3>1, <3>2, <3>3, LeavesLeg
  <2>3. CASE ~Faultless
    BY <1>4, <2>1, <2>3, FaultStays
  <2>4. QED
    BY <2>1, <2>2, <2>3
<1>5. ASSUME i \in DOMAIN intents, intents'[i] # intents[i]
      PROVE  intents'[i].proof = "live" /\ ((at' = "leg" /\ i = last') \/ ~Faultless')
  <2>1. i = last /\ IsOpen(intent) /\ intents' # intents
    BY <1>1, <1>5, ActionsKept
  <2>2. intents # <<>> /\ i \in Partials /\ legs[i] = 0
    BY <1>3, <1>5, <2>1, NoIntents
  <2>3. IsPartial
    BY <2>1, <2>2, IntentFacts, PartialFacts DEF IsPartial
  <2>4. ASSUME NEW s, NEW p, Status(s, p) PROVE s = "confirmed"
    BY <2>1, <2>4 DEF Status, Marked, Due
  <2>5. Confirm
    BY <1>1, <2>1, <2>4 DEF Verdict, Failed
  <2>6. QED
    BY <2>1, <2>2, <2>3, <2>5, ConfirmsLive
<1>6. ASSUME i \notin DOMAIN intents PROVE FALSE
  <2>1. PICK k \in ActionKinds, q \in 0..Quantity : Added(k, q)
    <3>1. intents' # intents
      BY <1>2, <1>6
    <3>2. ~SomeStatus
      BY <1>2, <1>6 DEF SomeStatus, Status, Marked
    <3>3. QED
      BY <1>1, <3>1, <3>2 DEF IntentMove
  <2>2. i = last + 1 /\ intents'[i].status = "prepared"
    BY <1>2, <1>6, <2>1 DEF Added
  <2>3. QED
    BY <2>2 DEF Due
<1>7. QED
  BY <1>4, <1>5, <1>6

LEMMA RecordedInvariant == Spec => []Recorded
<1>1. Init => Recorded
  <2> SUFFICES ASSUME Init PROVE Recorded
    OBVIOUS
  <2>1. Partials = {} /\ at = "idle"
    BY DEF Init, Partials
  <2>2. QED
    BY <2>1 DEF Recorded
<1>2. IInv /\ Books /\ Recorded /\ [Next]_vars => Recorded'
  <2> SUFFICES ASSUME IInv, Books, Recorded, [Next]_vars PROVE Recorded'
    OBVIOUS
  <2>1. \A i \in Partials' : Due(i)' =>
           intents'[i].proof = "live" /\ ((at' = "leg" /\ i = last') \/ ~Faultless')
    BY DueStep
  <2>2. ASSUME at' \in {"bank", "committed"}, IsPartial', mode' # "live" PROVE legs'[last'] # 0
    <3>1. CASE /\ at \in {"bank", "committed"} /\ IsPartial /\ mode # "live"
               /\ legs' = legs /\ intents' = intents
      BY <3>1, IntentsStay DEF Recorded
    <3>2. CASE /\ LookupPartial /\ Bound /\ orders[ActionOrder].filled > 0
               /\ legs' = [legs EXCEPT ![Len(intents)] = orders[ActionOrder].filled]
      <4>1. at = "lookup" /\ intents # <<>>
        BY <3>2 DEF LookupPartial, IInv, Handler, OpenAt
      <4>2. last' = last
        <5>1. Status("submitted", intent.proof)
          BY <3>2, <4>1, BoundStatus DEF OpenAt
        <5>2. QED
          BY <5>1 DEF Status, Marked, last
      <4>3. last \in 1..MaxIntents /\ legs \in [1..MaxIntents -> 0..Quantity]
            /\ orders[ActionOrder].filled # 0
        BY <3>2, <4>1, IntentFacts DEF IInv, TypeOK, Order
      <4>4. QED
        BY <3>2, <4>2, <4>3 DEF last
    <3>3. QED
      BY <2>2, <3>1, <3>2, ComesToBank
  <2>3. QED
    BY <2>1, <2>2 DEF Recorded
<1>3. QED
  BY <1>1, <1>2, Invariant, BooksInvariant, PTL DEF Spec

\* Every confirmed partial has the leg its order sold, however it was proved
\* and whichever of the trade's partials it is, except one the live handler
\* confirmed and had not yet recorded when a fault came
\* (_handle_partial_scale_locked, _reconcile_open_profile_intents).
THEOREM ConfirmedPartialsAreRecorded == Spec => []LegsAreSales
<1>1. IInv /\ Books /\ Recorded => LegsAreSales
  <2> SUFFICES ASSUME IInv, Books, Recorded, NEW i \in Partials
               PROVE  /\ legs[i] \in {0, SoldBy(i)}
                      /\ intents[i].status = "confirmed" /\ legs[i] = 0 =>
                            intents[i].proof = "live" /\ ((at = "leg" /\ i = Len(intents)) \/ ~Faultless)
    BY DEF LegsAreSales
  <2>1. legs[i] \in {0, SoldBy(i)}
    BY PartialFacts DEF IInv, Books, Legs
  <2>2. QED
    BY <2>1 DEF Recorded, Due, last
<1>2. QED
  BY <1>1, Invariant, BooksInvariant, RecordedInvariant, PTL

-----------------------------------------------------------------------------
(* The ladder                                                              *)

Excuse == \E i \in Partials : intents[i].status = "failed" /\ intents[i].proof = "readback"
Honest ==
    ladder # NoLadder /\ ladder.t1 => row.banked > 0 \/ (IsOpen(intent) /\ IsPartial) \/ Excuse

LEMMA ExcuseStays ==
    ASSUME IInv, [Next]_vars, Excuse
    PROVE  Excuse'
<1> USE DEF IInv
<1>1. OrderMove /\ IntentMove
  BY Moves
<1>2. PICK i \in Partials : intents[i].status = "failed" /\ intents[i].proof = "readback"
  BY DEF Excuse
<1>3. i \in DOMAIN intents /\ i \in Partials'
  BY <1>1, PartialFacts, PartialsKept
<1>4. ~(i = last /\ IsOpen(intent))
  <2> SUFFICES ASSUME i = last, IsOpen(intent) PROVE FALSE
    OBVIOUS
  <2>1. intents # <<>>
    BY NoIntents
  <2>2. intents[i].status \in OpenStatuses
    BY <2>1, IntentFacts
  <2>3. QED
    BY <1>2, <2>2 DEF OpenStatuses
<1>5. intents'[i] = intents[i]
  BY <1>1, <1>3, <1>4, ActionsKept
<1>6. QED
  BY <1>2, <1>3, <1>5 DEF Excuse

LEMMA HonestStep == IInv /\ Books /\ Honest /\ [Next]_vars => Honest'
<1> SUFFICES ASSUME IInv, Books, Honest, [Next]_vars, ladder' # NoLadder, ladder'.t1
             PROVE  row'.banked > 0 \/ (IsOpen(intent)' /\ IsPartial') \/ Excuse'
  BY DEF Honest
<1> USE DEF IInv
<1>1. OrderMove /\ IntentMove /\ RowMove /\ LadderMove /\ Verdict
  BY Moves, BookMoves, Verdicts
<1>2. row.banked \in Nat /\ row'.banked \in Nat /\ row'.banked >= row.banked
  BY <1>1, BankedGrows, RowType, Numbers
<1>3. ASSUME ladder # NoLadder, ladder.t1
      PROVE  row.banked > 0 \/ (IsOpen(intent) /\ IsPartial) \/ Excuse
  BY <1>3 DEF Honest
<1>4. CASE row.banked > 0 \/ Excuse
  BY <1>2, <1>4, ExcuseStays
<1>5. ASSUME IsOpen(intent), IsPartial, ladder' # RolledBack
      PROVE  row'.banked > 0 \/ (IsOpen(intent)' /\ IsPartial') \/ Excuse'
  <2>1. CASE intents' = intents
    BY <1>5, <2>1, IntentsStay
  <2>2. CASE \E p \in {"live", "readback"} : Status("submitted", p)
    <3>1. intent'.status = "submitted" /\ IsPartial' /\ intent' \in Action
      <4>1. last \in 1..last
        BY <1>5, NoIntents, IntentFacts
      <4>2. QED
        BY <1>5, <2>2, <4>1, ElementOfSeq DEF Status, Marked
    <3>2. QED
      BY <3>1, SentinelsAssumption DEF IsOpen, OpenStatuses
  <2>3. CASE Confirm
    <3>1. Proved(last)
      BY <1>5, <2>3 DEF Confirm, Books
    <3>2. last \in Partials
      BY <1>5, NoIntents, LastPartial
    <3>3. QED
      BY <1>2, <3>1, <3>2, PartialFacts DEF Proved
  <2>4. CASE Failed("readback")
    <3>1. /\ last \in Partials /\ last \in DOMAIN intents
      BY <1>5, NoIntents, LastPartial, PartialFacts
    <3>2. last \in Partials'
      BY <1>1, <3>1, PartialsKept
    <3>3. intents'[last].status = "failed" /\ intents'[last].proof = "readback"
      BY <2>4 DEF Failed, Status, Marked
    <3>4. QED
      BY <3>2, <3>3 DEF Excuse
  <2>5. ~Failed("live")
    BY <1>5 DEF Failed
  <2>6. QED
    BY <1>1, <1>5, <2>1, <2>2, <2>3, <2>4, <2>5 DEF Verdict
<1>6. CASE ladder' = ladder
  <2>1. CASE IsOpen(intent) /\ IsPartial
    <3>1. CASE ladder' # RolledBack
      BY <1>5, <2>1, <3>1
    <3>2. CASE ladder' = RolledBack
      BY <2>1, <3>2 DEF RolledBack, FreshLadder
    <3>3. QED
      BY <3>1, <3>2
  <2>2. QED
    BY <1>3, <1>4, <1>6, <2>1
<1>7. CASE Settle
  <2>1. \/ ladder' = ladder \/ ladder' = FreshLadder
        \/ ladder' = [t1 |-> row.banked > 0, armed |-> row.be, emitted |-> row.be]
    BY <1>7 DEF Settle
  <2>2. ladder' # FreshLadder
    BY DEF FreshLadder
  <2>3. ASSUME ladder' = [t1 |-> row.banked > 0, armed |-> row.be, emitted |-> row.be]
        PROVE  row.banked > 0
    BY <2>3
  <2>4. QED
    BY <1>4, <1>6, <2>1, <2>2, <2>3
<1>8. CASE ladder' = RolledBack
  <2>1. CASE IsPartial
    BY <1>8, <2>1 DEF RolledBack, FreshLadder
  <2>2. CASE ~IsPartial
    <3>1. ladder # NoLadder /\ ladder \in Ladder
      BY <1>8 DEF RolledBack, TypeOK
    <3>2. ladder' = [ladder EXCEPT !.emitted = FALSE]
      BY <1>8, <2>2, <3>1 DEF RolledBack
    <3>3. ladder.t1
      BY <3>1, <3>2 DEF Ladder
    <3>4. QED
      BY <1>3, <1>4, <2>2, <3>1, <3>3
  <2>3. QED
    BY <2>1, <2>2
<1>9. CASE StopToBreakeven
  <2>1. /\ at = "evaluate" /\ ladder' = [ladder EXCEPT !.emitted = TRUE]
    BY <1>9 DEF StopToBreakeven
  <2>2. ladder # NoLadder /\ ladder \in Ladder /\ ~IsOpen(intent)
    BY <2>1 DEF Handler, LadderAt, TypeOK
  <2>3. ladder.t1
    BY <2>1, <2>2 DEF Ladder
  <2>4. QED
    BY <1>3, <1>4, <2>2, <2>3
<1>10. ASSUME NEW q \in 1..Quantity, Target1(q)
       PROVE  IsOpen(intent)' /\ IsPartial'
  <2>1. q \in 0..Quantity /\ Prepared("partial_scale", q)
    BY <1>10, Numbers DEF Target1
  <2>2. Added("partial_scale", q)
    BY <2>1, PreparedAdds DEF ActionKinds
  <2>3. intent'.kind = "partial_scale" /\ intent'.status = "prepared" /\ intent' \in Action
    <3>1. last \in Nat
      BY LenProperties DEF TypeOK, last
    <3>2. QED
      BY <2>2, <3>1, ElementOfSeq DEF Added
  <2>4. QED
    BY <2>3, SentinelsAssumption DEF IsOpen, IsPartial, OpenStatuses
<1>11. QED
  BY <1>1, <1>6, <1>7, <1>8, <1>9, <1>10 DEF LadderMove

\* The ladder believes in a banked target 1 only while the partial is open or
\* once it sold: every failed attempt is rolled back, except by
\* _reconcile_open_profile_intents.
THEOREM LadderTellsTruth == Spec => []LadderBanked
<1>1. Init => Honest
  BY DEF Init, Honest
<1>2. Honest => LadderBanked
  BY DEF Honest, LadderBanked, Excuse
<1>3. QED
  BY <1>1, <1>2, HonestStep, Invariant, BooksInvariant, PTL DEF Spec

-----------------------------------------------------------------------------
(* What was sold is accounted for                                          *)

StopsSold == Sum([o \in SellIds |-> orders[o].filled], WorkingStops)

\* No contract is sold twice.
Count == held + Sold + StopsSold
Conserved == Count <= Quantity

\* The same sums over all the ids there are.
SoldOf == [i \in 1..MaxIntents |-> SoldBy(i)]
StopOf == [o \in SellIds |-> IF o \in WorkingStops THEN orders[o].filled ELSE 0]

LEMMA OrderFacts ==
    ASSUME TypeOK, NEW o \in SellIds
    PROVE  /\ orders[o] \in Order /\ orders[o].filled \in Nat /\ orders[o].qty \in Nat
           /\ orders[o].filled \in 0..Quantity /\ orders[o].px \in {0} \cup Levels
           /\ orders[o].acked \in BOOLEAN
<1>1. orders[o] \in Order
  BY DEF TypeOK
<1>2. QED
  BY <1>1, Numbers DEF Order

LEMMA PartialIds ==
    /\ \A i \in 1..MaxIntents : PartialId(i) \in ActionIds /\ PartialId(i) \in SellIds
                                /\ PartialId(i)[1] = "partial_scale"
    /\ \A i, j \in 1..MaxIntents : PartialId(i) = PartialId(j) => i = j
    /\ \A o \in SellIds : o[1] # "partial_scale" \/ \E i \in 1..MaxIntents : o = PartialId(i)
<1>1. \A i \in 1..MaxIntents : PartialId(i) \in ActionIds /\ PartialId(i) \in SellIds
  BY Ids DEF PartialId, ActionKinds
<1>2. \A o \in SellIds : o[1] # "partial_scale" \/ \E i \in 1..MaxIntents : o = PartialId(i)
  <2> SUFFICES ASSUME NEW o \in SellIds
               PROVE  o[1] # "partial_scale" \/ \E i \in 1..MaxIntents : o = PartialId(i)
    OBVIOUS
  <2>1. CASE o \in ActionIds
    <3>1. PICK k \in ActionKinds, i \in 1..MaxIntents : o = <<k, i>>
      BY <2>1, Ids
    <3>2. QED
      BY <3>1 DEF PartialId
  <2>2. CASE \E i \in 1..MaxStops : o = <<"stop", i>>
    BY <2>2
  <2>3. QED
    BY <2>1, <2>2, Ids
<1>3. QED
  BY <1>1, <1>2 DEF PartialId

\* An id that no partial has sold nothing.
LEMMA NotPartial ==
    ASSUME IInv, NEW i \in 1..MaxIntents, i \notin Partials
    PROVE  SoldBy(i) = 0 /\ orders[PartialId(i)].st = "none"
<1>1. orders[<<"partial_scale", i>>].st = "none"
  BY DEF IInv, Known, Partials
<1>2. PartialId(i) \in SellIds
  BY PartialIds
<1>3. QED
  BY <1>1, <1>2 DEF IInv, Amounts, SoldBy, PartialId

LEMMA SumsFacts ==
    ASSUME IInv
    PROVE  /\ IsFiniteSet(1..MaxIntents)
           /\ \A i \in 1..MaxIntents : SoldOf[i] = SoldBy(i) /\ SoldOf[i] \in Int
           /\ \A o \in SellIds : StopOf[o] \in Nat /\ StopOf[o] \in Int
           /\ Sold = Sum(SoldOf, 1..MaxIntents)
           /\ StopsSold = Sum(StopOf, SellIds)
           /\ Sold \in Nat /\ StopsSold \in Nat /\ held \in Nat
<1>0. TypeOK
  BY DEF IInv
<1>1. IsFiniteSet(1..MaxIntents)
  BY FS_Interval, Numbers
<1>2. \A i \in 1..MaxIntents : SoldOf[i] = SoldBy(i) /\ SoldOf[i] \in Int
  <2> TAKE i \in 1..MaxIntents
  <2>1. PartialId(i) \in SellIds
    BY PartialIds
  <2>2. orders[PartialId(i)].filled \in Nat
    BY <1>0, <2>1, OrderFacts
  <2>3. QED
    BY <2>2 DEF SoldOf, SoldBy, PartialId
<1>3. \A o \in SellIds : StopOf[o] \in Nat /\ StopOf[o] \in Int
  BY <1>0, OrderFacts DEF StopOf
<1>4. Sold = Sum(SoldOf, 1..MaxIntents)
  <2>1. PICK f, T : f = [i \in Partials |-> SoldBy(i)] /\ T = 1..MaxIntents
    OBVIOUS
  <2>2. Partials \in SUBSET T /\ IsFiniteSet(T)
    BY <1>0, <1>1, <2>1, PartialFacts
  <2>3. \A x \in T : SoldOf[x] \in Int
    BY <1>2, <2>1
  <2>4. \A x \in Partials : f[x] = SoldOf[x]
    BY <1>2, <2>1, <2>2
  <2>5. \A x \in T \ Partials : SoldOf[x] = 0
    BY <1>2, <2>1, NotPartial
  <2>6. Sum(f, Partials) = Sum(SoldOf, T)
    BY ONLY <2>2, <2>3, <2>4, <2>5, SumRest
  <2>7. QED
    BY <2>1, <2>6 DEF Sold
<1>5. StopsSold = Sum(StopOf, SellIds) /\ StopsSold \in Nat
  <2>1. PICK f : f = [o \in SellIds |-> orders[o].filled]
    OBVIOUS
  <2>2. WorkingStops \in SUBSET SellIds
    BY DEF WorkingStops, Working
  <2>3. \A x \in SellIds : StopOf[x] \in Int
    BY <1>3
  <2>4. \A x \in WorkingStops : f[x] = StopOf[x]
    BY <2>1, <2>2 DEF StopOf
  <2>5. \A x \in SellIds \ WorkingStops : StopOf[x] = 0
    BY DEF StopOf
  <2>6. Sum(f, WorkingStops) = Sum(StopOf, SellIds)
    BY ONLY SellIdsFinite, <2>2, <2>3, <2>4, <2>5, SumRest
  <2>7. \A x \in SellIds : f[x] \in Nat
    BY <1>0, <2>1, OrderFacts
  <2>8. Sum(f, WorkingStops) \in Nat
    BY ONLY SellIdsFinite, <2>2, <2>7, SumSubset
  <2>9. QED
    BY <2>1, <2>6, <2>8 DEF StopsSold
<1>6. QED
  BY <1>0, <1>1, <1>2, <1>3, <1>4, <1>5, SoldFacts, Numbers DEF TypeOK

Totals == /\ \A i \in 1..MaxIntents : SoldOf[i] = SoldBy(i) /\ SoldOf[i] \in Int
          /\ \A o \in SellIds : StopOf[o] \in Int
          /\ Sold = Sum(SoldOf, 1..MaxIntents)
          /\ StopsSold = Sum(StopOf, SellIds)
          /\ Sold \in Nat /\ StopsSold \in Nat /\ held \in Nat
          /\ Partials \in SUBSET (1..MaxIntents)

LEMMA TotalsHold == IInv => Totals
<1> SUFFICES ASSUME IInv PROVE Totals
  OBVIOUS
<1>1. Partials \in SUBSET (1..MaxIntents)
  BY PartialFacts DEF IInv
<1>2. QED
  BY <1>1, SumsFacts DEF Totals

LEMMA TotalsPrimed == IInv' => Totals'
  BY TotalsHold, PTL

\* Only an order that sells changes what its partial sold.
LEMMA SoldMove ==
    ASSUME IInv, IInv', OrderMove, NEW i \in 1..MaxIntents
    PROVE  \/ SoldBy(i)' = SoldBy(i)
           \/ Sells(PartialId(i)) /\ held' = held - 1 /\ SoldBy(i)' = SoldBy(i) + 1
<1>1. PartialId(i) \in ActionIds /\ PartialId(i) \in SellIds
  BY PartialIds
<1>2. SoldBy(i) = orders[PartialId(i)].filled /\ SoldBy(i)' = orders'[PartialId(i)].filled
  BY DEF SoldBy, PartialId
<1>3. CASE Quiet
  BY <1>1, <1>2, <1>3 DEF Quiet, Same
<1>4. ASSUME NEW o \in SellIds, Sells(o), held' = held - 1
      PROVE  \/ SoldBy(i)' = SoldBy(i)
             \/ Sells(PartialId(i)) /\ held' = held - 1 /\ SoldBy(i)' = SoldBy(i) + 1
  BY <1>1, <1>2, <1>4 DEF Sells, OthersSame, Same
<1>5. ASSUME NEW o \in SellIds, Ends(o)
      PROVE  SoldBy(i)' = SoldBy(i)
  BY <1>1, <1>2, <1>5 DEF Ends, OthersSame, Same
<1>6. ASSUME NEW o \in SellIds, NEW q, NEW px, NEW a, Placed(o, q, px, a),
             o \notin ActionIds \/ orders[o].st = "none"
      PROVE  SoldBy(i)' = SoldBy(i)
  <2>1. CASE o = PartialId(i)
    <3>1. orders[o].filled = 0
      BY <1>1, <1>6, <2>1 DEF IInv, Amounts
    <3>2. QED
      BY <1>2, <1>6, <2>1, <3>1 DEF Placed
  <2>2. CASE o # PartialId(i)
    BY <1>1, <1>2, <1>6, <2>2 DEF Placed, OthersSame, Same
  <2>3. QED
    BY <2>1, <2>2
<1>7. QED
  BY <1>3, <1>4, <1>5, <1>6 DEF OrderMove

\* An order that neither sells nor ends nor is placed counts as before.
LEMMA StopMove ==
    ASSUME IInv, NEW x \in SellIds, Same(x)
    PROVE  StopOf'[x] = StopOf[x]
<1>1. x \in WorkingStops' <=> x \in WorkingStops
  BY DEF Same, WorkingStops, Working
<1>2. StopOf'[x] = IF x \in WorkingStops' THEN orders'[x].filled ELSE 0
  BY DEF StopOf
<1>3. StopOf[x] = IF x \in WorkingStops THEN orders[x].filled ELSE 0
  BY DEF StopOf
<1>4. orders'[x].filled = orders[x].filled
  BY DEF Same
<1>5. QED
  BY <1>1, <1>2, <1>3, <1>4

\* The sum changes with the one order that moves.
LEMMA StopsMove ==
    ASSUME IInv, IInv', NEW o \in SellIds, OthersSame(o)
    PROVE  StopsSold' = StopsSold + StopOf'[o] - StopOf[o]
<1>1. PICK f, g : f = StopOf /\ g = StopOf'
  OBVIOUS
<1>2. (\A y \in SellIds : f[y] \in Int) /\ StopsSold = Sum(f, SellIds)
  BY <1>1, SumsFacts
<1>3. \A y \in SellIds : StopOf'[y] \in Int
  BY TotalsPrimed DEF Totals
<1>4. StopsSold' = Sum(StopOf', SellIds)
  BY TotalsPrimed DEF Totals
<1>5. \A y \in SellIds : f[y] \in Int /\ g[y] \in Int
  BY <1>1, <1>2, <1>3
<1>6. \A y \in SellIds \ {o} : f[y] = g[y]
  BY <1>1, StopMove DEF OthersSame
<1>7. Sum(g, SellIds) = Sum(f, SellIds) + g[o] - f[o]
  BY ONLY <1>5, <1>6, SellIdsFinite, SumMove
<1>8. QED
  BY <1>1, <1>2, <1>4, <1>7, SumsFacts

LEMMA SoldUnchanged ==
    ASSUME IInv, IInv', \A i \in 1..MaxIntents : SoldBy(i)' = SoldBy(i)
    PROVE  Sold' = Sold
<1>1. \A i \in 1..MaxIntents : SoldOf[i] = SoldBy(i) /\ SoldOf[i] \in Int
  BY SumsFacts
<1>2. \A i \in 1..MaxIntents : SoldOf'[i] = SoldBy(i)' /\ SoldOf'[i] \in Int
  BY TotalsPrimed DEF Totals
<1>3. Sold = Sum(SoldOf, 1..MaxIntents)
  BY SumsFacts
<1>4. Sold' = Sum(SoldOf', 1..MaxIntents)
  BY TotalsPrimed DEF Totals
<1>5. PICK f, g, T : f = SoldOf /\ g = SoldOf' /\ T = 1..MaxIntents
  OBVIOUS
<1>6. IsFiniteSet(T) /\ \A x \in T : f[x] \in Int /\ f[x] = g[x]
  BY <1>1, <1>2, <1>5, SumsFacts
<1>7. Sum(f, T) = Sum(g, T)
  BY ONLY <1>6, SumSame
<1>8. QED
  BY <1>3, <1>4, <1>5, <1>7

LEMMA SoldGrows ==
    ASSUME IInv, IInv', NEW j \in 1..MaxIntents, SoldBy(j)' = SoldBy(j) + 1,
           \A i \in 1..MaxIntents : i # j => SoldBy(i)' = SoldBy(i)
    PROVE  Sold' = Sold + 1
<1>1. \A i \in 1..MaxIntents : SoldOf[i] = SoldBy(i) /\ SoldOf[i] \in Int
  BY SumsFacts
<1>2. \A i \in 1..MaxIntents : SoldOf'[i] = SoldBy(i)' /\ SoldOf'[i] \in Int
  BY TotalsPrimed DEF Totals
<1>3. Sold = Sum(SoldOf, 1..MaxIntents)
  BY SumsFacts
<1>4. Sold' = Sum(SoldOf', 1..MaxIntents)
  BY TotalsPrimed DEF Totals
<1>5. PICK f, g, T : f = SoldOf /\ g = SoldOf' /\ T = 1..MaxIntents
  OBVIOUS
<1>6. IsFiniteSet(T) /\ j \in T
  BY <1>5, SumsFacts
<1>7. \A x \in T : f[x] \in Int /\ g[x] \in Int
  BY <1>1, <1>2, <1>5
<1>8. \A x \in T \ {j} : f[x] = g[x]
  BY <1>1, <1>2, <1>5
<1>9. Sum(g, T) = Sum(f, T) + g[j] - f[j] /\ Sum(f, T) \in Int
  BY ONLY <1>6, <1>7, <1>8, SumMove, ZenonT(30)
<1>10. g[j] = f[j] + 1 /\ f[j] \in Int
  BY <1>1, <1>2, <1>5
<1>11. Sum(g, T) = Sum(f, T) + 1
  BY ONLY <1>9, <1>10
<1>12. QED
  BY <1>3, <1>4, <1>5, <1>11

LEMMA Weaker ==
    ASSUME NEW a \in Nat, NEW b \in Nat, NEW c \in Nat, NEW d \in Nat, NEW h \in Nat, h > 0,
           (a = c + 1 /\ b = d) \/ (a = c /\ b <= d + 1)
    PROVE  (h - 1) + a + b <= h + c + d
  OBVIOUS

\* Nothing is missing when no stop that is over has sold.
Complete == Count \in Nat /\ (NoBrokenStop <=> Count = Quantity)

LEMMA CompleteHolds == IInv => Complete
<1> SUFFICES ASSUME IInv PROVE Complete
  OBVIOUS
<1>1. held \in Nat /\ Sold \in Nat /\ StopsSold \in Nat /\ Quantity \in Nat
  BY SumsFacts, Numbers
<1>2. NoBrokenStop <=> Quantity - held = Sold + StopsSold
  BY DEF NoBrokenStop, StopsSold
<1>3. QED
  BY <1>1, <1>2 DEF Complete, Count

LEMMA CompletePrimed == IInv' => Complete'
  BY CompleteHolds, PTL

\* What left the account grows at least as fast as what the sums count.
LEMMA GapStep ==
    ASSUME IInv, IInv', OrderMove
    PROVE  held' + Sold' + StopsSold' <= held + Sold + StopsSold
<1>0. /\ held \in Nat /\ Sold \in Nat /\ StopsSold \in Nat
      /\ \A x \in SellIds : StopOf[x] \in Nat
  BY SumsFacts
<1>1. \A x \in SellIds : StopOf[x] = IF x \in WorkingStops THEN orders[x].filled ELSE 0
  BY DEF StopOf
<1>2. \A x \in SellIds : StopOf'[x] = IF x \in WorkingStops' THEN orders'[x].filled ELSE 0
  BY DEF StopOf
<1>3. CASE Quiet /\ held' = held
  <2>1. PICK o \in SellIds : o = <<"stop", 1>>
    <3>1. 1 \in 1..MaxStops
      BY Numbers
    <3>2. QED
      BY <3>1, Ids
  <2>2. OthersSame(o) /\ Same(o)
    BY <1>3, <2>1 DEF Quiet, OthersSame
  <2>3. StopsSold' = StopsSold
    BY <1>0, <2>1, <2>2, StopsMove, StopMove
  <2>4. \A i \in 1..MaxIntents : SoldBy(i)' = SoldBy(i)
    BY <1>3, PartialIds DEF Quiet, Same, SoldBy, PartialId
  <2>5. QED
    BY <1>0, <1>3, <2>3, <2>4, SoldUnchanged
<1>4. ASSUME NEW o \in SellIds, Sells(o), held > 0, held' = held - 1
      PROVE  held' + Sold' + StopsSold' <= held + Sold + StopsSold
  <2>0. OthersSame(o) /\ o \in Working
    BY <1>4 DEF Sells, Working
  <2>1. ASSUME NEW j \in 1..MaxIntents, o = PartialId(j)
        PROVE  Sold' = Sold + 1 /\ StopsSold' = StopsSold
    <3>1. \A i \in 1..MaxIntents : i # j => SoldBy(i)' = SoldBy(i)
      <4> TAKE i \in 1..MaxIntents
      <4>1. i # j => PartialId(i) # o /\ PartialId(i) \in SellIds
        BY <2>1, PartialIds
      <4>2. i # j => Same(PartialId(i))
        BY <2>0, <4>1 DEF OthersSame
      <4>3. QED
        BY <4>2 DEF Same, SoldBy, PartialId
    <3>2. SoldBy(j)' = SoldBy(j) + 1
      BY <1>4, <2>1 DEF Sells, SoldBy, PartialId
    <3>3. o \notin WorkingStops /\ o \notin WorkingStops'
      BY <2>1, PartialIds DEF WorkingStops
    <3>4. StopOf[o] = 0 /\ StopOf'[o] = 0
      BY <1>1, <1>2, <3>3
    <3>5. StopsSold' = StopsSold
      BY <1>0, <2>0, <3>4, StopsMove
    <3>6. QED
      BY <3>1, <3>2, <3>5, SoldGrows
  <2>2. ASSUME o[1] # "partial_scale"
        PROVE  Sold' = Sold /\ StopsSold' <= StopsSold + 1
    <3>1. \A i \in 1..MaxIntents : SoldBy(i)' = SoldBy(i)
      <4> TAKE i \in 1..MaxIntents
      <4>1. PartialId(i) # o /\ PartialId(i) \in SellIds
        BY <2>2, PartialIds
      <4>2. Same(PartialId(i))
        BY <2>0, <4>1 DEF OthersSame
      <4>3. QED
        BY <4>2 DEF Same, SoldBy, PartialId
    <3>2. o \in WorkingStops
      BY <2>0, <2>2 DEF WorkingStops
    <3>3. StopOf[o] = orders[o].filled /\ StopOf'[o] \in {0, orders[o].filled + 1}
      BY <1>1, <1>2, <1>4, <3>2 DEF Sells
    <3>4. StopsSold' = StopsSold + StopOf'[o] - StopOf[o]
      BY <2>0, StopsMove
    <3>5. QED
      BY <1>0, <3>1, <3>3, <3>4, SoldUnchanged
  <2>3. Sold' \in Nat /\ StopsSold' \in Nat
    BY TotalsPrimed DEF Totals
  <2>4. (Sold' = Sold + 1 /\ StopsSold' = StopsSold) \/ (Sold' = Sold /\ StopsSold' <= StopsSold + 1)
    BY <2>1, <2>2, PartialIds
  <2>5. (held - 1) + Sold' + StopsSold' <= held + Sold + StopsSold
    BY <1>0, <1>4, <2>3, <2>4, Weaker
  <2>6. QED
    BY <1>4, <2>5
<1>5. ASSUME NEW o \in SellIds, held' = held, OthersSame(o), StopOf'[o] = 0,
             o \notin ActionIds \/ orders'[o].filled = orders[o].filled
      PROVE  held' + Sold' + StopsSold' <= held + Sold + StopsSold
  <2>1. \A i \in 1..MaxIntents : SoldBy(i)' = SoldBy(i)
    <3> TAKE i \in 1..MaxIntents
    <3>1. PartialId(i) \in SellIds /\ PartialId(i) \in ActionIds
      BY PartialIds
    <3>2. orders'[PartialId(i)].filled = orders[PartialId(i)].filled
      BY <1>5, <3>1 DEF OthersSame, Same
    <3>3. QED
      BY <3>2 DEF SoldBy, PartialId
  <2>2. StopsSold' = StopsSold - StopOf[o]
    BY <1>0, <1>5, StopsMove
  <2>3. QED
    BY <1>0, <1>5, <2>1, <2>2, SoldUnchanged
<1>6. ASSUME NEW o \in SellIds, Ends(o), held' = held
      PROVE  held' + Sold' + StopsSold' <= held + Sold + StopsSold
  <2>1. OthersSame(o) /\ orders'[o].filled = orders[o].filled /\ o \notin WorkingStops'
    BY <1>6 DEF Ends, WorkingStops, Working
  <2>2. StopOf'[o] = 0
    BY <1>2, <2>1
  <2>3. QED
    BY <1>5, <1>6, <2>1, <2>2
<1>7. ASSUME NEW o \in SellIds, NEW q, NEW px, NEW a, Placed(o, q, px, a), held' = held,
             o \notin ActionIds \/ orders[o].st = "none"
      PROVE  held' + Sold' + StopsSold' <= held + Sold + StopsSold
  <2>1. OthersSame(o) /\ orders'[o].filled = 0
    BY <1>7 DEF Placed
  <2>2. StopOf'[o] = 0
    BY <1>2, <2>1
  <2>3. o \notin ActionIds \/ orders[o].filled = 0
    BY <1>7 DEF IInv, Amounts
  <2>4. QED
    BY <1>5, <1>7, <2>1, <2>2, <2>3
<1>8. QED
  BY <1>3, <1>4, <1>6, <1>7 DEF OrderMove

\* No answer is lost, one partial at most sold, and no stop died half filled:
\* the states NeverOversold is about.  There is no way back to them.
Good == Answered /\ OnePartial /\ NoBrokenStop

LEMMA GoodBefore ==
    ASSUME IInv, IInv', Conserved, [Next]_vars, Good'
    PROVE  Good
<1>1. OrderMove /\ IntentMove
  BY Moves
<1>2. Answered
  BY <1>1, AnsweredBefore DEF Good
<1>3. NoBrokenStop
  <2>1. Count' <= Count
    BY <1>1, GapStep DEF Count
  <2>2. Count' = Quantity /\ Count \in Nat /\ Count <= Quantity /\ Quantity \in Nat
    BY CompleteHolds, CompletePrimed, Numbers DEF Complete, Good, Conserved
  <2>3. Count = Quantity
    BY ONLY <2>1, <2>2
  <2>4. QED
    BY <2>3, CompleteHolds DEF Complete
<1>4. OnePartial
  <2>1. Sellers \in SUBSET (Sellers')
    <3> SUFFICES ASSUME NEW i \in Sellers PROVE i \in Sellers'
      OBVIOUS
    <3>1. i \in Partials /\ SoldBy(i) > 0
      BY DEF Sellers
    <3>2. i \in Partials' /\ SoldBy(i)' >= SoldBy(i)
      BY <1>1, <3>1, PartialsKept
    <3>3. SoldBy(i) \in Nat /\ SoldBy(i)' \in Nat
      <4>1. i \in 1..MaxIntents
        BY <3>1, PartialFacts DEF IInv
      <4>2. SoldBy(i) \in Nat
        BY <3>1, PartialFacts DEF IInv
      <4>3. SoldBy(i)' = SoldBy(i) \/ SoldBy(i)' = SoldBy(i) + 1
        BY <1>1, <4>1, SoldMove
      <4>4. QED
        BY <4>2, <4>3
    <3>4. QED
      BY <3>1, <3>2, <3>3 DEF Sellers
  <2>2. IsFiniteSet(Sellers')
    <3>1. Partials' \in SUBSET (1..MaxIntents)
      BY TotalsPrimed DEF Totals
    <3>2. Sellers' \in SUBSET (1..MaxIntents)
      BY <3>1 DEF Sellers
    <3>3. IsFiniteSet(1..MaxIntents)
      BY FS_Interval, Numbers
    <3>4. QED
      BY <3>2, <3>3, FS_Subset
  <2>3. IsFiniteSet(Sellers) /\ Cardinality(Sellers) <= Cardinality(Sellers')
    BY <2>1, <2>2, FS_Subset
  <2>4. QED
    BY <2>2, <2>3, FS_CardinalityType DEF Good, OnePartial
<1>5. QED
  BY <1>2, <1>3, <1>4 DEF Good

LEMMA ConservedStep == IInv /\ IInv' /\ Conserved /\ [Next]_vars => Conserved'
<1> SUFFICES ASSUME IInv, IInv', Conserved, [Next]_vars PROVE Conserved'
  OBVIOUS
<1>1. OrderMove
  BY Moves
<1>2. Count' <= Count
  BY <1>1, GapStep DEF Count
<1>3. Count' \in Nat /\ Count \in Nat /\ Count <= Quantity /\ Quantity \in Nat
  BY CompleteHolds, CompletePrimed, Numbers DEF Complete, Conserved
<1>4. Count' <= Quantity
  BY ONLY <1>2, <1>3
<1>5. QED
  BY <1>4 DEF Conserved

-----------------------------------------------------------------------------
(* What a step does to the tracked quantities                              *)

EarlyAt == {"lookup", "bank", "committed", "settle"}
ExactAt == {"bank", "committed", "leg", "residual", "residual2"}

PosMove ==
    \/ pos' = pos
    \/ pos' \in Reconciled
    \/ at # "idle" /\ pos' # NoPosition /\ pos'.qty = upd.qty
    \/ /\ at \in {"residual", "residual2"} /\ Returns
       /\ pos' # NoPosition /\ pos'.qty = upd.qty - intent.qty

Keeps == /\ at # "idle" /\ upd' # NoPosition /\ upd'.qty = upd.qty
         /\ at' \in EarlyAt /\ mode' = "hydrate" => at \in EarlyAt /\ mode = "hydrate"

UpdMove ==
    \/ Returns
    \/ UNCHANGED handler /\ intents' = intents
    \/ /\ at \in {"idle", "settle"}
       /\ pos # NoPosition /\ upd' = pos /\ pos' = pos /\ mode' = "hydrate"
    \/ Keeps /\ mode' # "live"
    \/ Keeps /\ mode = "live" /\ (intents' = intents \/ SomeStatus)
    \/ Keeps /\ \E k \in ActionKinds, q \in 0..Quantity : Added(k, q)

LEMMA CalmQuantities ==
    ASSUME IInv, Calm
    PROVE  PosMove /\ UpdMove
<1> USE DEF IInv, PosMove, UpdMove, Keeps, EarlyAt
<1>0. intents' = intents
  BY CalmMoves
<1>1. at # "idle" => upd \in Tracked /\ upd # NoPosition
  BY UpdFacts
<1>2. mode \in {"hydrate", "retain", "live"}
  BY DEF TypeOK
<1>3. CASE Begin \/ Settle
  BY <1>3 DEF Begin, Settle, Handler
<1>4. CASE LookupFails \/ Bank
  BY <1>0, <1>1, <1>2, <1>4 DEF LookupFails, Bank, Goto, AfterLookup
<1>5. CASE Retain
  BY <1>0, <1>1, <1>2, <1>5 DEF Retain, Goto
<1>6. CASE Defer \/ Hold
  BY <1>6 DEF Defer, Hold
<1>7. CASE CrashRestart \/ Reconcile
  BY <1>0, <1>7 DEF CrashRestart, Reconcile
<1>8. CASE FindsNone
  BY <1>0, <1>1, <1>2, <1>8 DEF FindsNone, Goto
<1>9. ASSUME NEW o \in SellIds, FindsProtection(o) PROVE PosMove /\ UpdMove
  <2>1. PICK px \in {0} \cup Levels : px = orders[o].px
    BY OrderFacts
  <2>2. upd \in Tracked /\ o \in SellIds \cup {NoOrder} /\ px \in {0} \cup Levels
    BY <1>1, <1>9, <2>1 DEF FindsProtection
  <2>3. /\ WithStop(upd, o, px) \in Tracked /\ WithStop(upd, o, px) # NoPosition
        /\ WithStop(upd, o, px).qty = upd.qty
    BY ONLY <2>2, TrackedStop
  <2>4. /\ at = "protect" /\ upd' = WithStop(upd, o, px) /\ (pos' = pos \/ pos' = upd')
        /\ at' \in {"evaluate", "resizing"} /\ mode' = mode
    BY <1>9, <2>1 DEF FindsProtection
  <2>5. upd' # NoPosition /\ upd'.qty = upd.qty
    BY <2>3, <2>4
  <2>6. QED
    BY <1>0, <1>2, <2>4, <2>5
<1>10. ASSUME NEW canceled \in BOOLEAN, ResizeReadback(canceled) PROVE PosMove /\ UpdMove
  <2>1. Naked(upd).qty = upd.qty /\ Naked(upd) # NoPosition /\ upd # NoPosition
    BY <1>1, <1>10, Ids, TrackedStop, Numbers DEF ResizeReadback
  <2>2. /\ at = "resizing" /\ mode' = mode /\ (pos' = pos \/ pos' = upd)
        /\ at' \in {"arm", "evaluate"} /\ (upd' = Naked(upd) \/ upd' = upd)
    BY <1>10 DEF ResizeReadback
  <2>3. QED
    BY <1>0, <1>2, <2>1, <2>2
<1>11. CASE RequestCancel \/ Quarantine \/ RecordLeg
  BY <1>0, <1>1, <1>2, <1>11 DEF RequestCancel, Quarantine, RecordLeg, Goto
<1>12. ASSUME NEW ok \in BOOLEAN, Readback(ok) PROVE PosMove /\ UpdMove
  <2>1. /\ at = "readback" /\ pos' = pos /\ mode' = mode /\ upd' = upd
    BY <1>12 DEF Readback, Goto
  <2>2. mode = "live"
    BY <2>1 DEF Handler, LiveAt
  <2>3. QED
    BY <1>0, <1>1, <2>1, <2>2
<1>13. CASE CommitBreakeven
  <2>1. mode = "live" /\ at = "commit"
    BY <1>13 DEF Handler, LiveAt, CommitBreakeven
  <2>2. QED
    BY <1>0, <1>1, <1>13, <2>1 DEF CommitBreakeven, Goto
<1>14. CASE UNCHANGED vars
  BY <1>14 DEF vars, handler, durable
<1>15. QED
  BY <1>3, <1>4, <1>5, <1>6, <1>7, <1>8, <1>9, <1>10, <1>11, <1>12, <1>13, <1>14 DEF Calm

LEMMA MarksQuantities ==
    ASSUME IInv, Marks
    PROVE  PosMove /\ UpdMove
<1> USE DEF IInv, PosMove, UpdMove, Keeps, EarlyAt
<1>0. intents' = intents \/ SomeStatus
  BY MarksMoves
<1>1. at \in OpenAt /\ at # "idle"
  BY DEF Marks, LookupPartial, LookupBreakeven, Confirm, Bind, RetainReadback, CancelReadback,
         QuarantineReadback, OpenAt
<1>2. upd \in Tracked /\ upd # NoPosition /\ mode \in {"hydrate", "retain", "live"}
  BY <1>1, UpdFacts DEF TypeOK
<1>3. CASE LookupPartial
  BY <1>0, <1>1, <1>2, <1>3 DEF LookupPartial, Goto, AfterLookup
<1>4. CASE LookupBreakeven
  BY <1>0, <1>1, <1>2, <1>4 DEF LookupBreakeven, Goto, AfterLookup
<1>5. CASE Confirm
  <2>1. ActionOrder \in SellIds \cup {NoOrder} /\ Entry \in {0} \cup Levels
    BY <1>1, IntentFacts, Numbers DEF Handler
  <2>2. /\ WithStop(upd, ActionOrder, Entry) # NoPosition
        /\ WithStop(upd, ActionOrder, Entry).qty = upd.qty
    BY ONLY <1>2, <2>1, TrackedStop
  <2>3. /\ at = "committed"
        /\ \/ pos' = WithStop(upd, ActionOrder, Entry) /\ Returns
           \/ pos' = pos /\ Goto(IF mode = "live" THEN "leg" ELSE AfterLookup)
    BY <1>5 DEF Confirm
  <2>4. CASE pos' = WithStop(upd, ActionOrder, Entry) /\ Returns
    BY <2>2, <2>3, <2>4
  <2>5. CASE pos' = pos /\ Goto(IF mode = "live" THEN "leg" ELSE AfterLookup)
    BY <1>0, <1>1, <1>2, <2>3, <2>5 DEF Goto, AfterLookup
  <2>6. QED
    BY <2>3, <2>4, <2>5
<1>6. CASE Bind
  BY <1>0, <1>1, <1>2, <1>6 DEF Bind, Goto, Handler, LiveAt
<1>7. ASSUME NEW canceled \in BOOLEAN, RetainReadback(canceled) PROVE PosMove /\ UpdMove
  BY <1>0, <1>1, <1>2, <1>7 DEF RetainReadback
<1>8. /\ Naked(upd).qty = upd.qty /\ Naked(upd) # NoPosition /\ Naked(upd) \in Tracked
  BY <1>2, Numbers, TrackedStop
<1>9. ASSUME NEW canceled \in BOOLEAN, CancelReadback(canceled) PROVE PosMove /\ UpdMove
  <2>1. /\ at = "canceling" /\ pos' = pos
        /\ Returns \/ (at' = "post" /\ upd' = Naked(upd) /\ intents' = intents /\ mode' = mode)
    BY <1>9 DEF CancelReadback
  <2>2. mode = "live"
    BY <2>1 DEF Handler, LiveAt
  <2>3. QED
    BY <1>8, <2>1, <2>2
<1>10. ASSUME NEW canceled \in BOOLEAN, QuarantineReadback(canceled) PROVE PosMove /\ UpdMove
  <2>1. /\ at = "quarantining"
        /\ \/ Returns /\ pos' = Naked(upd)
           \/ /\ at' = "decide" /\ upd' = [Naked(upd) EXCEPT !.px = prior] /\ mode' = mode
              /\ pos' = pos
    BY <1>10 DEF QuarantineReadback, Fails
  <2>2. mode = "live"
    BY <2>1 DEF Handler, LiveAt
  <2>3. PICK p : p = [Naked(upd) EXCEPT !.px = prior]
    OBVIOUS
  <2>4. p \in Tracked /\ p.qty = upd.qty
    BY <1>8, <2>3 DEF Tracked, TypeOK
  <2>5. p # NoPosition
    BY <2>4, SentinelsAssumption
  <2>6. CASE at' = "decide" /\ upd' = p /\ mode' = mode /\ pos' = pos
    BY <1>0, <2>1, <2>2, <2>4, <2>5, <2>6
  <2>7. CASE Returns /\ pos' = Naked(upd)
    BY <1>1, <1>8, <2>7
  <2>8. QED
    BY <2>1, <2>3, <2>6, <2>7
<1>11. QED
  BY <1>3, <1>4, <1>5, <1>6, <1>7, <1>9, <1>10 DEF Marks

\* What a placed stop makes of the tracker.
LEMMA ArmedPosition ==
    ASSUME IInv, at # "idle", FreshStops # {}, NEW px \in {0} \cup Levels
    PROVE  /\ WithStop(upd, FreshStop, px) \in Tracked /\ WithStop(upd, FreshStop, px) # NoPosition
           /\ WithStop(upd, FreshStop, px).qty = upd.qty
           /\ WithStop(upd, FreshStop, px).stop = FreshStop
           /\ Naked(upd) \in Tracked /\ Naked(upd) # NoPosition
           /\ Naked(upd).qty = upd.qty /\ Naked(upd).stop = NoOrder
<1>1. FreshStop \in SellIds \cup {NoOrder} /\ upd \in Tracked
  BY FreshStopFresh, UpdFacts DEF IInv, Fresh
<1>2. QED
  BY ONLY <1>1, TrackedStop, px \in {0} \cup Levels

LEMMA NakedPosition ==
    ASSUME IInv, at # "idle"
    PROVE  /\ Naked(upd) \in Tracked /\ Naked(upd) # NoPosition
           /\ Naked(upd).qty = upd.qty /\ Naked(upd).stop = NoOrder
<1>1. upd \in Tracked /\ NoOrder \in SellIds \cup {NoOrder} /\ 0 \in {0} \cup Levels
  BY UpdFacts
<1>2. QED
  BY ONLY <1>1, TrackedStop

\* The position a residual stop leaves behind.
LEMMA RestPosition ==
    ASSUME IInv, at \in {"residual", "residual2"}, FreshStops # {}, NEW px \in {0} \cup Levels,
           NEW rest, rest = [upd EXCEPT !.qty = @ - intent.qty]
    PROVE  /\ WithStop(rest, FreshStop, px) # NoPosition /\ Naked(rest) # NoPosition
           /\ WithStop(rest, FreshStop, px).qty = upd.qty - intent.qty
           /\ WithStop(rest, FreshStop, px).stop = FreshStop
           /\ Naked(rest).qty = upd.qty - intent.qty /\ Naked(rest).stop = NoOrder
<1>1. FreshStop \in SellIds \cup {NoOrder} /\ upd \in Tracked
  BY FreshStopFresh, UpdFacts DEF IInv, Fresh
<1>2. upd.qty - intent.qty \in 1..Quantity
  BY SizeFits DEF Size
<1>3. rest \in Tracked /\ rest.qty = upd.qty - intent.qty
  BY <1>1, <1>2 DEF Tracked
<1>4. /\ WithStop(rest, FreshStop, px) # NoPosition /\ Naked(rest) # NoPosition
      /\ WithStop(rest, FreshStop, px).qty = rest.qty
      /\ WithStop(rest, FreshStop, px).stop = FreshStop
      /\ Naked(rest).qty = rest.qty /\ Naked(rest).stop = NoOrder
  BY ONLY <1>1, <1>3, px \in {0} \cup Levels, TrackedStop
<1>5. QED
  BY <1>3, <1>4

\* How the steps that place a stop leave the tracker and the handler.
StopOutcome(outcome) ==
    \/ /\ Restore(outcome) /\ Returns
       /\ \/ outcome = "ack" /\ pos' # NoPosition /\ pos'.qty = upd.qty /\ pos'.stop = FreshStop
          \/ outcome # "ack" /\ pos' = pos
    \/ /\ Arm(outcome) /\ at' = "evaluate" /\ mode' = mode /\ pos' = upd'
       /\ upd' # NoPosition /\ upd'.qty = upd.qty
       /\ upd'.stop = IF outcome = "ack" THEN FreshStop ELSE upd.stop
    \/ /\ Rearm(outcome) /\ Returns
       /\ pos' # NoPosition /\ pos'.qty = upd.qty
       /\ pos'.stop = IF outcome = "ack" THEN FreshStop ELSE NoOrder
    \/ ResidualStop(outcome) /\ outcome # "ack" /\ at = "residual" /\ Goto("residual2") /\ pos' = pos
    \/ /\ ResidualStop(outcome) /\ Returns
       /\ pos' # NoPosition /\ pos'.qty = upd.qty - intent.qty
       /\ pos'.stop = IF outcome = "ack" THEN FreshStop ELSE NoOrder

LEMMA StopOutcomes ==
    ASSUME IInv, NEW outcome \in Outcomes,
           Restore(outcome) \/ Arm(outcome) \/ Rearm(outcome) \/ ResidualStop(outcome)
    PROVE  StopOutcome(outcome)
<1> USE DEF IInv
<1>1. /\ row.stop \in {0} \cup Levels /\ prior \in {0} \cup Levels /\ Base \in {0} \cup Levels
  BY Numbers DEF TypeOK
<1>2. CASE Restore(outcome)
  <2>1. PICK px : /\ px = (IF upd.px # 0 THEN upd.px ELSE row.stop)
                  /\ PlaceStop(upd.qty, px, outcome)
                  /\ pos' = IF outcome = "ack" THEN WithStop(upd, FreshStop, px) ELSE pos
    BY <1>2 DEF Restore
  <2>2. Returns /\ at # "idle" /\ FreshStops # {}
    BY <1>2, <2>1 DEF Restore, PlaceStop
  <2>3. px \in {0} \cup Levels
    BY <1>1, <2>1, <2>2, UpdFacts
  <2>4. /\ WithStop(upd, FreshStop, px) # NoPosition /\ WithStop(upd, FreshStop, px).qty = upd.qty
        /\ WithStop(upd, FreshStop, px).stop = FreshStop
    BY <2>2, <2>3, ArmedPosition
  <2>5. QED
    BY <1>2, <2>1, <2>2, <2>4 DEF StopOutcome
<1>3. CASE Arm(outcome)
  <2>1. /\ at = "arm" /\ FreshStops # {} /\ at' = "evaluate" /\ mode' = mode /\ pos' = upd'
        /\ upd' = IF outcome = "ack" THEN WithStop(upd, FreshStop, Base) ELSE upd
    BY <1>3 DEF Arm, PlaceStop
  <2>2. upd # NoPosition
    BY <2>1, UpdFacts
  <2>3. /\ WithStop(upd, FreshStop, Base) # NoPosition
        /\ WithStop(upd, FreshStop, Base).qty = upd.qty
        /\ WithStop(upd, FreshStop, Base).stop = FreshStop
    BY <1>1, <2>1, ArmedPosition
  <2>4. QED
    BY <1>3, <2>1, <2>2, <2>3 DEF StopOutcome
<1>4. CASE Rearm(outcome)
  <2>1. /\ at = "rearm" /\ Returns
        /\ \/ outcome = "refused" /\ pos' = Naked(upd)
           \/ /\ FreshStops # {}
              /\ pos' = IF outcome = "ack" THEN WithStop(upd, FreshStop, prior) ELSE Naked(upd)
    BY <1>4 DEF Rearm, PlaceStop
  <2>2. /\ Naked(upd) # NoPosition /\ Naked(upd).qty = upd.qty /\ Naked(upd).stop = NoOrder
    BY <2>1, NakedPosition
  <2>3. FreshStops # {} =>
           /\ WithStop(upd, FreshStop, prior) # NoPosition
           /\ WithStop(upd, FreshStop, prior).qty = upd.qty
           /\ WithStop(upd, FreshStop, prior).stop = FreshStop
    BY <1>1, <2>1, ArmedPosition
  <2>4. QED
    BY <1>4, <2>1, <2>2, <2>3 DEF StopOutcome
<1>5. CASE ResidualStop(outcome)
  <2>1. PICK rest, px :
           /\ rest = [upd EXCEPT !.qty = @ - intent.qty]
           /\ px = (IF prior # 0 THEN prior ELSE Base)
           /\ PlaceStop(rest.qty, px, outcome)
           /\ \/ outcome # "ack" /\ at = "residual" /\ Goto("residual2") /\ pos' = pos
              \/ /\ pos' = IF outcome = "ack" THEN WithStop(rest, FreshStop, px) ELSE Naked(rest)
                 /\ Returns
    BY <1>5 DEF ResidualStop
  <2>2. at \in {"residual", "residual2"} /\ FreshStops # {} /\ px \in {0} \cup Levels
    BY <1>1, <1>5, <2>1 DEF ResidualStop, PlaceStop
  <2>3. rest = [upd EXCEPT !.qty = @ - intent.qty]
    BY <2>1
  <2>4. /\ WithStop(rest, FreshStop, px) # NoPosition /\ Naked(rest) # NoPosition
        /\ WithStop(rest, FreshStop, px).qty = upd.qty - intent.qty
        /\ WithStop(rest, FreshStop, px).stop = FreshStop
        /\ Naked(rest).qty = upd.qty - intent.qty /\ Naked(rest).stop = NoOrder
    BY <2>2, <2>3, RestPosition
  <2>5. CASE outcome # "ack" /\ at = "residual" /\ Goto("residual2") /\ pos' = pos
    BY <1>5, <2>5 DEF StopOutcome
  <2>6. CASE /\ pos' = IF outcome = "ack" THEN WithStop(rest, FreshStop, px) ELSE Naked(rest)
             /\ Returns
    BY <1>5, <2>4, <2>6 DEF StopOutcome
  <2>7. QED
    BY <2>1, <2>5, <2>6
<1>6. QED
  BY <1>2, <1>3, <1>4, <1>5

\* The same of a POST of the open action's order.
PostOutcome(outcome) ==
    \/ outcome = "ack" /\ Goto("bind") /\ intents' = intents /\ pos' = pos
    \/ outcome # "ack" /\ IsPartial /\ Goto("rearm") /\ Status("failed", "live") /\ pos' = pos
    \/ /\ outcome # "ack" /\ ~IsPartial /\ at = "post" /\ Goto("repost")
       /\ intents' = intents /\ pos' = pos
    \/ /\ outcome # "ack" /\ ~IsPartial /\ at = "repost" /\ Returns /\ Status("failed", "live")
       /\ pos' # NoPosition /\ pos'.qty = upd.qty /\ pos'.stop = NoOrder

LEMMA PostOutcomes ==
    ASSUME IInv, NEW outcome \in Outcomes, PostPartial(outcome) \/ PostBreakeven(outcome)
    PROVE  PostOutcome(outcome)
<1>1. at \in {"post", "repost"}
  BY PostMoves
<1>2. Naked(upd) # NoPosition /\ Naked(upd).qty = upd.qty /\ Naked(upd).stop = NoOrder
  BY <1>1, NakedPosition
<1>3. Fails => Status("failed", "live")
  BY <1>1, FailsMoves DEF OpenAt
<1>4. CASE PostPartial(outcome)
  BY <1>3, <1>4 DEF PostPartial, PostOutcome
<1>5. CASE PostBreakeven(outcome)
  BY <1>1, <1>2, <1>3, <1>5 DEF PostBreakeven, PostOutcome
<1>6. QED
  BY <1>4, <1>5

LEMMA Quantities == IInv /\ [Next]_vars => PosMove /\ UpdMove
<1> SUFFICES ASSUME IInv, [Next]_vars PROVE PosMove /\ UpdMove
  OBVIOUS
<1>1. CASE Decides
  <2>1. at = "evaluate" /\ pos' = pos
    BY <1>1 DEF Decides, Target1, StopToBreakeven
  <2>2. upd # NoPosition
    BY <2>1, UpdFacts
  <2>3. Returns \/ \E k \in ActionKinds, q \in 0..Quantity : Prepared(k, q) /\ Starts
    <3>1. 0 \in 0..Quantity /\ \A q \in 1..Quantity : q \in 0..Quantity
      BY Numbers
    <3>2. QED
      BY <1>1, <3>1 DEF Decides, Target1, StopToBreakeven, ActionKinds
  <2>4. ASSUME NEW k \in ActionKinds, NEW q \in 0..Quantity, Prepared(k, q), Starts
        PROVE  PosMove /\ UpdMove
    <3>1. Added(k, q)
      BY <2>4, PreparedAdds DEF IInv
    <3>2. upd' = upd /\ at' \in {"post", "cancel"}
      BY <2>4 DEF Starts
    <3>3. Keeps
      BY <2>1, <2>2, <3>2 DEF Keeps, EarlyAt
    <3>4. QED
      BY <2>1, <3>1, <3>3 DEF PosMove, UpdMove
  <2>5. QED
    BY <2>1, <2>3, <2>4 DEF PosMove, UpdMove
<1>2. CASE Stops
  <2>1. PICK outcome \in Outcomes :
           Restore(outcome) \/ Arm(outcome) \/ Rearm(outcome) \/ ResidualStop(outcome)
    BY <1>2 DEF Stops
  <2>2. StopOutcome(outcome)
    BY <2>1, StopOutcomes
  <2>3. intents' = intents /\ at \in {"decide", "arm", "rearm", "residual", "residual2"}
    BY <1>2, StopsMoves
  <2>4. at # "idle" /\ upd # NoPosition
    BY <2>3, UpdFacts
  <2>5. (at = "residual" => mode = "live") /\ (at = "arm" => mode = "hydrate")
    BY DEF IInv, Handler, LiveAt, LadderAt
  <2>6. Arm(outcome) => at = "arm"
    BY DEF Arm
  <2>7. ResidualStop(outcome) => at \in {"residual", "residual2"}
    BY DEF ResidualStop
  <2>8. QED
    BY <2>2, <2>3, <2>4, <2>5, <2>6, <2>7 DEF StopOutcome, PosMove, UpdMove, Keeps, EarlyAt, Goto
<1>3. CASE Posts
  <2>1. PICK outcome \in Outcomes : PostPartial(outcome) \/ PostBreakeven(outcome)
    BY <1>3 DEF Posts
  <2>2. PostOutcome(outcome)
    BY <2>1, PostOutcomes
  <2>3. at \in {"post", "repost"}
    BY <2>1, PostMoves
  <2>4. upd # NoPosition /\ mode = "live"
    BY <2>3, UpdFacts DEF IInv, Handler, LiveAt
  <2>5. Status("failed", "live") => SomeStatus
    BY DEF SomeStatus
  <2>6. QED
    BY <2>2, <2>3, <2>4, <2>5 DEF PostOutcome, PosMove, UpdMove, Keeps, EarlyAt, Goto
<1>4. CASE Trades
  BY <1>4 DEF Trades, Fill, Dies, PosMove, UpdMove, durable
<1>5. QED
  BY <1>1, <1>2, <1>3, <1>4, Steps, CalmQuantities, MarksQuantities

-----------------------------------------------------------------------------
(* The tracked quantities are never below the account's                    *)

\* What the newest action's partial sold.
SoldLast == SoldBy(last)

\* The tracker and the handler lag behind the broker, and the handler of a
\* live action knows the quantity from before its partial.
Enough ==
    /\ pos # NoPosition => pos.qty >= held
    /\ at # "idle" => upd.qty >= held
    /\ mode = "live" => upd.qty >= held + SoldLast
    /\ at \in EarlyAt /\ mode = "hydrate" /\ pos # NoPosition => pos.qty <= upd.qty

\* A live partial goes on only with its exact fill, a breakeven stop only if
\* the row accepts it, and what is cancelled to restore protection is a partial.
Exact ==
    /\ mode = "live" /\ at \in ExactAt /\ IsPartial =>
          Terminal(ActionOrder) /\ orders[ActionOrder].filled = intent.qty
    /\ at = "committed" /\ ~IsPartial => BreakevenAccepted
    /\ mode = "retain" => intents # <<>> /\ IsPartial

LEMMA SoldLastFacts ==
    ASSUME IInv, intents # <<>>
    PROVE  /\ SoldLast \in Nat
           /\ orders[ActionOrder].st = "none" => SoldLast = 0
           /\ IsPartial => SoldLast = orders[ActionOrder].filled
           /\ ~IsPartial => SoldLast = 0
<1> USE DEF IInv
<1>1. /\ last \in 1..MaxIntents /\ PartialId(last) \in SellIds /\ SoldLast = SoldBy(last)
      /\ intent = intents[last] /\ intent.kind \in ActionKinds
  BY IntentFacts, PartialIds DEF SoldLast
<1>2. SoldLast \in Nat
  BY <1>1, OrderFacts DEF SoldBy, PartialId
<1>3. CASE IsPartial
  <2>1. ActionOrder = PartialId(last)
    BY <1>3, LastPartial
  <2>2. SoldLast = orders[ActionOrder].filled
    BY <1>1, <2>1 DEF SoldBy, PartialId
  <2>3. orders[ActionOrder].st = "none" => orders[ActionOrder].filled = 0
    BY <1>1, <2>1 DEF Amounts
  <2>4. QED
    BY <1>2, <1>3, <2>2, <2>3
<1>4. CASE ~IsPartial
  <2>1. last \notin Partials
    BY <1>1, <1>4 DEF Partials, IsPartial
  <2>2. SoldBy(last) = 0
    BY <1>1, <2>1, NotPartial
  <2>3. QED
    BY <1>1, <1>4, <2>2
<1>5. QED
  BY <1>3, <1>4

\* Contracts that the last partial sells leave the account.
LEMMA SoldLastMove ==
    ASSUME IInv, IInv', OrderMove, intents # <<>>, last' = last
    PROVE  /\ SoldLast' \in Nat /\ SoldLast \in Nat /\ held \in Nat /\ held' \in Nat
           /\ held' + SoldLast' <= held + SoldLast
<1>1. PICK n \in 1..MaxIntents : n = last
  BY IntentFacts DEF IInv
<1>2. SoldLast = SoldBy(n) /\ SoldLast' = SoldBy(n)'
  BY <1>1 DEF SoldLast
<1>3. /\ SoldLast \in Nat /\ held \in Nat /\ held' \in Nat
  BY SoldLastFacts, SumsFacts, TotalsPrimed DEF Totals
<1>4. held' = held \/ held' = held - 1
  BY DEF OrderMove
<1>5. SoldBy(n)' = SoldBy(n) \/ (held' = held - 1 /\ SoldBy(n)' = SoldBy(n) + 1)
  BY <1>1, SoldMove
<1>6. QED
  BY <1>2, <1>3, <1>4, <1>5

LEMMA AddedSold ==
    ASSUME IInv, IInv', NEW k \in ActionKinds, NEW q \in 0..Quantity, Added(k, q), Quiet
    PROVE  SoldLast' = 0
<1> USE DEF IInv
<1>1. last \in Nat /\ last + 1 \in 1..MaxIntents /\ DOMAIN intents = 1..last /\ last' = last + 1
  <2>1. last \in Nat /\ DOMAIN intents = 1..last
    BY LenProperties DEF TypeOK, last
  <2>2. QED
    BY <2>1, Numbers DEF Added, last
<1>2. last + 1 \notin Partials
  BY <1>1 DEF Partials
<1>3. SoldBy(last + 1) = 0 /\ PartialId(last + 1) \in SellIds
  BY <1>1, <1>2, NotPartial, PartialIds
<1>4. orders'[PartialId(last + 1)].filled = 0
  BY <1>3 DEF Quiet, Same, SoldBy, PartialId
<1>5. QED
  BY <1>1, <1>4 DEF SoldLast, SoldBy, PartialId

\* Only the ladder's decision adds an action, and it leaves the broker alone.
LEMMA AddedQuiet ==
    ASSUME IInv, [Next]_vars, NEW k \in ActionKinds, NEW q \in 0..Quantity, Added(k, q)
    PROVE  Quiet /\ Decides
<1>1. last \in Nat /\ Len(intents') = last + 1
  BY LenProperties DEF IInv, TypeOK, last, Added
<1>2. intents' # intents /\ ~SomeStatus
  BY <1>1 DEF last, SomeStatus, Status, Marked
<1>3. Calm => intents' = intents
  BY CalmMoves
<1>4. Marks => intents' = intents \/ SomeStatus
  BY MarksMoves
<1>5. Stops => intents' = intents
  BY StopsMoves
<1>6. Posts => intents' = intents \/ SomeStatus
  BY PostMoves DEF Posts, SomeStatus
<1>7. Trades => intents' = intents
  BY DEF Trades, Fill, Dies, durable
<1>8. Decides
  BY <1>2, <1>3, <1>4, <1>5, <1>6, <1>7, Steps
<1>9. QED
  BY <1>8, DecidesMoves

LEMMA EnoughStep == IInv /\ IInv' /\ Enough /\ Exact /\ [Next]_vars => Enough'
<1> SUFFICES ASSUME IInv, IInv', Enough, Exact, [Next]_vars PROVE Enough'
  OBVIOUS
<1> USE DEF EarlyAt
<1>1. OrderMove /\ IntentMove /\ PosMove /\ UpdMove
  BY Moves, Quantities
<1>2. held \in Nat /\ held' \in Nat /\ held' <= held
  <2>1. held \in Nat /\ held' \in Nat
    BY SumsFacts, TotalsPrimed DEF Totals
  <2>2. QED
    BY <1>1, <2>1 DEF OrderMove
<1>3. /\ pos # NoPosition => pos.qty \in Nat
      /\ at # "idle" => upd.qty \in Nat /\ upd # NoPosition
  <2>1. pos # NoPosition => pos \in Tracked
    BY DEF IInv, TypeOK
  <2>2. QED
    BY <2>1, UpdFacts, Numbers DEF Tracked
<1>4. mode = "live" => at # "idle" /\ intents # <<>>
  BY DEF IInv, Handler
<1>5. mode = "live" /\ last' = last =>
         /\ SoldLast \in Nat /\ SoldLast' \in Nat /\ held' + SoldLast' <= held + SoldLast
  BY <1>1, <1>4, SoldLastMove
<1>6. intents' = intents \/ SomeStatus => last' = last
  BY DEF SomeStatus, Status, Marked, last
<1>7. ASSUME pos' # NoPosition PROVE pos'.qty >= held'
  <2>1. CASE pos' = pos
    BY <1>2, <1>3, <1>7, <2>1 DEF Enough
  <2>2. CASE pos' \in Reconciled
    <3>1. pos'.qty = held
      BY <1>7, <2>2, ReconciledFacts DEF IInv
    <3>2. QED
      BY <1>2, <3>1
  <2>3. CASE at # "idle" /\ pos' # NoPosition /\ pos'.qty = upd.qty
    BY <1>2, <1>3, <2>3 DEF Enough
  <2>4. CASE at \in {"residual", "residual2"} /\ pos'.qty = upd.qty - intent.qty
    <3>1. mode = "live" /\ IsPartial /\ intents # <<>> /\ at # "idle"
      BY <2>4 DEF IInv, Handler, LiveAt, PartialAt
    <3>2. orders[ActionOrder].filled = intent.qty
      BY <2>4, <3>1 DEF Exact, ExactAt
    <3>3. SoldLast = intent.qty /\ SoldLast \in Nat
      BY <3>1, <3>2, SoldLastFacts
    <3>4. upd.qty >= held + SoldLast /\ upd.qty \in Nat
      BY <1>3, <3>1 DEF Enough
    <3>5. upd.qty - SoldLast >= held'
      BY <1>2, <3>3, <3>4
    <3>6. QED
      BY <2>4, <3>3, <3>5
  <2>5. QED
    BY <1>1, <1>7, <2>1, <2>2, <2>3, <2>4 DEF PosMove
<1>8. ASSUME Keeps PROVE at # "idle" /\ upd'.qty = upd.qty /\ upd'.qty >= held' /\ upd'.qty \in Nat
  BY <1>2, <1>3, <1>8 DEF Keeps, Enough
<1>9. ASSUME at' # "idle" PROVE upd'.qty >= held'
  <2>1. CASE UNCHANGED handler
    BY <1>2, <1>3, <1>9, <2>1 DEF Enough, handler
  <2>2. CASE pos # NoPosition /\ upd' = pos
    BY <1>2, <1>3, <2>2 DEF Enough
  <2>3. QED
    BY <1>1, <1>8, <1>9, <2>1, <2>2 DEF UpdMove, Returns
<1>10. ASSUME mode' = "live" PROVE upd'.qty >= held' + SoldLast'
  <2>1. ASSUME mode = "live", last' = last, upd'.qty = upd.qty PROVE upd'.qty >= held' + SoldLast'
    <3>1. upd.qty >= held + SoldLast /\ upd.qty \in Nat
      BY <1>3, <1>4, <2>1 DEF Enough
    <3>2. QED
      BY <1>2, <1>5, <2>1, <3>1
  <2>2. CASE UNCHANGED handler /\ intents' = intents
    <3>1. mode = "live" /\ upd' = upd
      BY <1>10, <2>2 DEF handler
    <3>2. QED
      BY <1>6, <2>1, <2>2, <3>1
  <2>3. CASE Keeps /\ mode = "live" /\ (intents' = intents \/ SomeStatus)
    BY <1>6, <1>8, <2>1, <2>3
  <2>4. ASSUME Keeps, NEW k \in ActionKinds, NEW q \in 0..Quantity, Added(k, q)
        PROVE  upd'.qty >= held' + SoldLast'
    <3>1. Quiet
      BY <2>4, AddedQuiet
    <3>2. SoldLast' = 0
      BY <2>4, <3>1, AddedSold
    <3>3. QED
      BY <1>2, <1>8, <2>4, <3>2
  <2>5. QED
    BY <1>1, <1>10, <2>2, <2>3, <2>4 DEF UpdMove, Returns
<1>11. ASSUME at' \in EarlyAt, mode' = "hydrate", pos' # NoPosition PROVE pos'.qty <= upd'.qty
  <2>1. CASE UNCHANGED handler \/ Keeps
    <3>1. /\ at \in EarlyAt /\ mode = "hydrate" /\ upd'.qty = upd.qty /\ upd.qty \in Nat
          /\ at # "idle"
      BY <1>3, <1>11, <2>1 DEF handler, Keeps
    <3>2. CASE pos' = pos
      BY <1>11, <3>1, <3>2 DEF Enough
    <3>3. CASE pos' \in Reconciled
      <4>1. pos'.qty = held
        BY <1>11, <3>3, ReconciledFacts DEF IInv
      <4>2. QED
        BY <3>1, <4>1 DEF Enough
    <3>4. QED
      BY <1>1, <3>1, <3>2, <3>3 DEF PosMove
  <2>2. CASE upd' = pos /\ pos' = pos /\ pos # NoPosition
    BY <1>3, <2>2
  <2>3. QED
    BY <1>1, <1>11, <2>1, <2>2 DEF UpdMove, Returns
<1>12. QED
  BY <1>7, <1>9, <1>10, <1>11 DEF Enough

LEMMA BreakevenRowAccepted == IInv /\ row' = BreakevenRow => BreakevenAccepted'
<1> SUFFICES ASSUME IInv, row' = BreakevenRow PROVE BreakevenAccepted'
  OBVIOUS
<1>1. row \in [banked : 0..Quantity, be : BOOLEAN, stop : Levels]
  BY DEF IInv, TypeOK
<1>2. BreakevenRow.stop = Entry
  BY <1>1 DEF BreakevenRow
<1>3. QED
  BY <1>2, Numbers DEF BreakevenAccepted, Entry

LEMMA CalmExact ==
    ASSUME IInv, Exact, Calm
    PROVE  Exact'
<1> USE DEF IInv
<1>0. Quiet /\ intents' = intents
  BY CalmMoves
<1>1. /\ intent' = intent /\ ActionOrder' = ActionOrder /\ (IsPartial' <=> IsPartial)
  BY <1>0, IntentsStay
<1>2. intents # <<>> => /\ orders'[ActionOrder].st = orders[ActionOrder].st
                        /\ orders'[ActionOrder].filled = orders[ActionOrder].filled
  BY <1>0, IntentFacts DEF Quiet, Same
<1>3. mode = "live" \/ at = "bank" => intents # <<>>
  BY DEF Handler, PartialAt
<1>4. row'.stop = row.stop => (BreakevenAccepted' <=> BreakevenAccepted)
  BY DEF BreakevenAccepted
<1>5. ASSUME row'.stop = row.stop, mode' = mode, at' \in ExactAt \cup {"committed"} => at' = at
      PROVE  Exact'
  BY <1>0, <1>1, <1>2, <1>3, <1>4, <1>5 DEF Exact, Terminal, ExactAt
<1>6. ASSUME Returns PROVE Exact'
  BY <1>6 DEF Exact, Returns, ExactAt
<1>7. CASE Begin \/ Settle
  <2>1. Returns \/ (row' = row /\ mode' = mode /\ at' \notin ExactAt \cup {"committed"})
    BY <1>7 DEF Begin, Settle, ExactAt, durable
  <2>2. QED
    BY <1>5, <1>6, <2>1
<1>8. CASE LookupFails
  <2>1. row' = row /\ mode' = mode /\ at' \notin ExactAt \cup {"committed"}
    BY <1>8 DEF LookupFails, Goto, AfterLookup, ExactAt, durable
  <2>2. QED
    BY <1>5, <2>1
<1>9. CASE Bank
  <2>1. at = "bank" /\ at' = "committed" /\ mode' = mode /\ IsPartial
    BY <1>9 DEF Bank, Goto, Handler, PartialAt
  <2>2. QED
    BY <1>0, <1>1, <1>2, <1>3, <2>1 DEF Exact, Terminal, ExactAt
<1>10. CASE Retain
  <2>1. Returns \/ (row' = row /\ mode' = mode /\ at' \notin ExactAt \cup {"committed"})
    BY <1>10 DEF Retain, Goto, ExactAt, durable
  <2>2. QED
    BY <1>5, <1>6, <2>1
<1>11. CASE Defer \/ Hold \/ CrashRestart
  BY <1>6, <1>11 DEF Defer, Hold, CrashRestart
<1>12. CASE FindsNone \/ RequestCancel \/ Quarantine
  <2>1. row' = row /\ mode' = mode /\ at' \notin ExactAt \cup {"committed"}
    BY <1>12 DEF FindsNone, RequestCancel, Quarantine, Goto, ExactAt, durable
  <2>2. QED
    BY <1>5, <2>1
<1>13. ASSUME NEW o \in SellIds, FindsProtection(o) PROVE Exact'
  <2>1. row' = row /\ mode' = mode /\ at' \notin ExactAt \cup {"committed"}
    BY <1>13 DEF FindsProtection, ExactAt, durable
  <2>2. QED
    BY <1>5, <2>1
<1>14. ASSUME NEW canceled \in BOOLEAN, ResizeReadback(canceled) PROVE Exact'
  <2>1. row' = row /\ mode' = mode /\ at' \notin ExactAt \cup {"committed"}
    BY <1>14 DEF ResizeReadback, ExactAt, durable
  <2>2. QED
    BY <1>5, <2>1
<1>15. ASSUME NEW ok \in BOOLEAN, Readback(ok) PROVE Exact'
  <2>1. /\ at = "readback" /\ mode' = mode /\ row' = row
        /\ \/ at' = "quarantine"
           \/ at' = "bank" /\ Terminal(ActionOrder) /\ orders[ActionOrder].filled = intent.qty
    BY <1>15 DEF Readback, Goto, durable
  <2>2. mode = "live" /\ IsPartial /\ intents # <<>>
    BY <2>1 DEF Handler, LiveAt, PartialAt
  <2>3. QED
    BY <1>0, <1>1, <1>2, <2>1, <2>2 DEF Exact, Terminal, ExactAt
<1>16. CASE RecordLeg
  <2>1. at = "leg" /\ at' = "residual" /\ mode' = mode
    BY <1>16 DEF RecordLeg, Goto
  <2>2. mode = "live" /\ IsPartial /\ intents # <<>>
    BY <2>1 DEF Handler, LiveAt, PartialAt
  <2>3. QED
    BY <1>0, <1>1, <1>2, <2>1, <2>2 DEF Exact, Terminal, ExactAt
<1>17. CASE CommitBreakeven
  <2>1. at = "commit" /\ ~IsPartial
    BY <1>17 DEF CommitBreakeven, Handler
  <2>2. \/ Returns
        \/ BreakevenAccepted /\ row' = BreakevenRow /\ at' = "committed" /\ mode' = mode
    BY <1>17 DEF CommitBreakeven, Goto
  <2>3. row' = BreakevenRow => BreakevenAccepted'
    BY BreakevenRowAccepted
  <2>4. mode = "live"
    BY <2>1 DEF Handler, LiveAt
  <2>5. QED
    BY <1>1, <1>6, <2>1, <2>2, <2>3, <2>4 DEF Exact
<1>18. CASE Reconcile \/ UNCHANGED vars
  <2>1. row' = row /\ mode' = mode /\ at' = at
    BY <1>18 DEF Reconcile, vars, handler, durable
  <2>2. QED
    BY <1>5, <2>1
<1>19. QED
  BY <1>7, <1>8, <1>9, <1>10, <1>11, <1>12, <1>13, <1>14, <1>15, <1>16, <1>17, <1>18 DEF Calm

LEMMA MarksExact ==
    ASSUME IInv, Exact, Marks
    PROVE  Exact'
<1> USE DEF IInv
<1>0. orders' = orders
  BY DEF Marks, LookupPartial, LookupBreakeven, Confirm, Bind, RetainReadback, CancelReadback,
         QuarantineReadback, broker
<1>1. at \in OpenAt /\ intents # <<>>
  <2>1. at \in OpenAt
    BY DEF Marks, LookupPartial, LookupBreakeven, Confirm, Bind, RetainReadback, CancelReadback,
           QuarantineReadback, OpenAt
  <2>2. QED
    BY <2>1 DEF Handler
<1>2. /\ intents' # <<>> /\ ActionOrder' = ActionOrder /\ (IsPartial' <=> IsPartial)
      /\ intent'.qty = intent.qty
  <2>1. intents' = intents \/ SomeStatus
    BY MarksMoves
  <2>2. SomeStatus => /\ intents' # <<>> /\ ActionOrder' = ActionOrder /\ (IsPartial' <=> IsPartial)
                      /\ intent'.qty = intent.qty
    BY DEF SomeStatus, Status, Marked
  <2>3. QED
    BY <1>1, <2>1, <2>2, IntentsStay
<1>3. ASSUME Returns PROVE Exact'
  BY <1>3 DEF Exact, Returns, ExactAt
<1>4. ASSUME mode' = mode, at' \notin ExactAt \cup {"committed"} PROVE Exact'
  BY <1>1, <1>2, <1>4 DEF Exact
<1>5. CASE LookupPartial
  <2>1. IsPartial /\ mode' = mode /\ mode # "live"
    BY <1>5 DEF LookupPartial, Goto, Handler
  <2>2. QED
    BY <1>1, <1>2, <2>1 DEF Exact
<1>6. CASE LookupBreakeven
  <2>1. /\ at = "lookup" /\ ~IsPartial /\ mode # "live"
        /\ \/ Returns
           \/ row' = BreakevenRow /\ at' = "committed" /\ mode' = mode
           \/ at' \in {"decide", "settle"} /\ mode' = mode
    BY <1>6 DEF LookupBreakeven, Goto, AfterLookup, Handler
  <2>2. CASE row' = BreakevenRow /\ at' = "committed" /\ mode' = mode
    BY <1>1, <1>2, <2>1, <2>2, BreakevenRowAccepted DEF Exact
  <2>3. QED
    BY <1>3, <1>4, <2>1, <2>2 DEF ExactAt
<1>7. CASE Confirm
  <2>1. /\ at = "committed"
        /\ \/ Returns
           \/ mode = "live" /\ IsPartial /\ at' = "leg" /\ mode' = mode
           \/ mode # "live" /\ at' \in {"decide", "settle"} /\ mode' = mode
    BY <1>7 DEF Confirm, Goto, AfterLookup
  <2>2. CASE mode = "live" /\ IsPartial /\ at' = "leg" /\ mode' = mode
    BY <1>0, <1>1, <1>2, <2>1, <2>2 DEF Exact, ExactAt, Terminal
  <2>3. QED
    BY <1>3, <1>4, <2>1, <2>2 DEF ExactAt
<1>8. CASE Bind
  BY <1>4, <1>8 DEF Bind, Goto, ExactAt
<1>9. ASSUME NEW canceled \in BOOLEAN, RetainReadback(canceled) PROVE Exact'
  <2>1. at = "retaining" /\ at' \in {"decide", "lookup"} /\ IsPartial /\ mode' = "retain"
    BY <1>9 DEF RetainReadback, Handler, PartialAt
  <2>2. QED
    BY <1>2, <2>1 DEF Exact
<1>10. ASSUME NEW canceled \in BOOLEAN, CancelReadback(canceled) PROVE Exact'
  BY <1>3, <1>4, <1>10 DEF CancelReadback, ExactAt
<1>11. ASSUME NEW canceled \in BOOLEAN, QuarantineReadback(canceled) PROVE Exact'
  BY <1>3, <1>4, <1>11 DEF QuarantineReadback, ExactAt
<1>12. QED
  BY <1>5, <1>6, <1>7, <1>8, <1>9, <1>10, <1>11 DEF Marks

LEMMA ExactStep == IInv /\ Exact /\ [Next]_vars => Exact'
<1> SUFFICES ASSUME IInv, Exact, [Next]_vars PROVE Exact'
  OBVIOUS
<1>1. ASSUME Returns PROVE Exact'
  BY <1>1 DEF Exact, Returns, ExactAt
<1>2. CASE Decides
  <2>1. Returns \/ (mode' = "live" /\ at' \in {"post", "cancel"})
    BY <1>2 DEF Decides, Target1, StopToBreakeven, Starts
  <2>2. QED
    BY <1>1, <2>1 DEF Exact, ExactAt
<1>3. CASE Stops
  <2>1. PICK outcome \in Outcomes :
           Restore(outcome) \/ Arm(outcome) \/ Rearm(outcome) \/ ResidualStop(outcome)
    BY <1>3 DEF Stops
  <2>2. /\ intents' = intents /\ NewStop(Size)
    BY <1>3, StopsMoves
  <2>3. Returns \/ (at = "arm" /\ at' = "evaluate" /\ mode' = mode)
                \/ (at = "residual" /\ at' = "residual2" /\ mode' = mode)
    BY <2>1 DEF Restore, Arm, Rearm, ResidualStop, Goto
  <2>4. CASE at = "arm" /\ at' = "evaluate" /\ mode' = mode
    BY <2>4 DEF Exact, IInv, Handler, LadderAt, ExactAt
  <2>5. CASE at = "residual" /\ at' = "residual2" /\ mode' = mode
    <3>1. mode = "live" /\ IsPartial /\ intents # <<>>
      BY <2>5 DEF IInv, Handler, LiveAt, PartialAt
    <3>2. ActionOrder \in ActionIds /\ ActionOrder \in SellIds
      BY <3>1, IntentFacts DEF IInv
    <3>3. Same(ActionOrder)
      BY <2>2, <3>2 DEF NewStop, Quiet, Fresh, Placed, OthersSame
    <3>4. intent' = intent /\ ActionOrder' = ActionOrder /\ (IsPartial' <=> IsPartial)
      BY <2>2, IntentsStay
    <3>5. QED
      BY <2>2, <2>5, <3>1, <3>3, <3>4 DEF Exact, ExactAt, Terminal, Same
  <2>6. QED
    BY <1>1, <2>3, <2>4, <2>5
<1>4. CASE Posts
  <2>1. PICK outcome \in Outcomes : PostPartial(outcome) \/ PostBreakeven(outcome)
    BY <1>4 DEF Posts
  <2>2. Returns \/ (mode' = mode /\ at' \in {"bind", "rearm", "repost"})
    BY <2>1 DEF PostPartial, PostBreakeven, Goto
  <2>3. mode = "live"
    BY <2>1, PostMoves DEF IInv, Handler, LiveAt
  <2>4. QED
    BY <1>1, <2>2, <2>3 DEF Exact, ExactAt
<1>5. CASE Trades
  <2>1. row' = row /\ mode' = mode /\ at' = at /\ intents' = intents
    BY <1>5 DEF Trades, Fill, Dies, handler, durable
  <2>2. intent' = intent /\ ActionOrder' = ActionOrder /\ (IsPartial' <=> IsPartial)
    BY <2>1, IntentsStay
  <2>3. mode = "live" => ActionOrder \in ActionIds
    BY IntentFacts DEF IInv, Handler
  <2>4. mode = "live" /\ Terminal(ActionOrder) =>
           Terminal(ActionOrder)' /\ orders'[ActionOrder].filled = orders[ActionOrder].filled
    BY <2>2, <2>3, Moves, ActionOrderMove DEF Terminal
  <2>5. BreakevenAccepted' <=> BreakevenAccepted
    BY <2>1 DEF BreakevenAccepted
  <2>6. QED
    BY <2>1, <2>2, <2>4, <2>5 DEF Exact
<1>6. QED
  BY <1>2, <1>3, <1>4, <1>5, Steps, CalmExact, MarksExact

\* A live handler that restores protection has cancelled its partial.
Quarantined == at = "decide" /\ mode = "live" => IsPartial

LEMMA QuarantinedStep == IInv /\ Quarantined /\ [Next]_vars => Quarantined'
<1> SUFFICES ASSUME IInv, Quarantined, [Next]_vars, at' = "decide", mode' = "live"
             PROVE  IsPartial'
  BY DEF Quarantined
<1>0. ~Returns
  BY DEF Returns
<1>1. CASE Calm
  <2>1. intents' = intents
    BY <1>1, CalmMoves
  <2>2. CASE Begin \/ LookupFails \/ Bank \/ Settle \/ Defer \/ FindsNone
    BY <1>0, <2>2 DEF Begin, LookupFails, Bank, Settle, Defer, FindsNone, Goto, AfterLookup
  <2>3. CASE Retain
    BY <1>0, <2>3 DEF Retain, Goto, IInv, Handler
  <2>4. CASE \E o \in SellIds : FindsProtection(o)
    BY <2>4 DEF FindsProtection
  <2>5. CASE \E canceled \in BOOLEAN : ResizeReadback(canceled)
    BY <2>5 DEF ResizeReadback
  <2>6. CASE Hold \/ RequestCancel \/ (\E ok \in BOOLEAN : Readback(ok))
    BY <1>0, <2>6 DEF Hold, RequestCancel, Readback, Goto
  <2>7. CASE Quarantine \/ RecordLeg \/ CommitBreakeven
    BY <1>0, <2>7 DEF Quarantine, RecordLeg, CommitBreakeven, Goto
  <2>8. CASE Reconcile \/ UNCHANGED vars
    BY <2>1, <2>8, IntentsStay DEF Quarantined, Reconcile, vars, handler
  <2>9. CASE CrashRestart
    BY <1>0, <2>9 DEF CrashRestart
  <2>10. QED
    BY <1>1, <2>2, <2>3, <2>4, <2>5, <2>6, <2>7, <2>8, <2>9 DEF Calm
<1>2. CASE Marks
  <2>1. CASE LookupPartial \/ LookupBreakeven \/ Confirm \/ Bind
    BY <1>0, <2>1 DEF LookupPartial, LookupBreakeven, Confirm, Bind, Goto, AfterLookup
  <2>2. ASSUME NEW canceled \in BOOLEAN, RetainReadback(canceled) \/ CancelReadback(canceled)
        PROVE  FALSE
    BY <1>0, <2>2 DEF RetainReadback, CancelReadback
  <2>3. ASSUME NEW canceled \in BOOLEAN, QuarantineReadback(canceled) PROVE IsPartial'
    <3>1. IsPartial /\ at \in OpenAt
      BY <2>3 DEF QuarantineReadback, IInv, Handler, PartialAt, OpenAt
    <3>2. Fails
      BY <1>0, <2>3 DEF QuarantineReadback
    <3>3. Status("failed", "live")
      BY <3>1, <3>2, FailsMoves
    <3>4. QED
      BY <3>1, <3>3 DEF Status, Marked
  <2>4. QED
    BY <1>2, <2>1, <2>2, <2>3 DEF Marks
<1>3. CASE Decides
  BY <1>0, <1>3 DEF Decides, Target1, StopToBreakeven, Starts
<1>4. CASE Stops
  BY <1>0, <1>4 DEF Stops, Restore, Arm, Rearm, ResidualStop, Goto
<1>5. CASE Posts
  BY <1>0, <1>5 DEF Posts, PostPartial, PostBreakeven, Goto
<1>6. CASE Trades
  <2>1. intents' = intents /\ at' = at /\ mode' = mode
    BY <1>6 DEF Trades, Fill, Dies, durable, handler
  <2>2. QED
    BY <2>1, IntentsStay DEF Quarantined
<1>7. QED
  BY <1>1, <1>2, <1>3, <1>4, <1>5, <1>6, Steps

-----------------------------------------------------------------------------
(* The SELL orders fit the account                                         *)

\* A position or the open action names the order.
Covered(p, o) == (p # NoPosition /\ p.stop = o) \/ (IsOpen(intent) /\ o = ActionOrder)

\* The handler's own copy of the position is the newest one.
Busy == at # "idle" /\ ~(mode = "hydrate" /\ at \in EarlyAt)

Single == \A o, p \in Working : o = p
Fitting == \A o \in Working : Remaining(o) <= held /\ (o \in WorkingStops => Remaining(o) >= held)
Tracks == \A o \in Working : Covered(pos, o)
Owns == Busy => \A o \in Working : Covered(upd, o)
Returned ==
    mode # "live" /\ IsOpen(intent) /\ ~IsPartial /\ ActionOrder \in Working =>
        (pos # NoPosition /\ pos.stop = ActionOrder) \/ ~BreakevenAccepted
Unposted == at = "repost" => orders[ActionOrder].st = "none"
Room ==
    /\ mode = "live" => upd.qty + Sold <= Quantity + SoldLast
    /\ at \in LadderAt => upd.qty + Sold <= Quantity

Covers == Tracks /\ Owns /\ Returned /\ Unposted
Safe == Single /\ Fitting /\ Covers /\ Room

\* The facts about quantities and books that the steps rely on.
Ledgers == IInv /\ Books /\ Enough /\ Exact /\ Quarantined

\* A partial at work is the open action's.
LEMMA WorkingPartial ==
    ASSUME IInv, Books, Answered, NEW o \in Working, o \notin WorkingStops
    PROVE  IsOpen(intent) /\ o = ActionOrder /\ IsPartial /\ intents # <<>>
<1> USE DEF IInv
<1>1. o \in SellIds /\ orders[o].st = "working" /\ o[1] = "partial_scale"
  BY DEF Working, WorkingStops
<1>2. PICK i \in 1..MaxIntents : o = PartialId(i)
  BY <1>1, PartialIds
<1>3. i \in Partials
  BY <1>1, <1>2, NotPartial
<1>4. i \in DOMAIN intents /\ i \in 1..last /\ intents # <<>> /\ intents[i].kind = "partial_scale"
  BY <1>3, PartialFacts DEF Partials, last
<1>5. intents[i].status \notin {"confirmed", "failed", "abandoned"}
  BY <1>1, <1>2, <1>3, <1>4 DEF Books, Told, Proved, Terminal, Known
<1>6. intents[i].status \in OpenStatuses
  <2>1. intents[i] \in Action
    BY <1>4 DEF TypeOK
  <2>2. QED
    BY <1>5, <2>1 DEF Action, TerminalStatuses
<1>7. i = last
  <2>1. last \in Nat
    BY <1>4, IntentFacts
  <2>2. ~(i < last)
    BY <1>4, <1>6 DEF Known, last
  <2>3. QED
    BY <1>4, <2>1, <2>2
<1>8. QED
  BY <1>2, <1>4, <1>6, <1>7, IntentFacts DEF PartialId, IsPartial

\* The handler names no order any more: there is none.
LEMMA Emptied ==
    ASSUME IInv, Owns, Busy, upd.stop = NoOrder, IsOpen(intent) => ActionOrder \notin Working
    PROVE  Working = {}
<1>1. ASSUME NEW o \in Working PROVE FALSE
  <2>1. Covered(upd, o) /\ o \in SellIds
    BY <1>1 DEF Owns, Working
  <2>2. QED
    BY <1>1, <2>1, Ids DEF Covered
<1>2. QED
  BY <1>1

\* Without an order at work the account holds what no partial sold.
LEMMA AllHeld ==
    ASSUME IInv, Good, Working = {}
    PROVE  /\ held \in Nat /\ Sold \in Nat /\ Quantity \in Nat
           /\ held + Sold = Quantity
<1>1. held \in Nat /\ Sold \in Nat /\ Quantity \in Nat
  BY SumsFacts, Numbers
<1>2. WorkingStops = {}
  BY DEF WorkingStops
<1>3. PICK f : f = [o \in SellIds |-> orders[o].filled]
  OBVIOUS
<1>4. Sum(f, {}) = 0
  <2>1. IsFiniteSet({}) /\ \A x \in {} : f[x] = 0
    BY FS_EmptySet
  <2>2. QED
    BY ONLY <2>1, SumZero
<1>5. Quantity - held = Sold + 0
  BY <1>2, <1>3, <1>4 DEF Good, NoBrokenStop
<1>6. QED
  BY <1>1, <1>5

LEMMA NotOpen == ASSUME IInv, intents # <<>>, intent.status \in {"failed", "confirmed"}
                 PROVE  ~IsOpen(intent)
  BY IntentFacts DEF IInv, OpenStatuses

\* A failed partial sold nothing.
LEMMA FailedUnsold ==
    ASSUME IInv, Books, Answered, intents # <<>>, IsPartial, intent.status = "failed"
    PROVE  SoldLast = 0
<1>1. last \in Partials /\ intents[last] = intent
  BY LastPartial DEF IInv
<1>2. QED
  BY <1>1 DEF Books, Told, SoldLast

\* Explained by the row, a quantity leaves room for what was sold.
LEMMA Explained ==
    ASSUME IInv, Books, Good, ~IsOpen(intent), NEW q \in 1..Quantity, ~Unexplained(q)
    PROVE  q + Sold <= Quantity
<1>1. row.banked = Sold /\ Sold \in Nat /\ Quantity \in Nat
  BY Counted, SumsFacts, Numbers DEF BankedIsSold, Good
<1>2. Sold = 0 \/ q = Quantity - Sold
  BY <1>1 DEF Unexplained
<1>3. QED
  BY <1>1, <1>2

\* A stop is placed only when there is no other order, for what is held.
LEMMA StopFits ==
    ASSUME Ledgers, Good, Safe, NEW outcome \in Outcomes,
           Restore(outcome) \/ Arm(outcome) \/ Rearm(outcome) \/ ResidualStop(outcome)
    PROVE  Working = {} /\ Size = held /\ ~IsOpen(intent)
<1> USE DEF Ledgers
<1>1. at \in {"decide", "arm", "rearm", "residual", "residual2"}
  BY StopsPlace
<1>2. /\ upd.stop = NoOrder /\ upd.qty \in Nat /\ upd.qty \in 1..Quantity /\ upd.qty >= held
      /\ Quantity \in Nat /\ Sold \in Nat /\ held \in Nat
  BY <1>1, UpdFacts, SumsFacts, Numbers DEF IInv, Handler, BareAt, Enough
<1>3. Busy
  BY <1>1 DEF Busy, EarlyAt
<1>4. ~IsOpen(intent)
  <2>1. CASE at = "decide"
    BY <2>1 DEF Restore, Arm, Rearm, ResidualStop
  <2>2. CASE at = "arm"
    BY <2>2 DEF IInv, Handler, LadderAt
  <2>3. CASE at \in {"rearm", "residual", "residual2"}
    BY <2>3, NotOpen DEF IInv, Handler, PartialAt
  <2>4. QED
    BY <1>1, <2>1, <2>2, <2>3
<1>5. Working = {}
  BY <1>2, <1>3, <1>4, Emptied DEF Safe, Covers
<1>6. held + Sold = Quantity
  BY <1>5, AllHeld
<1>7. Size + Sold <= Quantity /\ Size >= held /\ Size \in Nat
  <2>1. CASE at = "decide"
    <3>1. ~Unexplained(upd.qty)
      BY <2>1 DEF Restore, Arm, Rearm, ResidualStop
    <3>2. upd.qty + Sold <= Quantity
      BY <1>2, <1>4, <3>1, Explained
    <3>3. QED
      BY <1>2, <2>1, <3>2 DEF Size
  <2>2. CASE at = "arm"
    BY <1>2, <2>2 DEF Safe, Room, LadderAt, Size
  <2>3. CASE at = "rearm"
    <3>1. mode = "live" /\ IsPartial /\ intents # <<>> /\ intent.status = "failed"
      BY <2>3 DEF IInv, Handler, LiveAt, PartialAt
    <3>2. SoldLast = 0
      BY <3>1, FailedUnsold DEF Good
    <3>3. upd.qty + Sold <= Quantity
      BY <1>2, <3>1, <3>2 DEF Safe, Room
    <3>4. QED
      BY <1>2, <2>3, <3>3 DEF Size
  <2>4. CASE at \in {"residual", "residual2"}
    <3>1. mode = "live" /\ IsPartial /\ intents # <<>>
      BY <2>4 DEF IInv, Handler, LiveAt, PartialAt
    <3>2. orders[ActionOrder].filled = intent.qty
      BY <2>4, <3>1 DEF Exact, ExactAt
    <3>3. SoldLast = intent.qty /\ SoldLast \in Nat
      BY <3>1, <3>2, SoldLastFacts
    <3>4. upd.qty >= held + SoldLast /\ upd.qty + Sold <= Quantity + SoldLast
      BY <3>1 DEF Enough, Safe, Room
    <3>5. Size = upd.qty - SoldLast
      BY <2>4, <3>3 DEF Size
    <3>6. QED
      BY <1>2, <3>3, <3>4, <3>5
  <2>5. QED
    BY <1>1, <2>1, <2>2, <2>3, <2>4
<1>8. Size = held
  BY <1>2, <1>6, <1>7
<1>9. QED
  BY <1>4, <1>5, <1>8

\* An action's order is posted only when there is no other, for no more than
\* is held, and a stop for all of it.
LEMMA PostFits ==
    ASSUME Ledgers, Good, Safe, at \in {"post", "repost"}
    PROVE  /\ Working = {} /\ orders[ActionOrder].st = "none"
           /\ ActionSize <= held /\ (~IsPartial => ActionSize = held)
           /\ IsOpen(intent)
<1> USE DEF Ledgers
<1>1. /\ upd.stop = NoOrder /\ upd.qty \in Nat /\ mode = "live" /\ intents # <<>>
      /\ Quantity \in Nat /\ Sold \in Nat /\ held \in Nat
  BY UpdFacts, SumsFacts, Numbers DEF IInv, Handler, BareAt, LiveAt
<1>2. orders[ActionOrder].st = "none" /\ IsOpen(intent)
  <2>1. orders[ActionOrder].st = "none"
    BY DEF IInv, Handler, Safe, Covers, Unposted
  <2>2. intent.status \in OpenStatuses
    BY DEF IInv, Handler, OpenAt
  <2>3. QED
    BY <1>1, <2>1, <2>2, IntentFacts DEF IInv
<1>3. Busy
  BY DEF Busy, EarlyAt
<1>4. Working = {}
  <2>1. ActionOrder \notin Working
    BY <1>2 DEF Working
  <2>2. QED
    BY <1>1, <1>3, <2>1, Emptied DEF Safe, Covers
<1>5. held + Sold = Quantity
  BY <1>4, AllHeld
<1>6. SoldLast = 0
  BY <1>1, <1>2, SoldLastFacts
<1>7. upd.qty + Sold <= Quantity /\ upd.qty >= held
  BY <1>1, <1>6 DEF Safe, Room, Enough
<1>8. upd.qty = held
  BY <1>1, <1>5, <1>7
<1>9. IsPartial => intent.qty < upd.qty /\ intent.qty \in Nat
  BY <1>1, IntentFacts, Numbers DEF IInv, Handler
<1>10. QED
  BY <1>1, <1>2, <1>4, <1>8, <1>9 DEF ActionSize

LEMMA WorkingQuiet ==
    ASSUME Quiet
    PROVE  /\ Working' = Working /\ WorkingStops' = WorkingStops
           /\ \A o \in SellIds : Remaining(o)' = Remaining(o)
<1>1. \A o \in SellIds : /\ orders'[o].st = orders[o].st /\ orders'[o].qty = orders[o].qty
                         /\ orders'[o].filled = orders[o].filled
  BY DEF Quiet, Same
<1>2. QED
  BY <1>1 DEF Working, WorkingStops, Remaining

LEMMA WorkingPlaced ==
    ASSUME NEW o \in SellIds, NEW q \in Nat, NEW px, NEW a, Placed(o, q, px, a), Working = {}
    PROVE  Working' = {o} /\ Remaining(o)' = q
<1>1. orders'[o].st = "working" /\ orders'[o].qty = q /\ orders'[o].filled = 0
  BY DEF Placed
<1>2. \A x \in SellIds : x # o => orders'[x].st = orders[x].st
  BY DEF Placed, OthersSame, Same
<1>3. \A x \in SellIds : x \in Working' <=> x = o
  BY <1>1, <1>2 DEF Working
<1>4. Working' \subseteq SellIds
  BY DEF Working
<1>5. QED
  BY <1>1, <1>3, <1>4 DEF Remaining

\* A stop that was not acknowledged does not exist.
LEMMA StopAnswer ==
    ASSUME Ledgers, Good, Good', Safe, NEW outcome \in Outcomes,
           Restore(outcome) \/ Arm(outcome) \/ Rearm(outcome) \/ ResidualStop(outcome)
    PROVE  \/ /\ outcome = "ack" /\ FreshStop \in SellIds /\ Working' = {FreshStop}
              /\ orders'[FreshStop].qty = held /\ orders'[FreshStop].filled = 0
           \/ outcome # "ack" /\ Quiet /\ Working' = {}
<1> USE DEF Ledgers
<1>1. Working = {} /\ Size = held
  BY StopFits
<1>2. /\ Size \in 1..Quantity
      /\ \/ orders' = orders /\ outcome = "refused"
         \/ \E px \in {0} \cup Levels : PlaceStop(Size, px, outcome)
  BY StopsPlace
<1>3. CASE orders' = orders /\ outcome = "refused"
  <2>1. Quiet
    BY <1>3, UnchangedQuiet DEF IInv
  <2>2. QED
    BY <1>1, <1>3, <2>1, WorkingQuiet
<1>4. ASSUME NEW px \in {0} \cup Levels, PlaceStop(Size, px, outcome)
      PROVE  \/ /\ outcome = "ack" /\ FreshStop \in SellIds /\ Working' = {FreshStop}
                /\ orders'[FreshStop].qty = held /\ orders'[FreshStop].filled = 0
             \/ outcome # "ack" /\ Quiet /\ Working' = {}
  <2>1. /\ Fresh(FreshStop)
        /\ \/ Quiet /\ outcome = "refused"
           \/ Placed(FreshStop, Size, px, outcome = "ack") /\ outcome # "refused"
    BY <1>2, <1>4, PlaceStopPlaces DEF IInv
  <2>2. CASE Quiet /\ outcome = "refused"
    BY <1>1, <2>2, WorkingQuiet
  <2>3. CASE Placed(FreshStop, Size, px, outcome = "ack")
    <3>1. PICK o \in SellIds : o = FreshStop
      BY <2>1 DEF Fresh
    <3>2. outcome = "ack"
      <4>1. orders'[o].acked = (outcome = "ack")
        BY <2>3, <3>1 DEF Placed
      <4>2. orders'[o].acked
        BY DEF Good, Answered
      <4>3. QED
        BY <4>1, <4>2
    <3>3. Size \in Nat
      BY <1>2, Numbers
    <3>4. PICK a : Placed(o, Size, px, a)
      BY <2>3, <3>1
    <3>5. Working' = {o} /\ Remaining(o)' = Size
      BY <1>1, <3>3, <3>4, WorkingPlaced
    <3>6. orders'[o].qty = held /\ orders'[o].filled = 0
      BY <1>1, <3>4 DEF Placed
    <3>7. QED
      BY <3>1, <3>2, <3>5, <3>6
  <2>4. QED
    BY <2>1, <2>2, <2>3
<1>5. QED
  BY <1>2, <1>3, <1>4

\* Neither does an action's order.
LEMMA PostAnswer ==
    ASSUME Ledgers, Good, Good', Safe, NEW outcome \in Outcomes,
           PostPartial(outcome) \/ PostBreakeven(outcome)
    PROVE  \/ /\ outcome = "ack" /\ ActionOrder \in SellIds /\ Working' = {ActionOrder}
              /\ orders'[ActionOrder].qty = ActionSize /\ orders'[ActionOrder].filled = 0
           \/ outcome # "ack" /\ Quiet /\ Working' = {}
<1> USE DEF Ledgers
<1>1. at \in {"post", "repost"} /\ Posted(outcome)
  BY PostMoves
<1>2. Working = {} /\ orders[ActionOrder].st = "none"
  BY <1>1, PostFits
<1>3. ActionSize \in Nat /\ intents # <<>>
  BY <1>1, ActionSizeFits, Numbers
<1>4. PICK o \in SellIds : o = ActionOrder
  BY <1>3, IntentFacts DEF IInv
<1>5. CASE Quiet /\ outcome = "refused"
  BY <1>2, <1>5, WorkingQuiet
<1>6. ASSUME NEW px, Placed(ActionOrder, ActionSize, px, outcome = "ack")
      PROVE  /\ outcome = "ack" /\ ActionOrder \in SellIds /\ Working' = {ActionOrder}
             /\ orders'[ActionOrder].qty = ActionSize /\ orders'[ActionOrder].filled = 0
  <2>1. outcome = "ack"
    <3>1. orders'[o].acked = (outcome = "ack")
      BY <1>4, <1>6 DEF Placed
    <3>2. orders'[o].acked
      BY DEF Good, Answered
    <3>3. QED
      BY <3>1, <3>2
  <2>2. PICK a : Placed(o, ActionSize, px, a)
    BY <1>4, <1>6
  <2>3. Working' = {o}
    BY <1>2, <1>3, <2>2, WorkingPlaced
  <2>4. orders'[o].qty = ActionSize /\ orders'[o].filled = 0
    BY <2>2 DEF Placed
  <2>5. QED
    BY <1>4, <2>1, <2>3, <2>4
<1>7. QED
  BY <1>1, <1>2, <1>5, <1>6 DEF Posted

LEMMA OrdersStep ==
    ASSUME Ledgers, IInv', Good, Good', Safe, [Next]_vars
    PROVE  Single' /\ Fitting'
<1> USE DEF Ledgers
<1>0. held \in Nat /\ \A o \in SellIds : Remaining(o) \in Int
  <2>1. \A o \in SellIds : orders[o].qty \in Nat /\ orders[o].filled \in Nat
    BY OrderFacts DEF IInv
  <2>2. QED
    BY <2>1, SumsFacts DEF Remaining
<1>1. ASSUME Quiet, held' = held PROVE Single' /\ Fitting'
  <2>1. /\ Working' = Working /\ WorkingStops' = WorkingStops
        /\ \A o \in SellIds : Remaining(o)' = Remaining(o)
    BY <1>1, WorkingQuiet
  <2>2. Working \subseteq SellIds
    BY DEF Working
  <2>3. Single'
    BY <2>1 DEF Single, Safe
  <2>4. Fitting'
    BY <1>1, <2>1, <2>2 DEF Fitting, Safe
  <2>5. QED
    BY <2>3, <2>4
<1>2. ASSUME NEW o \in SellIds, Working' = {o}, held' = held,
             orders'[o].filled = 0, orders'[o].qty \in Nat, orders'[o].qty <= held,
             o[1] # "partial_scale" => orders'[o].qty = held
      PROVE  Single' /\ Fitting'
  <2>1. Single'
    BY <1>2 DEF Single
  <2>2. ASSUME NEW x \in Working'
        PROVE  Remaining(x)' <= held' /\ (x \in WorkingStops' => Remaining(x)' >= held')
    <3>1. x = o
      BY <1>2
    <3>2. Remaining(x)' = orders'[o].qty
      BY <1>2, <3>1 DEF Remaining
    <3>3. x \in WorkingStops' => o[1] # "partial_scale"
      BY <3>1 DEF WorkingStops
    <3>4. QED
      BY <1>0, <1>2, <3>2, <3>3
  <2>3. QED
    BY <2>1, <2>2 DEF Fitting
<1>3. CASE Calm \/ Marks \/ Decides
  BY <1>1, <1>3, CalmMoves, MarksMoves, DecidesMoves
<1>4. CASE Stops
  <2>1. PICK outcome \in Outcomes :
           Restore(outcome) \/ Arm(outcome) \/ Rearm(outcome) \/ ResidualStop(outcome)
    BY <1>4 DEF Stops
  <2>2. held' = held
    BY <1>4, StopsMoves
  <2>3. \/ /\ FreshStop \in SellIds /\ Working' = {FreshStop}
           /\ orders'[FreshStop].qty = held /\ orders'[FreshStop].filled = 0
        \/ Quiet
    BY <2>1, StopAnswer
  <2>4. QED
    BY <1>0, <1>1, <1>2, <2>2, <2>3
<1>5. CASE Posts
  <2>1. PICK outcome \in Outcomes : PostPartial(outcome) \/ PostBreakeven(outcome)
    BY <1>5 DEF Posts
  <2>2. at \in {"post", "repost"} /\ held' = held
    BY <2>1, PostMoves
  <2>3. /\ ActionSize <= held /\ (~IsPartial => ActionSize = held) /\ ActionSize \in Nat
        /\ intents # <<>>
    BY <2>2, PostFits, ActionSizeFits, Numbers
  <2>4. ActionOrder[1] # "partial_scale" => ~IsPartial
    BY <2>3, IntentFacts DEF IInv, IsPartial
  <2>5. \/ /\ ActionOrder \in SellIds /\ Working' = {ActionOrder}
           /\ orders'[ActionOrder].qty = ActionSize /\ orders'[ActionOrder].filled = 0
        \/ Quiet
    BY <2>1, PostAnswer
  <2>6. QED
    BY <1>1, <1>2, <2>2, <2>3, <2>4, <2>5
<1>6. CASE Trades
  <2>1. PICK o \in SellIds : Fill(o) \/ Dies(o)
    BY <1>6 DEF Trades
  <2>2. (Sells(o) /\ held > 0 /\ held' = held - 1) \/ (Ends(o) /\ held' = held)
    BY <2>1, FillSells, DiesEnds DEF IInv
  <2>3. Working' \subseteq Working /\ o \in Working
    BY <2>2 DEF Working, Sells, Ends, OthersSame, Same
  <2>4. Single'
    BY <2>3 DEF Single, Safe
  <2>5. ASSUME NEW x \in Working'
        PROVE  Remaining(x)' <= held' /\ (x \in WorkingStops' => Remaining(x)' >= held')
    <3>1. x = o /\ x \in Working /\ x \in SellIds
      BY <2>3 DEF Safe, Single, Working
    <3>2. Sells(o) /\ held' = held - 1
      BY <2>2, <3>1 DEF Ends, Working
    <3>3. orders'[o].qty = orders[o].qty /\ orders'[o].filled = orders[o].filled + 1
      BY <3>2 DEF Sells
    <3>4. orders[o].qty \in Nat /\ orders[o].filled \in Nat
      BY OrderFacts DEF IInv
    <3>5. Remaining(x)' = Remaining(x) - 1
      BY <3>1, <3>3, <3>4 DEF Remaining
    <3>6. x \in WorkingStops' => x \in WorkingStops
      BY <3>1 DEF WorkingStops
    <3>7. Remaining(x) <= held /\ (x \in WorkingStops => Remaining(x) >= held)
      BY <3>1 DEF Safe, Fitting
    <3>8. Remaining(x) \in Int
      BY <1>0, <3>1
    <3>9. QED
      BY <1>0, <3>2, <3>5, <3>6, <3>7, <3>8
  <2>6. QED
    BY <2>4, <2>5 DEF Fitting
<1>7. QED
  BY <1>3, <1>4, <1>5, <1>6, Steps

\* Only the open action's partial sells.
LEMMA SoldStep ==
    ASSUME IInv, IInv', Books, Answered, OrderMove
    PROVE  \/ Sold' = Sold
           \/ /\ Sold' = Sold + 1 /\ IsOpen(intent) /\ IsPartial /\ intents # <<>>
              /\ last' = last => SoldLast' = SoldLast + 1
<1>1. CASE \A i \in 1..MaxIntents : SoldBy(i)' = SoldBy(i)
  BY <1>1, SoldUnchanged
<1>2. ASSUME NEW j \in 1..MaxIntents, SoldBy(j)' # SoldBy(j)
      PROVE  /\ Sold' = Sold + 1 /\ IsOpen(intent) /\ IsPartial /\ intents # <<>>
             /\ last' = last => SoldLast' = SoldLast + 1
  <2>1. Sells(PartialId(j)) /\ SoldBy(j)' = SoldBy(j) + 1
    BY <1>2, SoldMove
  <2>2. \A i \in 1..MaxIntents : i # j => SoldBy(i)' = SoldBy(i)
    <3> SUFFICES ASSUME NEW i \in 1..MaxIntents, i # j PROVE SoldBy(i)' = SoldBy(i)
      OBVIOUS
    <3>1. PartialId(i) \in SellIds /\ PartialId(i) # PartialId(j)
      BY PartialIds
    <3>2. QED
      BY <2>1, <3>1 DEF Sells, OthersSame, Same, SoldBy, PartialId
  <2>3. Sold' = Sold + 1
    BY <2>1, <2>2, SoldGrows
  <2>4. PartialId(j) \in Working /\ PartialId(j) \notin WorkingStops
    BY <2>1, PartialIds DEF Sells, Working, WorkingStops
  <2>5. IsOpen(intent) /\ PartialId(j) = ActionOrder /\ IsPartial /\ intents # <<>>
    BY <2>4, WorkingPartial
  <2>6. j = last
    <3>1. last \in 1..MaxIntents /\ ActionOrder = PartialId(last)
      BY <2>5, IntentFacts, LastPartial DEF IInv
    <3>2. QED
      BY <2>5, <3>1, PartialIds
  <2>7. last' = last => SoldLast' = SoldLast + 1
    BY <2>1, <2>6 DEF SoldLast
  <2>8. QED
    BY <2>3, <2>5, <2>7
<1>3. QED
  BY <1>1, <1>2

\* The ladder is reached from a settled trade only.
LEMMA LadderEntered ==
    ASSUME IInv, [Next]_vars, at' \in LadderAt
    PROVE  at \in LadderAt \/ Settle
<1>0. ~Returns
  BY DEF Returns, LadderAt
<1> USE DEF LadderAt
<1>1. CASE Calm
  <2>1. CASE Begin \/ LookupFails \/ Bank \/ Retain \/ Defer \/ Hold
    BY <1>0, <2>1 DEF Begin, LookupFails, Bank, Retain, Defer, Hold, Goto, AfterLookup
  <2>2. CASE FindsNone \/ (\E o \in SellIds : FindsProtection(o))
    BY <2>2 DEF FindsNone, FindsProtection
  <2>3. CASE \E canceled \in BOOLEAN : ResizeReadback(canceled)
    BY <2>3 DEF ResizeReadback
  <2>4. CASE RequestCancel \/ (\E ok \in BOOLEAN : Readback(ok)) \/ Quarantine \/ RecordLeg
    BY <2>4 DEF RequestCancel, Readback, Quarantine, RecordLeg, Goto
  <2>5. CASE CommitBreakeven \/ CrashRestart
    BY <1>0, <2>5 DEF CommitBreakeven, CrashRestart, Goto
  <2>6. CASE Reconcile \/ UNCHANGED vars
    BY <2>6 DEF Reconcile, vars, handler
  <2>7. QED
    BY <1>1, <2>1, <2>2, <2>3, <2>4, <2>5, <2>6 DEF Calm
<1>2. CASE Marks
  <2>1. CASE LookupPartial \/ LookupBreakeven \/ Confirm \/ Bind
    BY <1>0, <2>1 DEF LookupPartial, LookupBreakeven, Confirm, Bind, Goto, AfterLookup
  <2>2. ASSUME NEW canceled \in BOOLEAN,
               RetainReadback(canceled) \/ CancelReadback(canceled) \/ QuarantineReadback(canceled)
        PROVE  FALSE
    BY <1>0, <2>2 DEF RetainReadback, CancelReadback, QuarantineReadback
  <2>3. QED
    BY <1>2, <2>1, <2>2 DEF Marks
<1>3. CASE Decides
  BY <1>0, <1>3 DEF Decides, Target1, StopToBreakeven
<1>4. CASE Stops
  BY <1>0, <1>4 DEF Stops, Restore, Arm, Rearm, ResidualStop, Goto
<1>5. CASE Posts
  BY <1>0, <1>5 DEF Posts, PostPartial, PostBreakeven, Goto
<1>6. CASE Trades
  BY <1>6 DEF Trades, Fill, Dies, handler
<1>7. QED
  BY <1>1, <1>2, <1>3, <1>4, <1>5, <1>6, Steps

LEMMA RoomStep ==
    ASSUME Ledgers, IInv', Good, Good', Safe, [Next]_vars
    PROVE  Room'
<1> USE DEF Ledgers
<1>1. OrderMove /\ UpdMove
  BY Moves, Quantities
<1>2. /\ Sold \in Nat /\ Sold' \in Nat /\ Quantity \in Nat
  BY SumsFacts, TotalsPrimed, Numbers DEF Totals
<1>3. at # "idle" => upd.qty \in Nat /\ upd.qty \in 1..Quantity
  BY UpdFacts
<1>4. \/ Sold' = Sold
      \/ /\ Sold' = Sold + 1 /\ IsOpen(intent) /\ intents # <<>>
         /\ last' = last => SoldLast' = SoldLast + 1
  BY <1>1, SoldStep DEF Good
<1>5. intents' = intents \/ SomeStatus => last' = last
  BY DEF SomeStatus, Status, Marked, last
<1>6. ASSUME mode' = "live" PROVE upd'.qty + Sold' <= Quantity + SoldLast'
  <2>1. ASSUME mode = "live", last' = last, upd'.qty = upd.qty
        PROVE  upd'.qty + Sold' <= Quantity + SoldLast'
    <3>1. at # "idle" /\ intents # <<>>
      BY <2>1 DEF IInv, Handler
    <3>2. /\ upd.qty + Sold <= Quantity + SoldLast /\ upd.qty \in Nat /\ SoldLast \in Nat
      BY <1>3, <2>1, <3>1, SoldLastFacts DEF Safe, Room
    <3>3. SoldLast' \in Nat /\ SoldLast' >= SoldLast
      <4>1. PICK n \in 1..MaxIntents : n = last
        BY <3>1, IntentFacts DEF IInv
      <4>2. SoldLast = SoldBy(n) /\ SoldLast' = SoldBy(n)'
        BY <2>1, <4>1 DEF SoldLast
      <4>3. SoldBy(n)' = SoldBy(n) \/ SoldBy(n)' = SoldBy(n) + 1
        BY <1>1, SoldMove
      <4>4. QED
        BY <3>2, <4>2, <4>3
    <3>4. CASE Sold' = Sold
      BY <1>2, <2>1, <3>2, <3>3, <3>4
    <3>5. CASE Sold' = Sold + 1 /\ SoldLast' = SoldLast + 1
      BY <1>2, <2>1, <3>2, <3>5
    <3>6. QED
      BY <1>4, <2>1, <3>4, <3>5
  <2>2. CASE UNCHANGED handler /\ intents' = intents
    <3>1. mode = "live" /\ upd' = upd
      BY <1>6, <2>2 DEF handler
    <3>2. QED
      BY <1>5, <2>1, <2>2, <3>1
  <2>3. CASE Keeps /\ mode = "live" /\ (intents' = intents \/ SomeStatus)
    BY <1>5, <2>1, <2>3 DEF Keeps
  <2>4. ASSUME Keeps, NEW k \in ActionKinds, NEW q \in 0..Quantity, Added(k, q)
        PROVE  upd'.qty + Sold' <= Quantity + SoldLast'
    <3>1. Quiet /\ Decides
      BY <2>4, AddedQuiet
    <3>2. SoldLast' = 0
      BY <2>4, <3>1, AddedSold
    <3>3. at = "evaluate" /\ upd'.qty = upd.qty
      BY <2>4, <3>1 DEF Decides, Target1, StopToBreakeven, Keeps
    <3>4. ~IsOpen(intent)
      BY <3>3 DEF IInv, Handler, LadderAt
    <3>5. upd.qty + Sold <= Quantity
      BY <3>3 DEF Safe, Room, LadderAt
    <3>6. QED
      BY <1>2, <1>3, <1>4, <3>2, <3>3, <3>4, <3>5
  <2>5. QED
    BY <1>1, <1>6, <2>2, <2>3, <2>4 DEF UpdMove, Returns
<1>7. ASSUME at' \in LadderAt PROVE upd'.qty + Sold' <= Quantity
  <2>1. CASE at \in LadderAt
    <3>1. ~IsOpen(intent) /\ at # "idle"
      BY <2>1 DEF IInv, Handler, LadderAt
    <3>2. Sold' = Sold /\ upd.qty + Sold <= Quantity
      BY <1>4, <2>1, <3>1 DEF Safe, Room
    <3>3. upd'.qty = upd.qty
      BY <1>1, <1>7, <2>1 DEF UpdMove, Keeps, handler, Returns, LadderAt
    <3>4. QED
      BY <3>2, <3>3
  <2>2. CASE Settle
    <3>1. /\ at = "settle" /\ ~IsOpen(intent) /\ ~Unexplained(upd.qty) /\ pos # NoPosition
          /\ upd' = pos
      BY <1>7, <2>2 DEF Settle, Returns, LadderAt
    <3>2. upd.qty \in 1..Quantity /\ upd.qty \in Nat /\ mode = "hydrate"
      BY <1>3, <3>1 DEF IInv, Handler
    <3>3. upd.qty + Sold <= Quantity
      BY <3>1, <3>2, Explained
    <3>4. pos.qty <= upd.qty
      BY <3>1, <3>2 DEF Enough, EarlyAt
    <3>5. pos.qty \in Nat
      <4>1. pos \in Tracked
        BY <3>1 DEF IInv, TypeOK
      <4>2. QED
        BY <4>1, Numbers DEF Tracked
    <3>6. Sold' = Sold
      BY <1>4, <3>1
    <3>7. QED
      BY <1>2, <3>1, <3>2, <3>3, <3>4, <3>5, <3>6
  <2>3. QED
    BY <1>7, <2>1, <2>2, LadderEntered
<1>8. QED
  BY <1>6, <1>7 DEF Room

\* Orders stay named while what names them stays.
OpenKept == \A o \in Working' : IsOpen(intent) /\ o = ActionOrder =>
                                    IsOpen(intent)' /\ o = ActionOrder'

LEMMA CoversKept ==
    ASSUME Tracks, Owns, Working' \subseteq Working, OpenKept
    PROVE  /\ pos' = pos => Tracks'
           /\ upd' = upd /\ (Busy' => Busy) => Owns'
           /\ Busy /\ pos' = upd => Tracks'
           /\ upd' = pos => Owns'
<1>1. ASSUME NEW p, NEW o \in Working', Covered(p, o)
      PROVE  (p # NoPosition /\ p.stop = o) \/ (IsOpen(intent)' /\ o = ActionOrder')
  BY <1>1 DEF Covered, OpenKept
<1>2. pos' = pos => Tracks'
  BY <1>1 DEF Tracks, Covered
<1>3. upd' = upd /\ (Busy' => Busy) => Owns'
  BY <1>1 DEF Owns, Covered
<1>4. Busy /\ pos' = upd => Tracks'
  BY <1>1 DEF Owns, Tracks, Covered
<1>5. upd' = pos => Owns'
  BY <1>1 DEF Owns, Tracks, Covered
<1>6. QED
  BY <1>2, <1>3, <1>4, <1>5

\* Nobody has to name an order where there is none.
LEMMA CoversNothing ==
    ASSUME Working' = {}, at' # "repost" \/ orders'[ActionOrder'].st = "none"
    PROVE  Covers'
<1>1. Tracks' /\ Owns'
  BY DEF Tracks, Owns
<1>2. Returned'
  BY DEF Returned
<1>3. Unposted'
  BY DEF Unposted
<1>4. QED
  BY <1>1, <1>2, <1>3 DEF Covers

\* A reconciliation finds the one stop that works, for it has the account's size.
LEMMA ReconciledCovers ==
    ASSUME IInv, Good, Single, Fitting, NEW p \in Reconciled, NEW o \in WorkingStops
    PROVE  p # NoPosition /\ p.stop = o
<1>1. o \in Working /\ o \in SellIds /\ orders[o].st = "working"
  BY DEF WorkingStops, Working
<1>2. held \in Nat /\ orders[o].qty \in Nat /\ orders[o].filled \in Nat
  BY <1>1, OrderFacts, SumsFacts DEF IInv
<1>3. orders[o].filled < orders[o].qty
  BY <1>1 DEF IInv, Amounts
<1>4. Remaining(o) = held /\ held # 0
  <2>1. Remaining(o) <= held /\ Remaining(o) >= held
    BY <1>1 DEF Fitting
  <2>2. QED
    BY <1>2, <1>3, <2>1 DEF Remaining
<1>5. \A x \in WorkingStops : x = o
  BY <1>1 DEF Single, WorkingStops
<1>6. p # NoPosition
  BY <1>4, ReconciledFacts DEF IInv
<1>7. \/ p.stop = NoOrder /\ (WorkingStops = {} \/ \E x \in WorkingStops : Remaining(x) # held)
      \/ p.stop \in WorkingStops
  BY <1>6, ReconciledFacts DEF IInv
<1>8. QED
  BY <1>4, <1>5, <1>6, <1>7

LEMMA ReconcileCovers ==
    ASSUME Ledgers, Good, Safe, Quiet, intents' = intents, pos' \in Reconciled
    PROVE  Tracks' /\ Returned'
<1> USE DEF Ledgers
<1>1. Working' = Working
  BY WorkingQuiet
<1>2. /\ intent' = intent /\ ActionOrder' = ActionOrder /\ (IsPartial' <=> IsPartial)
      /\ (IsOpen(intent)' <=> IsOpen(intent))
  BY IntentsStay
<1>3. \A o \in WorkingStops : pos' # NoPosition /\ pos'.stop = o
  BY ReconciledCovers DEF Safe
<1>4. ASSUME NEW o \in Working PROVE Covered(pos, o)'
  <2>1. CASE o \in WorkingStops
    BY <1>3, <2>1 DEF Covered
  <2>2. CASE o \notin WorkingStops
    <3>1. IsOpen(intent) /\ o = ActionOrder
      BY <2>2, WorkingPartial DEF Good
    <3>2. QED
      BY <1>2, <3>1 DEF Covered
  <2>3. QED
    BY <2>1, <2>2
<1>5. Tracks'
  BY <1>1, <1>4 DEF Tracks
<1>6. ASSUME IsOpen(intent), ~IsPartial, ActionOrder \in Working
      PROVE  pos' # NoPosition /\ pos'.stop = ActionOrder
  <2>1. intents # <<>>
    BY <1>6, NoIntents
  <2>2. ActionOrder = <<intent.kind, last>> /\ intent.kind # "partial_scale"
    BY <1>6, <2>1, IntentFacts DEF IInv, IsPartial
  <2>3. ActionOrder \in WorkingStops
    BY <1>6, <2>2 DEF WorkingStops
  <2>4. QED
    BY <1>3, <2>3
<1>7. Returned'
  BY <1>1, <1>2, <1>6 DEF Returned
<1>8. QED
  BY <1>5, <1>7

LEMMA CalmCovers ==
    ASSUME Ledgers, Good, Safe, Calm
    PROVE  Covers'
<1> USE DEF Ledgers
<1>0. Quiet /\ held' = held /\ intents' = intents
  BY CalmMoves
<1>1. Working' = Working
  BY <1>0, WorkingQuiet
<1>2. /\ intent' = intent /\ ActionOrder' = ActionOrder /\ (IsPartial' <=> IsPartial)
      /\ (IsOpen(intent)' <=> IsOpen(intent))
  BY <1>0, IntentsStay
<1>3. Tracks /\ Owns /\ Returned /\ Unposted
  BY DEF Safe, Covers
<1>4. /\ pos' = pos => Tracks'
      /\ upd' = upd /\ (Busy' => Busy) => Owns'
      /\ Busy /\ pos' = upd => Tracks'
      /\ upd' = pos => Owns'
  <2>1. OpenKept
    BY <1>2 DEF OpenKept
  <2>2. QED
    BY <1>1, <1>3, <2>1, CoversKept
<1>5. at' = at => Unposted'
  <2>1. at = "repost" => ActionOrder \in SellIds
    BY IntentFacts DEF IInv, Handler, OpenAt
  <2>2. QED
    BY <1>0, <1>2, <1>3, <2>1 DEF Unposted, Quiet, Same
<1>6. at' # "repost" => Unposted'
  BY DEF Unposted
<1>7. ASSUME pos' = pos, row'.stop = row.stop, mode # "live" \/ mode' = "live" PROVE Returned'
  BY <1>1, <1>2, <1>3, <1>7 DEF Returned, BreakevenAccepted
<1>8. ASSUME Returns, pos' = pos, row' = row,
             mode = "live" => ~IsOpen(intent) \/ IsPartial \/ ~BreakevenAccepted
      PROVE  Covers'
  <2>1. Owns' /\ Unposted'
    BY <1>8 DEF Returns, Owns, Busy, Unposted
  <2>2. Returned'
    BY <1>1, <1>2, <1>3, <1>8 DEF Returned, BreakevenAccepted
  <2>3. QED
    BY <1>4, <1>8, <2>1, <2>2 DEF Covers
<1>9. ASSUME pos' = pos, upd' = upd, mode' = mode, row'.stop = row.stop, at' # "repost",
             Busy' => Busy
      PROVE  Covers'
  BY <1>4, <1>6, <1>7, <1>9 DEF Covers
<1>10. mode \in {"hydrate", "retain", "live"}
  BY DEF IInv, TypeOK
<1>11. CASE Begin
  <2>1. /\ pos' = pos /\ upd' = pos /\ mode' = mode /\ row' = row /\ at' \in {"lookup", "settle"}
        /\ at = "idle"
    BY <1>11 DEF Begin, durable
  <2>2. mode = "hydrate"
    BY <2>1 DEF IInv, Handler
  <2>3. QED
    BY <1>4, <1>6, <1>7, <2>1, <2>2 DEF Covers
<1>12. CASE LookupFails \/ Bank
  <2>1. row'.stop = row.stop
    <3>1. row \in [banked : 0..Quantity, be : BOOLEAN, stop : Levels]
      BY DEF IInv, TypeOK
    <3>2. QED
      BY <1>12, <3>1 DEF LookupFails, Bank, durable
  <2>2. /\ pos' = pos /\ upd' = upd /\ mode' = mode
        /\ (at = "lookup" /\ at' = AfterLookup) \/ (at = "bank" /\ at' = "committed")
    BY <1>12 DEF LookupFails, Bank, Goto
  <2>3. Busy' => Busy
    BY <2>2 DEF Busy, EarlyAt, AfterLookup
  <2>4. QED
    BY <1>9, <2>1, <2>2, <2>3 DEF AfterLookup
<1>13. CASE Settle
  <2>1. /\ pos' = pos /\ row' = row /\ at = "settle"
        /\ Returns \/ (upd' = pos /\ at' \in {"retain", "protect", "evaluate"} /\ mode' = mode)
    BY <1>13 DEF Settle, durable
  <2>2. mode = "hydrate"
    BY <2>1 DEF IInv, Handler
  <2>3. QED
    BY <1>4, <1>6, <1>7, <1>8, <2>1, <2>2 DEF Covers
<1>14. CASE Retain
  <2>1. /\ pos' = pos /\ row' = row /\ at = "retain"
        /\ Returns \/ (upd' = upd /\ at' \in {"retaining", "decide"} /\ mode' = mode)
    BY <1>14 DEF Retain, Goto, durable
  <2>2. mode = "hydrate" /\ Busy
    BY <2>1 DEF IInv, Handler, Busy, EarlyAt
  <2>3. QED
    BY <1>8, <1>9, <2>1, <2>2
<1>15. CASE Defer \/ Hold
  <2>1. Returns /\ pos' = pos /\ row' = row /\ at \in {"decide", "evaluate"}
    BY <1>15 DEF Defer, Hold, durable
  <2>2. mode = "live" => IsPartial
    BY <2>1 DEF Quarantined, IInv, Handler, LadderAt
  <2>3. QED
    BY <1>8, <2>1, <2>2
<1>16. CASE FindsNone \/ RequestCancel \/ Quarantine \/ RecordLeg
  <2>1. /\ pos' = pos /\ upd' = upd /\ mode' = mode /\ row' = row
        /\ at \in {"protect", "cancel", "quarantine", "leg"}
        /\ at' \in {"arm", "canceling", "quarantining", "residual"}
    BY <1>16 DEF FindsNone, RequestCancel, Quarantine, RecordLeg, Goto, durable
  <2>2. Busy
    BY <2>1 DEF Busy, EarlyAt
  <2>3. QED
    BY <1>9, <2>1, <2>2
<1>17. ASSUME NEW o \in SellIds, FindsProtection(o) PROVE Covers'
  <2>1. at = "protect" /\ o \in Working
    BY <1>17 DEF FindsProtection, WorkingStops
  <2>2. Busy /\ upd.stop = NoOrder /\ ~IsOpen(intent)
    BY <2>1 DEF Busy, EarlyAt, IInv, Handler, BareAt, LadderAt
  <2>3. Working = {}
    BY <1>3, <2>2, Emptied
  <2>4. QED
    BY <2>1, <2>3
<1>18. ASSUME NEW canceled \in BOOLEAN, ResizeReadback(canceled) PROVE Covers'
  <2>1. /\ at = "resizing" /\ mode' = mode /\ row' = row
        /\ \/ /\ canceled /\ at' = "arm" /\ pos' = pos /\ orders[upd.stop].st = "dead"
           \/ ~canceled /\ at' = "evaluate" /\ upd' = upd /\ pos' = upd
    BY <1>18 DEF ResizeReadback, CancelConfirmed, durable
  <2>2. Busy /\ ~IsOpen(intent) /\ mode = "hydrate"
    BY <2>1 DEF Busy, EarlyAt, IInv, Handler, LadderAt
  <2>3. CASE canceled
    <3>1. Working = {}
      BY <1>3, <2>1, <2>2, <2>3 DEF Owns, Covered, Working
    <3>2. QED
      BY <1>1, <2>1, <2>3, <3>1, CoversNothing
  <2>4. CASE ~canceled
    <3>1. Tracks' /\ Owns' /\ Unposted'
      BY <1>4, <1>6, <2>1, <2>2, <2>4
    <3>2. Returned'
      BY <1>2, <2>2 DEF Returned
    <3>3. QED
      BY <3>1, <3>2 DEF Covers
  <2>5. QED
    BY <2>3, <2>4
<1>19. ASSUME NEW ok \in BOOLEAN, Readback(ok) PROVE Covers'
  <2>1. /\ pos' = pos /\ upd' = upd /\ mode' = mode /\ row' = row
        /\ at = "readback" /\ at' \in {"bank", "quarantine"}
    BY <1>19 DEF Readback, Goto, durable
  <2>2. Busy
    BY <2>1 DEF Busy, EarlyAt
  <2>3. QED
    BY <1>9, <2>1, <2>2
<1>20. CASE CommitBreakeven
  <2>1. /\ at = "commit" /\ pos' = pos
        /\ \/ Returns /\ row' = row /\ ~BreakevenAccepted
           \/ at' = "committed" /\ upd' = upd /\ mode' = mode
    BY <1>20 DEF CommitBreakeven, Goto
  <2>2. mode = "live" /\ Busy
    BY <2>1 DEF Busy, EarlyAt, IInv, Handler, LiveAt
  <2>3. CASE at' = "committed" /\ upd' = upd /\ mode' = mode
    <3>1. Returned'
      BY <2>2, <2>3 DEF Returned
    <3>2. QED
      BY <1>4, <1>6, <2>1, <2>2, <2>3, <3>1 DEF Covers
  <2>4. QED
    BY <1>8, <2>1, <2>3
<1>21. CASE Reconcile
  <2>1. UNCHANGED handler /\ pos' \in Reconciled
    BY <1>21 DEF Reconcile
  <2>2. Tracks' /\ Returned'
    BY <1>0, <2>1, ReconcileCovers
  <2>3. Owns' /\ Unposted'
    BY <1>4, <1>5, <2>1 DEF handler, Busy
  <2>4. QED
    BY <2>2, <2>3 DEF Covers
<1>22. CASE CrashRestart
  <2>1. Returns /\ pos' \in Reconciled
    BY <1>22 DEF CrashRestart
  <2>2. Tracks' /\ Returned'
    BY <1>0, <2>1, ReconcileCovers
  <2>3. Owns' /\ Unposted'
    BY <2>1 DEF Returns, Owns, Busy, Unposted
  <2>4. QED
    BY <2>2, <2>3 DEF Covers
<1>23. CASE UNCHANGED vars
  <2>1. pos' = pos /\ UNCHANGED handler /\ row' = row
    BY <1>23 DEF vars, durable
  <2>2. mode' = mode /\ at' = at /\ upd' = upd
    BY <2>1 DEF handler
  <2>3. QED
    BY <1>4, <1>5, <1>7, <2>1, <2>2 DEF Covers, Busy
<1>24. QED
  BY <1>11, <1>12, <1>13, <1>14, <1>15, <1>16, <1>17, <1>18, <1>19, <1>20, <1>21, <1>22, <1>23
     DEF Calm

LEMMA StillOpen ==
    ASSUME IInv, at \in OpenAt, Bound
    PROVE  IsOpen(intent)' /\ ActionOrder' = ActionOrder
<1>1. intents # <<>>
  BY DEF IInv, Handler
<1>2. last \in 1..last /\ last \in Nat
  BY <1>1, IntentFacts DEF IInv
<1>3. PICK p : Marked("submitted", p)
  BY BoundStatus DEF Status
<1>4. intents' \in Seq(Action) /\ Len(intents') = last /\ intent' = intents'[last]
      /\ intents'[last].status = "submitted" /\ ActionOrder' = ActionOrder
  BY <1>3 DEF Marked
<1>5. intent' \in Action
  BY <1>2, <1>4, ElementOfSeq
<1>6. QED
  BY <1>4, <1>5, SentinelsAssumption DEF IsOpen, OpenStatuses

LEMMA MarksCovers ==
    ASSUME Ledgers, Good, Safe, Marks
    PROVE  Covers'
<1> USE DEF Ledgers
<1>0. /\ orders' = orders /\ at \in OpenAt /\ at # "idle" /\ intents # <<>> /\ IsOpen(intent)
      /\ ActionOrder \in SellIds
  <2>1. orders' = orders
    BY DEF Marks, LookupPartial, LookupBreakeven, Confirm, Bind, RetainReadback, CancelReadback,
           QuarantineReadback, broker
  <2>2. at \in OpenAt
    BY DEF Marks, LookupPartial, LookupBreakeven, Confirm, Bind, RetainReadback, CancelReadback,
           QuarantineReadback, OpenAt
  <2>3. intents # <<>> /\ intent.status \in OpenStatuses
    BY <2>2 DEF IInv, Handler
  <2>4. QED
    BY <2>1, <2>2, <2>3, IntentFacts DEF IInv, OpenAt
<1>1. Working' = Working
  BY <1>0 DEF Working
<1>2. ActionOrder' = ActionOrder /\ (IsPartial' <=> IsPartial)
  <2>1. intents' = intents \/ SomeStatus
    BY MarksMoves
  <2>2. SomeStatus => ActionOrder' = ActionOrder /\ (IsPartial' <=> IsPartial)
    BY DEF SomeStatus, Status, Marked
  <2>3. QED
    BY <2>1, <2>2, IntentsStay
<1>3. Tracks /\ Owns /\ Returned /\ Unposted
  BY DEF Safe, Covers
<1>4. Bound \/ intents' = intents \/ ActionOrder \notin Working => OpenKept
  <2>1. CASE Bound
    BY <1>0, <2>1, StillOpen DEF OpenKept
  <2>2. CASE intents' = intents
    BY <2>2, IntentsStay DEF OpenKept
  <2>3. CASE ActionOrder \notin Working
    BY <1>1, <2>3 DEF OpenKept
  <2>4. QED
    BY <2>1, <2>2, <2>3
<1>5. ASSUME OpenKept
      PROVE  /\ pos' = pos => Tracks'
             /\ upd' = upd /\ (Busy' => Busy) => Owns'
             /\ Busy /\ pos' = upd => Tracks'
  BY <1>1, <1>3, <1>5, CoversKept
<1>6. at' # "repost" => Unposted'
  BY DEF Unposted
<1>7. IsPartial \/ mode' = "live" \/ ActionOrder \notin Working => Returned'
  BY <1>1, <1>2 DEF Returned
<1>8. Returns => Owns' /\ at' # "repost" /\ mode' = "hydrate"
  BY DEF Returns, Owns, Busy
<1>9. mode \in {"hydrate", "retain", "live"} /\ (mode = "retain" => IsPartial)
  BY DEF IInv, TypeOK, Exact
<1>10. orders[ActionOrder].st # "working" => ActionOrder \notin Working
  BY DEF Working
<1>11. CASE LookupPartial
  <2>1. /\ at = "lookup" /\ IsPartial /\ pos' = pos /\ upd' = upd /\ mode' = mode
        /\ Bound \/ orders[ActionOrder].st = "dead"
        /\ at' = "bank" \/ at' = AfterLookup
    BY <1>11 DEF LookupPartial, Goto
  <2>2. Busy' => Busy
    BY <1>9, <2>1 DEF Busy, EarlyAt, AfterLookup, IInv, Handler
  <2>3. Tracks' /\ Owns'
    BY <1>4, <1>5, <1>10, <2>1, <2>2
  <2>4. QED
    BY <1>6, <1>7, <2>1, <2>3 DEF Covers, AfterLookup
<1>12. CASE LookupBreakeven
  <2>1. at = "lookup" /\ ~IsPartial /\ pos' = pos
    BY <1>12 DEF LookupBreakeven
  <2>2. mode = "hydrate"
    BY <1>9, <2>1 DEF IInv, Handler
  <2>3. \/ /\ Bound /\ BreakevenAccepted /\ at' = "committed" /\ mode' = mode
        \/ Bound /\ Returns /\ row' = row
        \/ orders[ActionOrder].st = "dead" /\ at' = "settle" /\ mode' = mode
        \/ Bound /\ at' = "settle" /\ mode' = mode /\ row' = row
    BY <1>12, <2>2 DEF LookupBreakeven, Goto, AfterLookup
  <2>4. Tracks'
    BY <1>4, <1>5, <1>10, <2>1, <2>3
  <2>5. Owns' /\ Unposted' /\ mode' = "hydrate"
    BY <1>6, <1>8, <2>2, <2>3 DEF Owns, Busy, EarlyAt
  <2>6. Returned'
    <3>1. CASE row' = row
      BY <1>0, <1>1, <1>2, <1>3, <2>1, <2>2, <3>1 DEF Returned, BreakevenAccepted
    <3>2. CASE BreakevenAccepted
      BY <1>0, <1>1, <1>2, <1>3, <2>1, <2>2, <3>2 DEF Returned
    <3>3. CASE orders[ActionOrder].st = "dead"
      BY <1>7, <1>10, <3>3
    <3>4. QED
      BY <2>3, <3>1, <3>2, <3>3
  <2>7. QED
    BY <2>4, <2>5, <2>6 DEF Covers
<1>13. CASE Confirm /\ IsPartial
  <2>1. /\ at = "committed" /\ pos' = pos /\ upd' = upd /\ mode' = mode
        /\ at' = (IF mode = "live" THEN "leg" ELSE AfterLookup)
    BY <1>13 DEF Confirm, Goto
  <2>2. Proved(last) /\ ActionOrder = PartialId(last)
    BY <1>0, <1>13, <2>1, LastPartial DEF Books, IInv
  <2>3. orders[ActionOrder].st # "working"
    BY <2>2 DEF Proved, Terminal
  <2>4. Busy' => Busy
    BY <1>9, <2>1 DEF Busy, EarlyAt, AfterLookup
  <2>5. Tracks' /\ Owns'
    BY <1>4, <1>5, <1>10, <2>1, <2>3, <2>4
  <2>6. QED
    BY <1>6, <1>7, <1>13, <2>1, <2>5 DEF Covers, AfterLookup
<1>14. CASE Confirm /\ ~IsPartial /\ mode = "live"
  <2>1. at = "committed" /\ Returns /\ pos' = WithStop(upd, ActionOrder, Entry)
    BY <1>14 DEF Confirm
  <2>2. Busy /\ upd.stop = NoOrder
    BY <1>14, <2>1 DEF Busy, EarlyAt, IInv, Handler
  <2>3. pos' # NoPosition /\ pos'.stop = ActionOrder
    <3>1. upd \in Tracked /\ ActionOrder \in SellIds \cup {NoOrder} /\ Entry \in {0} \cup Levels
      BY <1>0, UpdFacts, Numbers
    <3>2. QED
      BY ONLY <2>1, <3>1, TrackedStop
  <2>4. ASSUME NEW o \in Working PROVE o = ActionOrder
    <3>1. Covered(upd, o) /\ o \in SellIds
      BY <1>3, <2>2, <2>4 DEF Owns, Working
    <3>2. QED
      BY <2>2, <3>1, Ids DEF Covered
  <2>5. Tracks'
    BY <1>1, <2>3, <2>4 DEF Tracks, Covered
  <2>6. Returned'
    BY <1>2, <2>3 DEF Returned
  <2>7. QED
    BY <1>6, <1>8, <2>1, <2>5, <2>6 DEF Covers
<1>15. CASE Confirm /\ ~IsPartial /\ mode # "live"
  <2>1. mode = "hydrate"
    BY <1>9, <1>15
  <2>2. at = "committed" /\ at' = "settle" /\ pos' = pos /\ mode' = mode
    BY <1>15, <2>1 DEF Confirm, Goto, AfterLookup
  <2>3. BreakevenAccepted
    BY <1>15, <2>2 DEF Exact
  <2>4. ActionOrder \in Working => pos # NoPosition /\ pos.stop = ActionOrder
    BY <1>0, <1>3, <1>15, <2>3 DEF Returned
  <2>5. ASSUME NEW o \in Working PROVE pos # NoPosition /\ pos.stop = o
    BY <1>3, <2>4, <2>5 DEF Tracks, Covered
  <2>6. Tracks'
    BY <1>1, <2>2, <2>5 DEF Tracks, Covered
  <2>7. Returned'
    BY <1>1, <1>2, <2>2, <2>4 DEF Returned
  <2>8. Owns' /\ Unposted'
    BY <1>6, <2>1, <2>2 DEF Owns, Busy, EarlyAt
  <2>9. QED
    BY <2>6, <2>7, <2>8 DEF Covers
<1>16. CASE Bind
  <2>1. /\ at = "bind" /\ Bound /\ pos' = pos /\ upd' = upd /\ mode' = mode
        /\ at' \in {"readback", "commit"}
    BY <1>16 DEF Bind, Goto
  <2>2. mode = "live" /\ Busy
    BY <2>1 DEF IInv, Handler, LiveAt, Busy, EarlyAt
  <2>3. Tracks' /\ Owns'
    BY <1>4, <1>5, <2>1, <2>2
  <2>4. QED
    BY <1>6, <1>7, <2>1, <2>2, <2>3 DEF Covers
<1>17. ASSUME NEW canceled \in BOOLEAN, RetainReadback(canceled) PROVE Covers'
  <2>1. /\ at = "retaining" /\ pos' = pos /\ upd' = upd /\ at' \in {"decide", "lookup"}
        /\ intents' = intents \/ orders[ActionOrder].st = "dead"
    BY <1>17 DEF RetainReadback, CancelConfirmed
  <2>2. IsPartial /\ Busy
    BY <2>1 DEF IInv, Handler, PartialAt, Busy, EarlyAt
  <2>3. Tracks' /\ Owns'
    BY <1>4, <1>5, <1>10, <2>1, <2>2
  <2>4. QED
    BY <1>6, <1>7, <2>1, <2>2, <2>3 DEF Covers
<1>18. ASSUME NEW canceled \in BOOLEAN, CancelReadback(canceled) PROVE Covers'
  <2>1. /\ at = "canceling" /\ pos' = pos
        /\ \/ canceled /\ orders[upd.stop].st = "dead" /\ at' = "post"
           \/ ~canceled /\ Returns
    BY <1>18 DEF CancelReadback, CancelConfirmed
  <2>2. Busy /\ ActionOrder \notin Working
    BY <1>10, <2>1 DEF Busy, EarlyAt, IInv, Handler
  <2>3. CASE canceled
    <3>1. Working = {}
      BY <1>3, <2>1, <2>2, <2>3 DEF Owns, Covered, Working
    <3>2. QED
      BY <1>1, <2>1, <2>3, <3>1, CoversNothing
  <2>4. CASE ~canceled
    BY <1>4, <1>5, <1>6, <1>7, <1>8, <2>1, <2>2, <2>4 DEF Covers
  <2>5. QED
    BY <2>3, <2>4
<1>19. ASSUME NEW canceled \in BOOLEAN, QuarantineReadback(canceled) PROVE Covers'
  <2>1. /\ at = "quarantining"
        /\ \/ canceled /\ orders[ActionOrder].st = "dead" /\ at' = "decide"
           \/ ~canceled /\ pos' = Naked(upd) /\ Returns /\ intents' = intents
    BY <1>19 DEF QuarantineReadback, CancelConfirmed
  <2>2. Busy /\ IsPartial /\ upd.stop = NoOrder
    BY <2>1 DEF Busy, EarlyAt, IInv, Handler, PartialAt, BareAt
  <2>3. CASE canceled
    <3>1. Working = {}
      BY <1>3, <1>10, <2>1, <2>2, <2>3, Emptied
    <3>2. QED
      BY <1>1, <2>1, <2>3, <3>1, CoversNothing
  <2>4. CASE ~canceled
    <3>1. ASSUME NEW o \in Working PROVE Covered(pos, o)'
      <4>1. Covered(upd, o) /\ o \in SellIds
        BY <1>3, <2>2, <3>1 DEF Owns, Working
      <4>2. o = ActionOrder
        BY <2>2, <4>1, Ids DEF Covered
      <4>3. IsOpen(intent)'
        BY <1>0, <2>1, <2>4, IntentsStay
      <4>4. QED
        BY <1>2, <4>2, <4>3 DEF Covered
    <3>2. Tracks'
      BY <1>1, <3>1 DEF Tracks
    <3>3. QED
      BY <1>6, <1>7, <1>8, <2>1, <2>2, <2>4, <3>2 DEF Covers
  <2>5. QED
    BY <2>3, <2>4
<1>20. QED
  BY <1>11, <1>12, <1>13, <1>14, <1>15, <1>16, <1>17, <1>18, <1>19 DEF Marks

LEMMA DecidesCovers ==
    ASSUME Ledgers, Safe, Decides
    PROVE  Covers'
<1> USE DEF Ledgers
<1>1. at = "evaluate" /\ pos' = pos
  BY DEF Decides, Target1, StopToBreakeven
<1>2. Quiet /\ ~IsOpen(intent)
  BY DecidesMoves
<1>3. Working' = Working
  BY <1>2, WorkingQuiet
<1>4. Busy
  BY <1>1 DEF Busy, EarlyAt
<1>5. Tracks /\ Owns
  BY DEF Safe, Covers
<1>6. OpenKept
  BY <1>2 DEF OpenKept
<1>7. Tracks' /\ (upd' = upd => Owns')
  BY <1>1, <1>3, <1>4, <1>5, <1>6, CoversKept
<1>8. \/ Returns /\ intents' = intents
      \/ upd' = upd /\ mode' = "live" /\ at' \in {"post", "cancel"}
  BY DEF Decides, Target1, StopToBreakeven, Starts
<1>9. Returned'
  BY <1>2, <1>8, IntentsStay DEF Returned
<1>10. Owns' /\ Unposted'
  BY <1>7, <1>8 DEF Returns, Owns, Busy, Unposted
<1>11. QED
  BY <1>7, <1>9, <1>10 DEF Covers

LEMMA StopsCovers ==
    ASSUME Ledgers, Good, Good', Safe, Stops
    PROVE  Covers'
<1> USE DEF Ledgers
<1>1. PICK outcome \in Outcomes :
         Restore(outcome) \/ Arm(outcome) \/ Rearm(outcome) \/ ResidualStop(outcome)
  BY DEF Stops
<1>2. (outcome = "ack" /\ Working' = {FreshStop}) \/ (outcome # "ack" /\ Working' = {})
  BY <1>1, StopAnswer
<1>3. StopOutcome(outcome)
  BY <1>1, StopOutcomes
<1>4. at' # "repost"
  BY <1>3 DEF StopOutcome, Returns, Goto
<1>5. CASE outcome # "ack"
  BY <1>2, <1>4, <1>5, CoversNothing
<1>6. CASE outcome = "ack"
  <2>1. /\ pos' # NoPosition /\ pos'.stop = FreshStop
        /\ Returns \/ upd' = pos'
    BY <1>3, <1>6 DEF StopOutcome
  <2>2. Tracks' /\ Owns'
    BY <1>2, <1>6, <2>1 DEF Tracks, Owns, Covered, Returns, Busy
  <2>3. intents' = intents /\ ~IsOpen(intent)
    BY <1>1, StopFits, StopsMoves DEF Stops
  <2>4. Returned' /\ Unposted'
    BY <1>4, <2>3, IntentsStay DEF Returned, Unposted
  <2>5. QED
    BY <2>2, <2>4 DEF Covers
<1>7. QED
  BY <1>5, <1>6

LEMMA PostsCovers ==
    ASSUME Ledgers, Good, Good', Safe, Posts
    PROVE  Covers'
<1> USE DEF Ledgers
<1>1. PICK outcome \in Outcomes : PostPartial(outcome) \/ PostBreakeven(outcome)
  BY DEF Posts
<1>2. at \in {"post", "repost"}
  BY <1>1, PostMoves
<1>3. \/ outcome = "ack" /\ Working' = {ActionOrder}
      \/ outcome # "ack" /\ Quiet /\ Working' = {}
  BY <1>1, PostAnswer
<1>4. PostOutcome(outcome)
  BY <1>1, PostOutcomes
<1>5. /\ IsOpen(intent) /\ orders[ActionOrder].st = "none" /\ mode = "live"
      /\ ActionOrder \in SellIds
  BY <1>2, PostFits, ActionSizeFits, IntentFacts DEF IInv, Handler, LiveAt
<1>6. CASE outcome = "ack"
  <2>1. intents' = intents /\ at' = "bind" /\ mode' = "live"
    BY <1>4, <1>5, <1>6 DEF PostOutcome, Goto
  <2>2. IsOpen(intent)' /\ ActionOrder' = ActionOrder
    BY <1>5, <2>1, IntentsStay
  <2>3. Tracks' /\ Owns'
    BY <1>3, <1>6, <2>2 DEF Tracks, Owns, Covered
  <2>4. Returned' /\ Unposted'
    BY <2>1 DEF Returned, Unposted
  <2>5. QED
    BY <2>3, <2>4 DEF Covers
<1>7. CASE outcome # "ack"
  <2>1. at' = "repost" => intents' = intents
    BY <1>4, <1>7 DEF PostOutcome, Goto, Returns
  <2>2. intents' = intents => orders'[ActionOrder'].st = "none"
    BY <1>3, <1>5, <1>7, IntentsStay DEF Quiet, Same
  <2>3. QED
    BY <1>3, <1>7, <2>1, <2>2, CoversNothing
<1>8. QED
  BY <1>6, <1>7

LEMMA TradesCovers ==
    ASSUME Ledgers, Safe, Trades
    PROVE  Covers'
<1> USE DEF Ledgers
<1>1. PICK o \in SellIds : Fill(o) \/ Dies(o)
  BY DEF Trades
<1>2. Sells(o) \/ Ends(o)
  BY <1>1, FillSells, DiesEnds DEF IInv
<1>3. Working' \subseteq Working
  BY <1>2 DEF Working, Sells, Ends, OthersSame, Same
<1>4. /\ intents' = intents /\ pos' = pos /\ upd' = upd /\ mode' = mode /\ at' = at
      /\ row' = row
  BY <1>1 DEF Fill, Dies, durable, handler
<1>5. /\ ActionOrder' = ActionOrder /\ (IsPartial' <=> IsPartial)
      /\ (IsOpen(intent)' <=> IsOpen(intent))
  BY <1>4, IntentsStay
<1>6. Tracks /\ Owns /\ Returned /\ Unposted
  BY DEF Safe, Covers
<1>7. OpenKept
  BY <1>5 DEF OpenKept
<1>8. Tracks' /\ Owns'
  <2>1. Busy' => Busy
    BY <1>4 DEF Busy
  <2>2. QED
    BY <1>3, <1>4, <1>6, <1>7, <2>1, CoversKept
<1>9. Returned'
  BY <1>3, <1>4, <1>5, <1>6 DEF Returned, BreakevenAccepted
<1>10. Unposted'
  <2>1. at = "repost" => ActionOrder \in SellIds /\ orders[ActionOrder].st = "none"
    BY <1>6, IntentFacts DEF IInv, Handler, OpenAt, Unposted
  <2>2. orders[o].st = "working"
    BY <1>2 DEF Sells, Ends
  <2>3. at = "repost" => orders'[ActionOrder].st = "none"
    BY <1>2, <2>1, <2>2 DEF Sells, Ends, OthersSame, Same
  <2>4. QED
    BY <1>4, <1>5, <2>3 DEF Unposted
<1>11. QED
  BY <1>8, <1>9, <1>10 DEF Covers

\* With the accounts in order a step keeps the SELL orders within what is held.
LEMMA SafeStep ==
    ASSUME Ledgers, IInv', Good, Good', Safe, [Next]_vars
    PROVE  Safe'
<1>1. Single' /\ Fitting'
  BY OrdersStep
<1>2. Room'
  BY RoomStep
<1>3. Covers'
  BY Steps, CalmCovers, MarksCovers, DecidesCovers, StopsCovers, PostsCovers, TradesCovers
<1>4. QED
  BY <1>1, <1>2, <1>3 DEF Safe

\* The last layer of the invariant.
Sound == Conserved /\ Enough /\ Exact /\ Quarantined /\ (Good => Safe)

LEMMA InitSound == Init => Sound
<1> SUFFICES ASSUME Init PROVE Sound
  OBVIOUS
<1>0. IInv
  BY InitInv
<1>1. /\ held = Quantity /\ intents = <<>> /\ at = "idle" /\ mode = "hydrate"
      /\ pos.qty = Quantity /\ pos.stop = <<"stop", 1>>
  BY DEF Init
<1>2. PICK s \in SellIds : s = <<"stop", 1>>
  <2>1. 1 \in 1..MaxStops
    BY Numbers
  <2>2. QED
    BY <2>1, Ids
<1>3. /\ orders[s].st = "working" /\ orders[s].qty = Quantity
      /\ \A o \in SellIds : orders[o].filled = 0
      /\ \A o \in SellIds : o # s => orders[o].st = "none"
  BY <1>2 DEF Init, Resting, Absent
<1>4. Working = {s}
  BY <1>3 DEF Working
<1>5. pos # NoPosition
  <2>1. held \in Nat /\ held # 0 /\ pos \in Tracked \cup {NoPosition}
    BY <1>0, <1>1, Numbers DEF IInv, TypeOK
  <2>2. pos = [qty |-> Quantity, stop |-> <<"stop", 1>>, px |-> row.stop]
    BY DEF Init
  <2>3. row.stop \in Levels /\ Quantity \in 1..Quantity
    BY <1>0, Numbers DEF IInv, TypeOK
  <2>4. pos \in Tracked
    BY <1>2, <2>2, <2>3 DEF Tracked
  <2>5. QED
    BY <2>4, SentinelsAssumption
<1>6. Conserved
  <2>1. Sold = 0
    <3>1. PICK f : f = [i \in Partials |-> SoldBy(i)]
      OBVIOUS
    <3>2. Partials = {}
      BY <1>1 DEF Partials
    <3>3. IsFiniteSet({}) /\ \A x \in {} : f[x] = 0
      BY FS_EmptySet
    <3>4. Sum(f, {}) = 0
      BY ONLY <3>3, SumZero
    <3>5. QED
      BY <3>1, <3>2, <3>4 DEF Sold
  <2>2. StopsSold = 0
    <3>1. PICK f : f = [o \in SellIds |-> orders[o].filled]
      OBVIOUS
    <3>2. WorkingStops \subseteq SellIds
      BY DEF WorkingStops, Working
    <3>3. IsFiniteSet(WorkingStops) /\ \A x \in WorkingStops : f[x] = 0
      BY <1>3, <3>1, <3>2, SellIdsFinite, FS_Subset
    <3>4. Sum(f, WorkingStops) = 0
      BY ONLY <3>3, SumZero
    <3>5. QED
      BY <3>1, <3>4 DEF StopsSold
  <2>3. QED
    BY <1>1, <2>1, <2>2, Numbers DEF Conserved, Count
<1>7. Enough /\ Exact /\ Quarantined
  BY <1>1, Numbers DEF Enough, Exact, Quarantined, EarlyAt, ExactAt
<1>8. Safe
  <2>1. Single
    BY <1>4 DEF Single
  <2>2. Fitting
    <3>1. Remaining(s) = held /\ held \in Nat
      BY <1>1, <1>3, Numbers DEF Remaining
    <3>2. QED
      BY <1>4, <3>1 DEF Fitting
  <2>3. Tracks /\ Owns
    BY <1>1, <1>2, <1>4, <1>5 DEF Tracks, Covered, Owns, Busy
  <2>4. Returned /\ Unposted /\ Room
    BY <1>1, NoIntents DEF Returned, Unposted, Room, LadderAt
  <2>5. QED
    BY <2>1, <2>2, <2>3, <2>4 DEF Safe, Covers
<1>9. QED
  BY <1>6, <1>7, <1>8 DEF Sound

LEMMA SoundStep == IInv /\ IInv' /\ Books /\ Sound /\ [Next]_vars => Sound'
<1> SUFFICES ASSUME IInv, IInv', Books, Sound, [Next]_vars PROVE Sound'
  OBVIOUS
<1>1. Conserved /\ Enough /\ Exact /\ Quarantined /\ (Good => Safe)
  BY DEF Sound
<1>2. Conserved' /\ Enough' /\ Exact' /\ Quarantined'
  BY <1>1, ConservedStep, EnoughStep, ExactStep, QuarantinedStep
<1>3. ASSUME Good' PROVE Safe'
  <2>1. Good
    BY <1>1, <1>3, GoodBefore
  <2>2. Ledgers /\ Safe
    BY <1>1, <2>1 DEF Ledgers
  <2>3. QED
    BY <1>3, <2>1, <2>2, SafeStep
<1>4. QED
  BY <1>2, <1>3 DEF Sound

LEMMA SoundInvariant == Spec => []Sound
  BY InitSound, SoundStep, Invariant, BooksInvariant, PTL DEF Spec

\* The one order at work, if any, asks for no more than is held.
LEMMA SoundSells == IInv /\ Sound => NeverOversold
<1> SUFFICES ASSUME IInv, Sound, Good
             PROVE  Sum([o \in SellIds |-> Remaining(o)], Working) <= held
  BY DEF NeverOversold, Good
<1>1. Single /\ Fitting
  BY DEF Sound, Safe
<1>2. held \in Nat
  BY SumsFacts
<1>3. PICK f : f = [o \in SellIds |-> Remaining(o)]
  OBVIOUS
<1>4. CASE Working = {}
  <2>1. IsFiniteSet({}) /\ \A x \in {} : f[x] = 0
    BY FS_EmptySet
  <2>2. Sum(f, {}) = 0
    BY ONLY <2>1, SumZero
  <2>3. QED
    BY <1>2, <1>3, <1>4, <2>2
<1>5. CASE Working # {}
  <2>1. PICK o \in Working : TRUE
    BY <1>5
  <2>2. Working = {o} /\ o \in SellIds
    BY <1>1, <2>1 DEF Single, Working
  <2>3. f[o] = Remaining(o) /\ Remaining(o) \in Int /\ Remaining(o) <= held
    <3>1. orders[o].qty \in Nat /\ orders[o].filled \in Nat
      BY <2>2, OrderFacts DEF IInv
    <3>2. QED
      BY <1>1, <1>3, <2>2, <3>1 DEF Remaining, Fitting
  <2>4. Sum(f, {o}) = f[o]
    <3>1. /\ IsFiniteSet({o}) /\ \A x \in {o} : f[x] \in Int
          /\ \A x \in {o} \ {o} : f[x] = 0
      BY <2>3, FS_Singleton
    <3>2. o \in {o}
      OBVIOUS
    <3>3. QED
      BY ONLY <3>1, <3>2, SumOnly
  <2>5. QED
    BY <1>3, <2>2, <2>3, <2>4
<1>6. QED
  BY <1>4, <1>5

\* With every answer received, one partial that sold and no stop that died half
\* filled, the SELL orders at the broker never ask for more than the account
\* holds: while the full-size stop's cancel races a fill, when the partial is
\* proved, quarantined or recovered late, when the residual's or the breakeven
\* stop is tried twice, and across any number of crashes and reconciliations.
THEOREM PartialNeverOversells == Spec => []NeverOversold
  BY SoundSells, SoundInvariant, Invariant, PTL
=============================================================================
