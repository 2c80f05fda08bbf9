------------------------- MODULE EntryBudget_proof -------------------------
(***************************************************************************)
(* Proofs about EntryBudget, for any number of entries and older           *)
(* positions, any prices and budgets, replacements, failed calls and       *)
(* restarts: the cash guard implements BudgetLedger, a refused entry keeps *)
(* nothing, and the book stays within the loss budget and the cluster cap. *)
(***************************************************************************)
EXTENDS EntryBudget, Sums_proof, FiniteSetTheorems, TLAPS

\* The steps inside the two locks, those before the cash is reserved, before
\* the BUY is sent, and after the attempt has failed.
CashSteps == {"seed", "store", "totals", "reserve"}
RiskSteps == {"reservations", "limits", "approve"}
Before == {"idle", "cash"} \cup CashSteps
Sized == {"intent", "risk", "place"} \cup RiskSteps
Failed == {"unwind", "unrisk", "clear", "refused"}

IsLive(t) == order[t] \in {"working", "filled"}

\* Its loss is still to come into the day's result.
Unsettled(t) == IsLive(t) \/ (order[t] = "sold" /\ pc[t] # "sold")

\* What becomes of a position.
Sale(t) == BrokerSells(t) \/ RecordExit(t) \/ Disappears(t) \/ Reappears(t)

\* Who is inside a lock holds it.
Locking(t) ==
    /\ pc[t] \in CashSteps => cashLock = t
    /\ pc[t] \in RiskSteps => riskLock = t

\* An older position is held or sold; it has no reservation of today's guard.
Older(t) == t \in Foreign => pc[t] \in {"held", "sold"} /\ risk[t] = "none"

\* The cash is set aside before the BUY is sent and given back after it died.
Paid(t) ==
    /\ pc[t] \in Before \cup {"unrisk", "clear", "refused"} => ~Active(t)
    /\ pc[t] \in Sized => Active(t)
    /\ pc[t] = "idle" => cash[t] = "none"
    /\ pc[t] \in {"register", "lost"} => cash[t] # "none"
    /\ t \in Own /\ order[t] \in {"working", "filled", "sold"} => Active(t)
    /\ t \in Own /\ cash[t] = "none" => row[t] = "none" /\ order[t] = "none"

\* Where an entry is says what its order can be,
Sent(t) ==
    /\ pc[t] \in Before \cup Sized \cup Failed => order[t] \in {"none", "dead"}
    /\ pc[t] \in {"record", "commit"} => order[t] = "filled"
    /\ pc[t] = "held" => order[t] \in {"filled", "sold"}
    /\ order[t] = "sold" => pc[t] \in {"held", "sold"}
    /\ pc[t] = "sold" => order[t] = "sold"

\* and what its row is.
Rows(t) ==
    /\ pc[t] \in Before \cup Sized \cup {"register"} => row[t] \in {"none", "pending"}
    /\ pc[t] = "working" => row[t] = "pending"
    /\ pc[t] = "record" => row[t] \in {"pending", "bare", "open"}
    /\ pc[t] \in {"commit", "held"} =>
          row[t] \in {"bare", "open"} \/ (row[t] = "closed" /\ t \in overlooked)
    /\ pc[t] = "lost" /\ IsLive(t) => row[t] # "closed"
    /\ pc[t] = "refused" => row[t] \in {"none", "closed"}

\* A live BUY without a row has a reservation, or it was overlooked.
Risks(t) ==
    /\ pc[t] \in {"place", "register"} => risk[t] = "reserved" /\ t \notin aged
    /\ IsLive(t) /\ row[t] = "none" => risk[t] = "reserved" \/ t \in overlooked
    /\ row[t] = "none" /\ t \in aged => pc[t] = "lost"
    /\ pc[t] \in {"clear", "refused"} => risk[t] # "reserved"
    /\ t \in overlooked => (pc[t] = "lost" /\ row[t] = "none") \/ pc[t] \in {"commit", "held", "sold"}

Good(t) == Locking(t) /\ Older(t) /\ Paid(t) /\ Sent(t) /\ Rows(t) /\ Risks(t)

\* Only an older position is booked by the pass.
Syncing == sync.trade \in Foreign \cup {NoTrade} /\ (sync.at = "write" => sync.trade # NoTrade)

IInv == TypeOK /\ Syncing /\ \A t \in Trades : Good(t)

-----------------------------------------------------------------------------
\* What is set aside fits, and so does the cash of an entry that has passed the totals.
Room ==
    /\ Sum(Cost, Committed) <= env.funds
    /\ \A t \in Trades : pc[t] = "reserve" => Sum(Cost, Committed) + Cost[t] <= env.funds

\* The trades at risk and those that are approved, and what an approval has to count of them.
Claims == {t \in Trades : Unsettled(t) \/ pc[t] \in {"approve", "place"}}
Exposed == Claims \ overlooked

\* Whoever counts has seen every exposed rival, in a reservation, in the book as
\* it was read, or as one that is about to be written off.
Kept(u) == risk[u] = "reserved" /\ row[u] # "closed" /\ u \notin aged
InBook(t, u) == book[t][u] \notin {"none", "closed"}
Orphaning(u) == risk[u] = "reserved" /\ u \in aged /\ row[u] = "none"
Seen ==
    \A t \in Trades : pc[t] = "reservations" =>
        \A u \in Exposed \ {t} : Kept(u) \/ InBook(t, u) \/ Orphaning(u)
Counts == \A t \in Trades : pc[t] = "limits" => Sum(Loss, Exposed) <= counted[t]

LossBound ==
    env.railA => Max0(-pnl) + Sum(Loss, Claims) <= HaltBudget(env.funds) + Sum(Loss, overlooked)

Crowd(t) == {u \in Trades : (u \in Exposed \/ pc[u] = "limits") /\ Cluster[u] = Cluster[t]}
CapBound == env.cap > 0 => \A t \in Trades : Cardinality(Crowd(t)) <= env.cap

Limits == Seen /\ Counts /\ LossBound /\ CapBound

-----------------------------------------------------------------------------
(* Shapes                                                                  *)

\* What a setting is made of.
LEMMA SettingFields ==
    ASSUME env \in Settings
    PROVE  /\ env.funds \in Nat /\ env.cap \in Nat /\ env.mishaps \in Nat
           /\ NoDay \notin 0..env.funds
           /\ env.intents \in BOOLEAN /\ env.railA \in BOOLEAN
           /\ env.held \subseteq Foreign
BY BudgetAssumption

\* Every set of trades is finite, has a sum, and its part the smaller one.
LEMMA TradeSums ==
    /\ \A S \in SUBSET Trades : IsFiniteSet(S)
    /\ \A S \in SUBSET Trades : Sum(Cost, S) \in Nat /\ Sum(Loss, S) \in Nat
    /\ \A S \in SUBSET Trades : \A R \in SUBSET S :
          Sum(Cost, R) <= Sum(Cost, S) /\ Sum(Loss, R) <= Sum(Loss, S)
<1>1. ASSUME NEW S \in SUBSET Trades PROVE IsFiniteSet(S)
  BY BudgetAssumption, FS_Subset
<1>2. ASSUME NEW S \in SUBSET Trades, NEW R \in SUBSET S
      PROVE  /\ Sum(Cost, R) <= Sum(Cost, S) /\ Sum(Loss, R) <= Sum(Loss, S)
             /\ Sum(Cost, S) \in Nat /\ Sum(Loss, S) \in Nat
  <2>1. IsFiniteSet(S) /\ \A x \in S : Cost[x] \in Nat /\ Loss[x] \in Nat
    BY <1>1, BudgetAssumption
  <2>2. QED
    BY <2>1, SumSubset
<1>3. QED
  BY <1>1, <1>2

\* The broker never has more to spend than the day began with.
LEMMA Power ==
    ASSUME env \in Settings
    PROVE  Max0(BuyingPower) \in 0..env.funds
<1>1. Sum(Cost, {t \in Own : order[t] \in {"working", "filled", "sold"}}) \in Nat
  BY TradeSums DEF Trades
<1>2. env.funds \in Nat
  BY SettingFields
<1>3. QED
  BY <1>1, <1>2 DEF BuyingPower, Max0

\* The loss an approval counts is a number, and no less than the planned loss of
\* everyone it has seen.
LEMMA Counting ==
    ASSUME TypeOK, NEW t \in Trades
    PROVE  /\ CountedLoss(t) \in Nat
           /\ \A S \in SUBSET (OtherReservations(t) \cup OtherRows(t)) :
                 Sum(Loss, S) <= CountedLoss(t)
<1> DEFINE f == [u \in Trades |-> PlannedLoss(u, book[t][u])]
           A == OtherReservations(t)
           B == OtherRows(t)
<1>1. A \in SUBSET Trades /\ B \in SUBSET Trades /\ A \cap B = {}
  BY DEF OtherReservations, OtherRows, ActiveReservations
<1>2. \A u \in Trades : Loss[u] \in Nat /\ f[u] \in Nat /\ Loss[u] <= f[u]
  BY BudgetAssumption DEF PlannedLoss
<1>3. CountedLoss(t) = Sum(Loss, A) + Sum(f, B)
  BY DEF CountedLoss
<1> HIDE DEF f, A, B
<1>4. IsFiniteSet(A) /\ IsFiniteSet(B) /\ IsFiniteSet(A \cup B) /\ A \cup B \in SUBSET Trades
  BY <1>1, TradeSums, FS_Union
<1>5. Sum(Loss, A) \in Nat /\ Sum(Loss, B) \in Nat
  BY <1>1, TradeSums
<1>6. Sum(Loss, B) <= Sum(f, B)
  <2>1. \A u \in B : Loss[u] \in Int /\ f[u] \in Int /\ Loss[u] <= f[u]
    BY <1>1, <1>2
  <2>2. QED
    BY <1>4, <2>1, SumGrows
<1>7. Sum(f, B) \in Nat
  <2>1. \A u \in B : f[u] \in Nat
    BY <1>1, <1>2
  <2>2. QED
    BY <1>4, <2>1, SumSubset
<1>8. Sum(Loss, A \cup B) = Sum(Loss, A) + Sum(Loss, B)
  <2>1. \A u \in A \cup B : Loss[u] \in Int
    BY <1>1, <1>2
  <2>2. QED
    BY <1>1, <1>4, <2>1, SumUnion
<1>9. ASSUME NEW S \in SUBSET (A \cup B) PROVE Sum(Loss, S) <= CountedLoss(t)
  <2>1. Sum(Loss, S) <= Sum(Loss, A \cup B) /\ Sum(Loss, S) \in Nat
    BY <1>4, TradeSums
  <2>2. QED
    BY <1>3, <1>5, <1>6, <1>7, <1>8, <2>1
<1>10. QED
  BY <1>3, <1>5, <1>7, <1>9 DEF A, B

\* What the pass in sync_positions is.
SyncStates == [at : {"prefetch", "boot", "idle", "fetch", "store", "write"},
               trade : Trades \cup {NoTrade}, usable : 0..env.funds]

-----------------------------------------------------------------------------
(* Every variable keeps its type                                           *)

\* A failure counts up to its bound.
LEMMA Failing ==
    ASSUME env \in Settings, mishaps \in 0..env.mishaps, Fail \/ mishaps' = mishaps
    PROVE  mishaps' \in 0..env.mishaps
BY SettingFields DEF Fail

\* Only an entry of today is on its way.
LEMMA Today ==
    ASSUME IInv, NEW t \in Trades, pc[t] \notin {"held", "sold"}
    PROVE  t \in Own
BY DEF IInv, Good, Older, Trades

\* Reserving the cash.
LEMMA CashTypes ==
    ASSUME IInv, NEW t \in Trades,
           \/ AllowEntry(t) \/ ReadDay(t) \/ FetchBudget(t) \/ FetchFails(t) \/ StoreDay(t)
           \/ ReadTotals(t) \/ WriteCash(t) \/ PersistIntent(t)
    PROVE  TypeOK'
<1> USE DEF durable, locals, locks, bounds, Go
<1>1. TypeOK /\ 0 \in 0..env.funds /\ (day # NoDay => day \in 0..env.funds)
  BY SettingFields DEF IInv, TypeOK
<1>2. Max0(BuyingPower) \in 0..env.funds
  BY <1>1, Power DEF TypeOK
<1>3. CASE AllowEntry(t)
  BY <1>1, <1>3 DEF AllowEntry, TypeOK, Places, Breached
<1>4. CASE ReadDay(t)
  <2>1. t \in Own
    BY <1>4, Today DEF ReadDay
  <2>2. usable' \in [Trades -> 0..env.funds]
    BY <1>1, <1>4 DEF ReadDay, TypeOK
  <2>3. QED
    BY <1>1, <1>4, <2>1, <2>2 DEF ReadDay, TypeOK, Places
<1>5. CASE FetchBudget(t)
  BY <1>1, <1>2, <1>5 DEF FetchBudget, TypeOK, Places
<1>6. CASE FetchFails(t)
  <2>1. mishaps' \in 0..env.mishaps
    BY <1>1, <1>6, Failing DEF FetchFails, TypeOK
  <2>2. QED
    BY <1>1, <1>6, <2>1 DEF FetchFails, TypeOK, Places
<1>7. CASE StoreDay(t)
  BY <1>1, <1>7 DEF StoreDay, TypeOK, Places
<1>8. CASE ReadTotals(t)
  BY <1>1, <1>8 DEF ReadTotals, TypeOK, Places
<1>9. CASE WriteCash(t)
  <2>1. cash' \in [Trades -> CashStatus] /\ pc' \in [Trades -> Places]
    BY <1>1, <1>9 DEF WriteCash, TypeOK, Places, CashStatus
  <2>2. QED
    BY <1>1, <1>9, <2>1 DEF WriteCash, TypeOK
<1>10. CASE PersistIntent(t)
  <2>1. mishaps' \in 0..env.mishaps
    BY <1>1, <1>10, Failing DEF PersistIntent, TypeOK
  <2>2. row' \in [Trades -> RowStatus] /\ pc' \in [Trades -> Places]
    BY <1>1, <1>10 DEF PersistIntent, TypeOK, Places, RowStatus
  <2>3. QED
    BY <1>1, <1>10, <2>1, <2>2 DEF PersistIntent, TypeOK
<1>11. QED
  BY <1>3, <1>4, <1>5, <1>6, <1>7, <1>8, <1>9, <1>10

\* Sizing the risk, and giving it back or committing it.
LEMMA RiskTypes ==
    ASSUME IInv, NEW t \in Trades,
           \/ ReadBook(t) \/ ReadReservations(t) \/ TestLimits(t) \/ WriteRisk(t)
           \/ CommitRisk(t) \/ ReleaseRisk(t)
    PROVE  TypeOK'
<1> USE DEF durable, locals, locks, bounds, Go
<1>1. TypeOK
  BY DEF IInv
<1>2. CASE ReadBook(t)
  <2>1. t \in Own
    BY <1>2, Today DEF ReadBook
  <2>2. QED
    BY <1>1, <1>2, <2>1 DEF ReadBook, TypeOK, Places
<1>3. CASE ReadReservations(t)
  <2>1. risk' \in [Trades -> RiskStatus] /\ aged' \subseteq {u \in Trades : risk'[u] = "reserved"}
    BY <1>1, <1>3 DEF ReadReservations, TypeOK, RiskStatus
  <2>2. CountedLoss(t) \in Nat
    BY <1>1, Counting
  <2>3. counted' \in [Trades -> Nat] /\ pc' \in [Trades -> Places]
        /\ riskLock' \in Own \cup {NoTrade}
    BY <1>1, <1>3, <2>2 DEF ReadReservations, TypeOK, Places
  <2>4. book' \in [Trades -> [Trades -> RowStatus]]
    <3>1. [u \in Trades |-> "none"] \in [Trades -> RowStatus]
      BY DEF RowStatus
    <3>2. QED
      BY <1>1, <1>3, <3>1 DEF ReadReservations, TypeOK
  <2>5. overlooked' \subseteq Trades
    BY <1>1, <1>3 DEF ReadReservations, TypeOK, ActiveReservations
  <2>6. QED
    BY <1>1, <1>3, <2>1, <2>3, <2>4, <2>5 DEF ReadReservations, TypeOK
<1>4. CASE TestLimits(t)
  BY <1>1, <1>4 DEF TestLimits, TypeOK, Places, Breached
<1>5. CASE WriteRisk(t)
  <2>1. mishaps' \in 0..env.mishaps
    BY <1>1, <1>5, Failing DEF WriteRisk, TypeOK
  <2>2. QED
    BY <1>1, <1>5, <2>1 DEF WriteRisk, TypeOK, Places, RiskStatus
<1>6. CASE CommitRisk(t)
  BY <1>1, <1>6 DEF CommitRisk, TypeOK, Places, RiskStatus
<1>7. CASE ReleaseRisk(t)
  BY <1>1, <1>7 DEF ReleaseRisk, TypeOK, Places, RiskStatus
<1>8. QED
  BY <1>2, <1>3, <1>4, <1>5, <1>6, <1>7

\* The BUY and what becomes of it.
LEMMA OrderTypes ==
    ASSUME IInv, NEW t \in Trades,
           \/ Place(t) \/ PlaceRefused(t) \/ Register(t) \/ BrokerResolves(t) \/ FinalizeCash(t)
           \/ RecordOpen(t) \/ NoFill(t) \/ Reprice(t) \/ ReleaseCash(t) \/ CloseRow(t)
           \/ Protect(t) \/ Sale(t)
    PROVE  TypeOK'
<1> USE DEF durable, locals, locks, bounds, Go
<1>1. TypeOK
  BY DEF IInv
<1>2. CASE Place(t)
  <2>1. mishaps' \in 0..env.mishaps
    BY <1>1, <1>2, Failing DEF Place, TypeOK
  <2>2. QED
    BY <1>1, <1>2, <2>1 DEF Place, TypeOK, Places, OrderStatus
<1>3. CASE PlaceRefused(t)
  <2>1. mishaps' \in 0..env.mishaps
    BY <1>1, <1>3, Failing DEF PlaceRefused, TypeOK
  <2>2. QED
    BY <1>1, <1>3, <2>1 DEF PlaceRefused, TypeOK, Places, RowStatus
<1>4. CASE Register(t)
  BY <1>1, <1>4 DEF Register, TypeOK, Places, RowStatus
<1>5. CASE BrokerResolves(t)
  BY <1>1, <1>5 DEF BrokerResolves, TypeOK, OrderStatus
<1>6. CASE FinalizeCash(t)
  BY <1>1, <1>6 DEF FinalizeCash, TypeOK, Places, CashStatus, Consumed
<1>7. CASE RecordOpen(t)
  BY <1>1, <1>7 DEF RecordOpen, TypeOK, Places, RowStatus
<1>8. CASE NoFill(t)
  BY <1>1, <1>8 DEF NoFill, TypeOK, Places
<1>9. CASE Reprice(t)
  <2>1. tries' \in [Trades -> 0..Reprices]
    BY <1>1, <1>9, BudgetAssumption DEF Reprice, TypeOK
  <2>2. QED
    BY <1>1, <1>9, <2>1 DEF Reprice, TypeOK, Places, CashStatus
<1>10. CASE ReleaseCash(t)
  BY <1>1, <1>10 DEF ReleaseCash, TypeOK, Places, CashStatus
<1>11. CASE CloseRow(t)
  BY <1>1, <1>11 DEF CloseRow, TypeOK, Places, RowStatus
<1>12. CASE Protect(t)
  BY <1>1, <1>12 DEF Protect, TypeOK, RowStatus
<1>13. CASE Sale(t)
  <2>1. CASE BrokerSells(t)
    BY <1>1, <2>1 DEF BrokerSells, TypeOK, OrderStatus
  <2>2. CASE RecordExit(t)
    <3>1. pnl' \in Int
      <4>1. Loss[t] \in Nat /\ pnl \in Int
        BY <1>1, BudgetAssumption DEF TypeOK
      <4>2. \E result \in {1, -Loss[t]} : pnl' = pnl + result
        BY <2>2 DEF RecordExit
      <4>3. QED
        BY <4>1, <4>2
    <3>2. QED
      BY <1>1, <2>2, <3>1 DEF RecordExit, TypeOK, Places, RowStatus
  <2>3. CASE Disappears(t)
    <3>1. mishaps' \in 0..env.mishaps
      BY <1>1, <2>3, Failing DEF Disappears, TypeOK
    <3>2. QED
      BY <1>1, <2>3, <3>1 DEF Disappears, TypeOK, RowStatus
  <2>4. CASE Reappears(t)
    BY <1>1, <2>4 DEF Reappears, TypeOK, RowStatus
  <2>5. QED
    BY <1>13, <2>1, <2>2, <2>3, <2>4 DEF Sale
<1>14. QED
  BY <1>2, <1>3, <1>4, <1>5, <1>6, <1>7, <1>8, <1>9, <1>10, <1>11, <1>12, <1>13

\* Time, the pass, the prefetch, the halt and restarts; the pass books older
\* positions only.
LEMMA SessionTypes ==
    ASSUME IInv,
           \/ \E t \in Trades : Age(t) \/ SyncPosition(t)
           \/ BookActions \/ Prefetch \/ EnsureDay \/ EnsureStores \/ SyncWrites \/ Crash
    PROVE  TypeOK' /\ Syncing'
<1> USE DEF durable, locals, locks, bounds
<1>1. TypeOK /\ Syncing /\ 0 \in 0..env.funds
  BY SettingFields DEF IInv, TypeOK
<1>2. sync \in SyncStates
  BY <1>1 DEF TypeOK, SyncStates
<1>3. CASE \E t \in Trades : Age(t)
  BY <1>1, <1>3 DEF Age, TypeOK, Syncing
<1>4. ASSUME NEW t \in Trades, SyncPosition(t) PROVE TypeOK' /\ Syncing'
  <2>1. t \in Foreign
    <3>1. Good(t) /\ pc[t] = "held" /\ cash[t] = "none" /\ t \in Own \cup Foreign
      BY <1>4 DEF IInv, SyncPosition, Trades
    <3>2. QED
      BY <3>1 DEF Good, Sent, Paid
  <2>2. PICK x \in {"fetch", "write"} : sync' = [sync EXCEPT !.at = x, !.trade = t]
    BY <1>4 DEF SyncPosition
  <2>3. sync' \in SyncStates /\ sync'.trade = t
    BY <1>2, <2>2 DEF SyncStates
  <2>4. t # NoTrade
    BY BudgetAssumption
  <2>5. QED
    BY <1>1, <1>4, <2>1, <2>3, <2>4 DEF SyncPosition, TypeOK, Syncing, SyncStates
<1>5. CASE BookActions
  BY <1>1, <1>5 DEF BookActions, TypeOK, Syncing
<1>6. CASE Prefetch
  <2>1. PICK x \in {"boot", "idle"} : sync' = [sync EXCEPT !.at = x]
    BY <1>6 DEF Prefetch
  <2>2. sync' \in SyncStates /\ sync'.trade = sync.trade /\ sync'.at = x
    BY <1>2, <2>1 DEF SyncStates
  <2>3. QED
    BY <1>1, <1>6, <2>2 DEF Prefetch, TypeOK, Syncing, SyncStates
<1>7. CASE EnsureDay
  <2>1. mishaps' \in 0..env.mishaps
    BY <1>1, <1>7, Failing DEF EnsureDay, TypeOK
  <2>2. Max0(BuyingPower) \in 0..env.funds
    BY <1>1, Power DEF TypeOK
  <2>3. sync' \in SyncStates /\ sync'.trade = sync.trade
        /\ (sync'.at = "write" => sync.trade # NoTrade)
    <3>1. CASE sync' = [sync EXCEPT !.at = "store", !.usable = Max0(BuyingPower)]
      BY <1>2, <2>2, <3>1 DEF SyncStates
    <3>2. CASE sync.trade = NoTrade /\ sync' = [sync EXCEPT !.at = "idle"]
      BY <1>2, <3>2 DEF SyncStates
    <3>3. CASE sync.trade # NoTrade /\ sync' = [sync EXCEPT !.at = "write"]
      BY <1>2, <3>3 DEF SyncStates
    <3>4. QED
      BY <1>7, <3>1, <3>2, <3>3 DEF EnsureDay
  <2>4. QED
    BY <1>1, <1>7, <2>1, <2>3 DEF EnsureDay, TypeOK, Syncing, SyncStates
<1>8. CASE EnsureStores
  <2>1. sync.usable \in 0..env.funds
    BY <1>2 DEF SyncStates
  <2>2. PICK x \in {"idle", "write"} :
            /\ sync' = [sync EXCEPT !.at = x, !.usable = 0]
            /\ x = "write" => sync.trade # NoTrade
    BY <1>8 DEF EnsureStores
  <2>3. sync' \in SyncStates /\ sync'.trade = sync.trade /\ sync'.at = x
    BY <1>1, <1>2, <2>2 DEF SyncStates
  <2>4. QED
    BY <1>1, <1>8, <2>1, <2>2, <2>3 DEF EnsureStores, TypeOK, Syncing, SyncStates
<1>9. CASE SyncWrites
  <2>1. sync' \in SyncStates /\ sync'.trade = NoTrade /\ sync'.at = "idle"
    BY <1>2, <1>9 DEF SyncWrites, SyncStates
  <2>2. QED
    BY <1>1, <1>9, <2>1 DEF SyncWrites, TypeOK, Syncing, SyncStates, CashStatus
<1>10. CASE Crash
  <2>1. mishaps' \in 0..env.mishaps
    BY <1>1, <1>10, Failing DEF Crash, TypeOK
  <2>2. pc' \in [Trades -> Places]
    BY <1>1, <1>10 DEF Crash, TypeOK, Places
  <2>3. sync' \in SyncStates' /\ sync'.trade = NoTrade /\ sync'.at = "prefetch"
    BY <1>1, <1>10 DEF Crash, SyncStates
  <2>4. /\ usable' \in [Trades -> 0..env.funds] /\ counted' \in [Trades -> Nat]
        /\ book' \in [Trades -> [Trades -> RowStatus]]
    BY <1>1, <1>10 DEF Crash, RowStatus
  <2>5. QED
    BY <1>1, <1>10, <2>1, <2>2, <2>3, <2>4 DEF Crash, TypeOK, Syncing, SyncStates
<1>11. QED
  BY <1>3, <1>4, <1>5, <1>6, <1>7, <1>8, <1>9, <1>10
-----------------------------------------------------------------------------
(* Every trade stays in good order                                         *)

\* The step is none of u's.
Same(u) ==
    /\ pc'[u] = pc[u] /\ cash'[u] = cash[u] /\ order'[u] = order[u] /\ row'[u] = row[u]
    /\ risk'[u] = risk[u] /\ (u \in aged' <=> u \in aged) /\ (u \in overlooked' <=> u \in overlooked)
    /\ pc[u] \in CashSteps => cashLock' = cashLock
    /\ pc[u] \in RiskSteps => riskLock' = riskLock

LEMMA SameGood ==
    ASSUME NEW u \in Trades, Good(u), Same(u)
    PROVE  Good(u)'
BY DEF Good, Locking, Older, Paid, Sent, Rows, Risks, Active, IsLive, Same

\* Reserving the cash.
LEMMA CashGood ==
    ASSUME IInv, NEW t \in Trades,
           \/ AllowEntry(t) \/ ReadDay(t) \/ FetchBudget(t) \/ FetchFails(t)
           \/ StoreDay(t) \/ ReadTotals(t) \/ WriteCash(t) \/ PersistIntent(t)
    PROVE  Good(t)' /\ \A u \in Trades \ {t} : Same(u)
<1> USE DEF durable, locals, locks, bounds, Go, CashSteps, RiskSteps
<1>1. TypeOK /\ Good(t) /\ \A u \in Trades : Locking(u) /\ u # NoTrade
  BY BudgetAssumption DEF IInv, Good
<1>2. CASE AllowEntry(t)
  <2>1. \A u \in Trades \ {t} : Same(u)
    BY <1>1, <1>2 DEF AllowEntry, TypeOK, Same, Locking, CashFree, RiskFree
  <2>2. Good(t)'
    BY <1>1, <1>2 DEF AllowEntry, TypeOK, Good, Locking, Older, Paid, Sent, Rows, Risks, Active,
       IsLive, Before, Sized, Failed, Trades, CashFree, RiskFree
  <2>3. QED
    BY <2>1, <2>2
<1>3. CASE ReadDay(t)
  <2>1. \A u \in Trades \ {t} : Same(u)
    BY <1>1, <1>3 DEF ReadDay, TypeOK, Same, Locking, CashFree, RiskFree
  <2>2. Good(t)'
    BY <1>1, <1>3 DEF ReadDay, TypeOK, Good, Locking, Older, Paid, Sent, Rows, Risks, Active,
       IsLive, Before, Sized, Failed, Trades, CashFree, RiskFree
  <2>3. QED
    BY <2>1, <2>2
<1>4. CASE FetchBudget(t)
  <2>1. \A u \in Trades \ {t} : Same(u)
    BY <1>1, <1>4 DEF FetchBudget, TypeOK, Same, Locking, CashFree, RiskFree
  <2>2. Good(t)'
    BY <1>1, <1>4 DEF FetchBudget, TypeOK, Good, Locking, Older, Paid, Sent, Rows, Risks, Active,
       IsLive, Before, Sized, Failed, Trades, CashFree, RiskFree
  <2>3. QED
    BY <2>1, <2>2
<1>5. CASE FetchFails(t)
  <2>1. \A u \in Trades \ {t} : Same(u)
    BY <1>1, <1>5 DEF FetchFails, TypeOK, Same, Locking, CashFree, RiskFree
  <2>2. Good(t)'
    BY <1>1, <1>5 DEF FetchFails, TypeOK, Good, Locking, Older, Paid, Sent, Rows, Risks, Active,
       IsLive, Before, Sized, Failed, Trades, CashFree, RiskFree
  <2>3. QED
    BY <2>1, <2>2
<1>6. CASE StoreDay(t)
  <2>1. \A u \in Trades \ {t} : Same(u)
    BY <1>1, <1>6 DEF StoreDay, TypeOK, Same, Locking, CashFree, RiskFree
  <2>2. Good(t)'
    BY <1>1, <1>6 DEF StoreDay, TypeOK, Good, Locking, Older, Paid, Sent, Rows, Risks, Active,
       IsLive, Before, Sized, Failed, Trades, CashFree, RiskFree
  <2>3. QED
    BY <2>1, <2>2
<1>7. CASE ReadTotals(t)
  <2>1. \A u \in Trades \ {t} : Same(u)
    BY <1>1, <1>7 DEF ReadTotals, TypeOK, Same, Locking, CashFree, RiskFree
  <2>2. Good(t)'
    BY <1>1, <1>7 DEF ReadTotals, TypeOK, Good, Locking, Older, Paid, Sent, Rows, Risks, Active,
       IsLive, Before, Sized, Failed, Trades, CashFree, RiskFree
  <2>3. QED
    BY <2>1, <2>2
<1>8. CASE WriteCash(t)
  <2>1. \A u \in Trades \ {t} : Same(u)
    BY <1>1, <1>8 DEF WriteCash, TypeOK, Same, Locking, CashFree, RiskFree
  <2>2. Good(t)'
    BY <1>1, <1>8 DEF WriteCash, TypeOK, Good, Locking, Older, Paid, Sent, Rows, Risks, Active,
       IsLive, Before, Sized, Failed, Trades, CashFree, RiskFree
  <2>3. QED
    BY <2>1, <2>2
<1>9. CASE PersistIntent(t)
  <2>1. \A u \in Trades \ {t} : Same(u)
    BY <1>1, <1>9 DEF PersistIntent, TypeOK, Same, Locking, CashFree, RiskFree
  <2>2. Good(t)'
    BY <1>1, <1>9 DEF PersistIntent, TypeOK, Good, Locking, Older, Paid, Sent, Rows, Risks, Active,
       IsLive, Before, Sized, Failed, Trades, CashFree, RiskFree
  <2>3. QED
    BY <2>1, <2>2
<1>10. QED
  BY <1>2, <1>3, <1>4, <1>5, <1>6, <1>7, <1>8, <1>9

\* Sizing the risk, and giving it back or committing it.
LEMMA RiskGood ==
    ASSUME IInv, NEW t \in Trades,
           \/ ReadBook(t) \/ TestLimits(t) \/ WriteRisk(t) \/ CommitRisk(t)
           \/ ReleaseRisk(t)
    PROVE  Good(t)' /\ \A u \in Trades \ {t} : Same(u)
<1> USE DEF durable, locals, locks, bounds, Go, CashSteps, RiskSteps
<1>1. TypeOK /\ Good(t) /\ \A u \in Trades : Locking(u) /\ u # NoTrade
  BY BudgetAssumption DEF IInv, Good
<1>2. CASE ReadBook(t)
  <2>1. \A u \in Trades \ {t} : Same(u)
    BY <1>1, <1>2 DEF ReadBook, TypeOK, Same, Locking, CashFree, RiskFree
  <2>2. Good(t)'
    BY <1>1, <1>2 DEF ReadBook, TypeOK, Good, Locking, Older, Paid, Sent, Rows, Risks, Active,
       IsLive, Before, Sized, Failed, Trades, CashFree, RiskFree
  <2>3. QED
    BY <2>1, <2>2
<1>3. CASE TestLimits(t)
  <2>1. \A u \in Trades \ {t} : Same(u)
    BY <1>1, <1>3 DEF TestLimits, TypeOK, Same, Locking, CashFree, RiskFree
  <2>2. Good(t)'
    BY <1>1, <1>3 DEF TestLimits, TypeOK, Good, Locking, Older, Paid, Sent, Rows, Risks, Active,
       IsLive, Before, Sized, Failed, Trades, CashFree, RiskFree
  <2>3. QED
    BY <2>1, <2>2
<1>4. CASE WriteRisk(t)
  <2>1. \A u \in Trades \ {t} : Same(u)
    BY <1>1, <1>4 DEF WriteRisk, TypeOK, Same, Locking, CashFree, RiskFree
  <2>2. Good(t)'
    BY <1>1, <1>4 DEF WriteRisk, TypeOK, Good, Locking, Older, Paid, Sent, Rows, Risks, Active,
       IsLive, Before, Sized, Failed, Trades, CashFree, RiskFree
  <2>3. QED
    BY <2>1, <2>2
<1>5. CASE CommitRisk(t)
  <2>1. \A u \in Trades \ {t} : Same(u)
    BY <1>1, <1>5 DEF CommitRisk, TypeOK, Same, Locking, CashFree, RiskFree
  <2>2. Good(t)'
    BY <1>1, <1>5 DEF CommitRisk, TypeOK, Good, Locking, Older, Paid, Sent, Rows, Risks, Active,
       IsLive, Before, Sized, Failed, Trades, CashFree, RiskFree
  <2>3. QED
    BY <2>1, <2>2
<1>6. CASE ReleaseRisk(t)
  <2>1. \A u \in Trades \ {t} : Same(u)
    BY <1>1, <1>6 DEF ReleaseRisk, TypeOK, Same, Locking, CashFree, RiskFree
  <2>2. Good(t)'
    BY <1>1, <1>6 DEF ReleaseRisk, TypeOK, Good, Locking, Older, Paid, Sent, Rows, Risks, Active,
       IsLive, Before, Sized, Failed, Trades, CashFree, RiskFree
  <2>3. QED
    BY <2>1, <2>2
<1>7. QED
  BY <1>2, <1>3, <1>4, <1>5, <1>6

\* The BUY and what becomes of it.
LEMMA OrderGood ==
    ASSUME IInv, NEW t \in Trades,
           \/ Place(t) \/ PlaceRefused(t) \/ Register(t) \/ BrokerResolves(t)
           \/ FinalizeCash(t) \/ RecordOpen(t) \/ NoFill(t) \/ Reprice(t)
           \/ ReleaseCash(t) \/ CloseRow(t) \/ Protect(t) \/ Sale(t)
    PROVE  Good(t)' /\ \A u \in Trades \ {t} : Same(u)
<1> USE DEF durable, locals, locks, bounds, Go, CashSteps, RiskSteps
<1>1. TypeOK /\ Good(t) /\ \A u \in Trades : Locking(u) /\ u # NoTrade
  BY BudgetAssumption DEF IInv, Good
<1>2. CASE Place(t)
  <2>1. \A u \in Trades \ {t} : Same(u)
    BY <1>1, <1>2 DEF Place, TypeOK, Same, Locking, CashFree, RiskFree
  <2>2. Good(t)'
    BY <1>1, <1>2 DEF Place, TypeOK, Good, Locking, Older, Paid, Sent, Rows, Risks, Active,
       IsLive, Before, Sized, Failed, Trades, CashFree, RiskFree
  <2>3. QED
    BY <2>1, <2>2
<1>3. CASE PlaceRefused(t)
  <2>1. \A u \in Trades \ {t} : Same(u)
    BY <1>1, <1>3 DEF PlaceRefused, TypeOK, Same, Locking, CashFree, RiskFree
  <2>2. Good(t)'
    BY <1>1, <1>3 DEF PlaceRefused, TypeOK, Good, Locking, Older, Paid, Sent, Rows, Risks, Active,
       IsLive, Before, Sized, Failed, Trades, CashFree, RiskFree
  <2>3. QED
    BY <2>1, <2>2
<1>4. CASE Register(t)
  <2>1. \A u \in Trades \ {t} : Same(u)
    BY <1>1, <1>4 DEF Register, TypeOK, Same, Locking, CashFree, RiskFree
  <2>2. Good(t)'
    BY <1>1, <1>4 DEF Register, TypeOK, Good, Locking, Older, Paid, Sent, Rows, Risks, Active,
       IsLive, Before, Sized, Failed, Trades, CashFree, RiskFree
  <2>3. QED
    BY <2>1, <2>2
<1>5. CASE BrokerResolves(t)
  <2>1. \A u \in Trades \ {t} : Same(u)
    BY <1>1, <1>5 DEF BrokerResolves, TypeOK, Same, Locking, CashFree, RiskFree
  <2>2. Good(t)'
    BY <1>1, <1>5 DEF BrokerResolves, TypeOK, Good, Locking, Older, Paid, Sent, Rows, Risks, Active,
       IsLive, Before, Sized, Failed, Trades, CashFree, RiskFree
  <2>3. QED
    BY <2>1, <2>2
<1>6. CASE FinalizeCash(t)
  <2>1. \A u \in Trades \ {t} : Same(u)
    BY <1>1, <1>6 DEF FinalizeCash, TypeOK, Same, Locking, CashFree, RiskFree
  <2>2. Good(t)'
    <3>1. t \in Own /\ Active(t)
      BY <1>1, <1>6 DEF FinalizeCash, Good, Older, Paid, Trades
    <3>2. QED
      BY <1>1, <1>6, <3>1 DEF FinalizeCash, TypeOK, Good, Locking, Older, Paid, Sent, Rows, Risks,
         RowStatus, Active, IsLive, Before, Sized, Failed, Trades, CashFree, RiskFree, Consumed
  <2>3. QED
    BY <2>1, <2>2
<1>7. CASE RecordOpen(t)
  <2>1. \A u \in Trades \ {t} : Same(u)
    BY <1>1, <1>7 DEF RecordOpen, TypeOK, Same, Locking, CashFree, RiskFree
  <2>2. Good(t)'
    BY <1>1, <1>7 DEF RecordOpen, TypeOK, Good, Locking, Older, Paid, Sent, Rows, Risks, Active,
       IsLive, Before, Sized, Failed, Trades, CashFree, RiskFree
  <2>3. QED
    BY <2>1, <2>2
<1>8. CASE NoFill(t)
  <2>1. \A u \in Trades \ {t} : Same(u)
    BY <1>1, <1>8 DEF NoFill, TypeOK, Same, Locking, CashFree, RiskFree
  <2>2. Good(t)'
    BY <1>1, <1>8 DEF NoFill, TypeOK, Good, Locking, Older, Paid, Sent, Rows, Risks, Active,
       IsLive, Before, Sized, Failed, Trades, CashFree, RiskFree
  <2>3. QED
    BY <2>1, <2>2
<1>9. CASE Reprice(t)
  <2>1. \A u \in Trades \ {t} : Same(u)
    BY <1>1, <1>9 DEF Reprice, TypeOK, Same, Locking, CashFree, RiskFree
  <2>2. Good(t)'
    BY <1>1, <1>9 DEF Reprice, TypeOK, Good, Locking, Older, Paid, Sent, Rows, Risks, Active,
       IsLive, Before, Sized, Failed, Trades, CashFree, RiskFree
  <2>3. QED
    BY <2>1, <2>2
<1>10. CASE ReleaseCash(t)
  <2>1. \A u \in Trades \ {t} : Same(u)
    BY <1>1, <1>10 DEF ReleaseCash, TypeOK, Same, Locking, CashFree, RiskFree
  <2>2. Good(t)'
    BY <1>1, <1>10 DEF ReleaseCash, TypeOK, Good, Locking, Older, Paid, Sent, Rows, Risks, Active,
       IsLive, Before, Sized, Failed, Trades, CashFree, RiskFree
  <2>3. QED
    BY <2>1, <2>2
<1>11. CASE CloseRow(t)
  <2>1. \A u \in Trades \ {t} : Same(u)
    BY <1>1, <1>11 DEF CloseRow, TypeOK, Same, Locking, CashFree, RiskFree
  <2>2. Good(t)'
    BY <1>1, <1>11 DEF CloseRow, TypeOK, Good, Locking, Older, Paid, Sent, Rows, Risks, Active,
       IsLive, Before, Sized, Failed, Trades, CashFree, RiskFree
  <2>3. QED
    BY <2>1, <2>2
<1>12. CASE Protect(t)
  <2>1. \A u \in Trades \ {t} : Same(u)
    BY <1>1, <1>12 DEF Protect, TypeOK, Same, Locking, CashFree, RiskFree
  <2>2. Good(t)'
    BY <1>1, <1>12 DEF Protect, TypeOK, Good, Locking, Older, Paid, Sent, Rows, Risks, Active,
       IsLive, Before, Sized, Failed, Trades, CashFree, RiskFree
  <2>3. QED
    BY <2>1, <2>2
<1>13. CASE Sale(t)
  <2>1. CASE BrokerSells(t)
    <3>1. \A u \in Trades \ {t} : Same(u)
      BY <1>1, <2>1 DEF BrokerSells, TypeOK, Same, Locking, CashFree, RiskFree
    <3>2. Good(t)'
      BY <1>1, <2>1 DEF BrokerSells, TypeOK, Good, Locking, Older, Paid, Sent, Rows, Risks, Active,
         IsLive, Before, Sized, Failed, Trades, CashFree, RiskFree
    <3>3. QED
      BY <3>1, <3>2
  <2>2. CASE RecordExit(t)
    <3>1. \A u \in Trades \ {t} : Same(u)
      BY <1>1, <2>2 DEF RecordExit, TypeOK, Same, Locking, CashFree, RiskFree
    <3>2. Good(t)'
      BY <1>1, <2>2 DEF RecordExit, TypeOK, Good, Locking, Older, Paid, Sent, Rows, Risks, Active,
         IsLive, Before, Sized, Failed, Trades, CashFree, RiskFree
    <3>3. QED
      BY <3>1, <3>2
  <2>3. CASE Disappears(t)
    <3>1. \A u \in Trades \ {t} : Same(u)
      BY <1>1, <2>3 DEF Disappears, TypeOK, Same, Locking, CashFree, RiskFree
    <3>2. Good(t)'
      BY <1>1, <2>3 DEF Disappears, TypeOK, Good, Locking, Older, Paid, Sent, Rows, Risks, Active,
         IsLive, Before, Sized, Failed, Trades, CashFree, RiskFree
    <3>3. QED
      BY <3>1, <3>2
  <2>4. CASE Reappears(t)
    <3>1. \A u \in Trades \ {t} : Same(u)
      BY <1>1, <2>4 DEF Reappears, TypeOK, Same, Locking, CashFree, RiskFree
    <3>2. Good(t)'
      BY <1>1, <2>4 DEF Reappears, TypeOK, Good, Locking, Older, Paid, Sent, Rows, Risks, Active,
         IsLive, Before, Sized, Failed, Trades, CashFree, RiskFree
    <3>3. QED
      BY <3>1, <3>2
  <2>5. QED
    BY <1>13, <2>1, <2>2, <2>3, <2>4 DEF Sale
<1>14. QED
  BY <1>2, <1>3, <1>4, <1>5, <1>6, <1>7, <1>8, <1>9, <1>10, <1>11, <1>12, <1>13

\* Reading the reservations expires those past their time, of whoever they are.
LEMMA ExpiryGood ==
    ASSUME IInv, NEW t \in Trades, ReadReservations(t), NEW u \in Trades
    PROVE  Good(u)'
<1> DEFINE expired == ActiveReservations \cap aged
<1>1. TypeOK /\ Good(u) /\ Good(t) /\ u # NoTrade /\ t # NoTrade
  BY BudgetAssumption DEF IInv
<1>2. /\ cash'[u] = cash[u] /\ order'[u] = order[u] /\ row'[u] = row[u]
      /\ risk'[u] = IF u \in expired THEN "expired" ELSE risk[u]
      /\ u \in aged' <=> u \in aged /\ u \notin expired
      /\ u \in overlooked' <=> u \in overlooked \/ (u \in expired /\ row[u] = "none" /\ IsLive(u))
      /\ cashLock' = cashLock
  BY DEF ReadReservations, IsLive
<1>3. /\ pc[t] = "reservations" /\ riskLock = t
      /\ riskLock' \in {NoTrade, riskLock} /\ (riskLock' = NoTrade => pc'[t] = "unwind")
      /\ pc'[t] \in {"limits", "unwind"}
      /\ u # t => pc'[u] = pc[u]
  <2>1. \E x \in {"limits", "unwind"} :
            /\ pc' = [pc EXCEPT ![t] = x]
            /\ riskLock' = IF x = "unwind" THEN NoTrade ELSE riskLock
    BY DEF ReadReservations, Go
  <2>2. pc[t] = "reservations" /\ riskLock = t /\ pc \in [Trades -> Places]
    BY <1>1 DEF ReadReservations, TypeOK, Good, Locking, RiskSteps
  <2>3. QED
    BY <1>1, <2>1, <2>2
<1>4. u \in expired => u \in aged /\ risk[u] = "reserved"
  BY DEF ActiveReservations
<1> HIDE DEF expired
<1>5. CASE u = t
  BY <1>1, <1>2, <1>3, <1>4, <1>5 DEF Good, Locking, Older, Paid, Sent, Rows, Risks, Active,
     IsLive, CashSteps, RiskSteps, Before, Sized, Failed
<1>6. CASE u # t
  BY <1>1, <1>2, <1>3, <1>4, <1>6 DEF Good, Locking, Older, Paid, Sent, Rows, Risks, Active,
     IsLive, CashSteps, RiskSteps
<1>7. QED
  BY <1>5, <1>6

\* Time, the pass, the prefetch and the halt.
LEMMA SessionGood ==
    ASSUME IInv, NEW u \in Trades,
           \/ \E t \in Trades : Age(t) \/ SyncPosition(t)
           \/ BookActions \/ Prefetch \/ EnsureDay \/ EnsureStores \/ SyncWrites
    PROVE  Good(u)'
<1> USE DEF durable, locals, locks, bounds
<1>1. TypeOK /\ Good(u)
  BY DEF IInv
<1>2. ASSUME NEW t \in Trades, Age(t) PROVE Good(u)'
  <2>1. CASE u # t
    BY <1>1, <1>2, <2>1, SameGood DEF Age, Same
  <2>2. CASE u = t
    BY <1>1, <1>2, <2>2 DEF Age, TypeOK, Good, Locking, Older, Paid, Sent, Rows, Risks, Active,
       IsLive
  <2>3. QED
    BY <2>1, <2>2
<1>3. CASE \/ \E t \in Trades : SyncPosition(t)
           \/ BookActions \/ Prefetch \/ EnsureDay \/ EnsureStores
  <2>1. Same(u)
    BY <1>3 DEF SyncPosition, BookActions, Prefetch, EnsureDay, EnsureStores, Same
  <2>2. QED
    BY <1>1, <2>1, SameGood
<1>4. CASE SyncWrites
  <2>1. CASE u # sync.trade
    BY <1>1, <1>4, <2>1, SameGood DEF SyncWrites, Same, TypeOK
  <2>2. CASE u = sync.trade
    <3>1. u \in Foreign /\ u \notin Own
      BY <2>2, BudgetAssumption DEF IInv, Syncing
    <3>2. pc[u] \in {"held", "sold"}
      BY <1>1, <3>1 DEF Good, Older
    <3>3. cash'[u] = "consumed" /\ UNCHANGED <<pc, order, row, risk, aged, overlooked>>
      BY <1>1, <1>4, <2>2 DEF SyncWrites, TypeOK
    <3>4. QED
      BY <1>1, <3>1, <3>2, <3>3 DEF Good, Locking, Older, Paid, Sent, Rows, Risks, Active,
         IsLive, CashSteps, RiskSteps, Before, Sized
  <2>3. QED
    BY <2>1, <2>2
<1>5. QED
  BY <1>2, <1>3, <1>4

\* A restart keeps the tables and the orders.
LEMMA CrashGood ==
    ASSUME IInv, Crash, NEW u \in Trades
    PROVE  Good(u)'
<1>1. TypeOK /\ Good(u)
  BY DEF IInv
<1>2. UNCHANGED <<cash, risk, aged, row, order, overlooked>>
  BY DEF Crash, durable
<1>3. \/ pc[u] \in {"idle", "held", "refused", "sold"} /\ pc'[u] = pc[u]
      \/ pc[u] = "commit" /\ pc'[u] = "held"
      \/ /\ pc[u] \notin {"idle", "held", "refused", "sold", "commit"}
         /\ order[u] = "none" /\ cash[u] = "none" /\ pc'[u] = "idle"
      \/ /\ pc[u] \notin {"idle", "held", "refused", "sold", "commit"}
         /\ ~(order[u] = "none" /\ cash[u] = "none") /\ pc'[u] = "lost"
  BY DEF Crash
<1>4. u \in Own \/ u \in Foreign
  BY DEF Trades
<1>5. CASE pc[u] \in {"idle", "held", "refused", "sold"} /\ pc'[u] = pc[u]
  BY <1>1, <1>2, <1>5 DEF Good, Locking, Older, Paid, Sent, Rows, Risks, Active, IsLive,
     CashSteps, RiskSteps
<1>6. CASE pc[u] = "commit" /\ pc'[u] = "held"
  BY <1>1, <1>2, <1>4, <1>6 DEF Good, Locking, Older, Paid, Sent, Rows, Risks, Active, IsLive,
     CashSteps, RiskSteps, Before, Sized, Failed
<1>7. CASE /\ pc[u] \notin {"idle", "held", "refused", "sold", "commit"}
           /\ order[u] = "none" /\ cash[u] = "none" /\ pc'[u] = "idle"
  BY <1>1, <1>2, <1>4, <1>7 DEF Good, Locking, Older, Paid, Sent, Rows, Risks, Active, IsLive,
     CashSteps, RiskSteps, Before, Sized, Failed
<1>8. CASE /\ pc[u] \notin {"idle", "held", "refused", "sold", "commit"}
           /\ ~(order[u] = "none" /\ cash[u] = "none") /\ pc'[u] = "lost"
  <2>1. pc[u] \in Places /\ u \in Own /\ cash[u] # "none"
    BY <1>1, <1>4, <1>8 DEF TypeOK, Good, Older, Paid
  <2>2. Rows(u)'
    BY <1>1, <1>2, <1>8, <2>1 DEF Good, Sent, Rows, IsLive, Places, CashSteps, RiskSteps, Before,
       Sized, Failed
  <2>3. Risks(u)'
    BY <1>1, <1>2, <1>8 DEF Good, Risks, IsLive
  <2>4. QED
    BY <1>1, <1>2, <1>8, <2>1, <2>2, <2>3 DEF Good, Locking, Older, Paid, Sent, Active,
       CashSteps, RiskSteps, Before, Sized, Failed
<1>9. QED
  BY <1>3, <1>5, <1>6, <1>7, <1>8

-----------------------------------------------------------------------------
(* The invariant of every trade                                            *)

\* It holds at the start
LEMMA Start == Init => IInv
<1> SUFFICES ASSUME Init PROVE IInv
  OBVIOUS
<1>1. env \in Settings /\ 0 \in 0..env.funds /\ 0 \in 0..env.mishaps /\ 0 \in 0..Reprices
  BY SettingFields, BudgetAssumption DEF Init
<1>2. sync \in SyncStates /\ sync.trade = NoTrade /\ sync.at = "prefetch"
  BY <1>1 DEF Init, SyncStates
<1>3. /\ cash \in [Trades -> CashStatus] /\ risk \in [Trades -> RiskStatus]
      /\ row \in [Trades -> RowStatus] /\ order \in [Trades -> OrderStatus]
      /\ pc \in [Trades -> Places]
  BY DEF Init, CashStatus, RiskStatus, RowStatus, OrderStatus, Places
<1>4. /\ usable \in [Trades -> 0..env.funds] /\ counted \in [Trades -> Nat]
      /\ tries \in [Trades -> 0..Reprices]
  BY <1>1 DEF Init
<1>5. book \in [Trades -> [Trades -> RowStatus]]
  BY DEF Init, RowStatus
<1>6. /\ day = NoDay /\ aged = {} /\ pnl = 0 /\ halted \in BOOLEAN /\ cashLock = NoTrade
      /\ riskLock = NoTrade /\ mishaps = 0 /\ overlooked = {}
  BY DEF Init
<1>7. TypeOK
  BY <1>1, <1>2, <1>3, <1>4, <1>5, <1>6 DEF TypeOK, SyncStates
<1>8. Syncing
  BY <1>2 DEF Syncing
<1>9. ASSUME NEW t \in Trades PROVE Good(t)
  <2>1. CASE t \in Own
    <3>1. t \notin Foreign
      BY <2>1, BudgetAssumption
    <3>2. QED
      BY <2>1, <3>1 DEF Init, Good, Locking, Older, Paid, Sent, Rows, Risks, Active, IsLive,
         CashSteps, RiskSteps, Before, Sized, Failed
  <2>2. CASE t \notin Own
    BY <2>2 DEF Init, Good, Locking, Older, Paid, Sent, Rows, Risks, Active, IsLive,
       CashSteps, RiskSteps, Before, Sized, Failed
  <2>3. QED
    BY <2>1, <2>2
<1>10. QED
  BY <1>7, <1>8, <1>9 DEF IInv

\* and after every step.
LEMMA Step == IInv /\ [Next]_vars => IInv'
<1> SUFFICES ASSUME IInv, [Next]_vars PROVE IInv'
  OBVIOUS
<1>1. ASSUME NEW t \in Trades,
             \/ AllowEntry(t) \/ ReadDay(t) \/ FetchBudget(t) \/ FetchFails(t) \/ StoreDay(t)
             \/ ReadTotals(t) \/ WriteCash(t) \/ PersistIntent(t)
      PROVE  IInv'
  <2>1. sync' = sync
    BY <1>1 DEF AllowEntry, ReadDay, FetchBudget, FetchFails, StoreDay, ReadTotals, WriteCash,
       PersistIntent
  <2>2. TypeOK' /\ Good(t)' /\ \A u \in Trades \ {t} : Same(u)
    BY <1>1, CashTypes, CashGood
  <2>3. QED
    BY <2>1, <2>2, SameGood DEF IInv, Syncing
<1>2. ASSUME NEW t \in Trades,
             \/ ReadBook(t) \/ TestLimits(t) \/ WriteRisk(t) \/ CommitRisk(t) \/ ReleaseRisk(t)
      PROVE  IInv'
  <2>1. sync' = sync
    BY <1>2 DEF ReadBook, TestLimits, WriteRisk, CommitRisk, ReleaseRisk
  <2>2. TypeOK' /\ Good(t)' /\ \A u \in Trades \ {t} : Same(u)
    BY <1>2, RiskTypes, RiskGood
  <2>3. QED
    BY <2>1, <2>2, SameGood DEF IInv, Syncing
<1>3. ASSUME NEW t \in Trades, ReadReservations(t) PROVE IInv'
  <2>1. sync' = sync
    BY <1>3 DEF ReadReservations
  <2>2. TypeOK' /\ \A u \in Trades : Good(u)'
    BY <1>3, RiskTypes, ExpiryGood
  <2>3. QED
    BY <2>1, <2>2 DEF IInv, Syncing
<1>4. ASSUME NEW t \in Trades,
             \/ Place(t) \/ PlaceRefused(t) \/ Register(t) \/ BrokerResolves(t)
             \/ FinalizeCash(t) \/ RecordOpen(t) \/ NoFill(t) \/ Reprice(t) \/ ReleaseCash(t)
             \/ CloseRow(t) \/ Protect(t) \/ Sale(t)
      PROVE  IInv'
  <2>1. sync' = sync
    BY <1>4 DEF Place, PlaceRefused, Register, BrokerResolves, FinalizeCash, RecordOpen, NoFill,
       Reprice, ReleaseCash, CloseRow, Protect, Sale, BrokerSells, RecordExit, Disappears, Reappears
  <2>2. TypeOK' /\ Good(t)' /\ \A u \in Trades \ {t} : Same(u)
    BY <1>4, OrderTypes, OrderGood
  <2>3. QED
    BY <2>1, <2>2, SameGood DEF IInv, Syncing
<1>5. CASE \/ \E t \in Trades : Age(t) \/ SyncPosition(t)
           \/ BookActions \/ Prefetch \/ EnsureDay \/ EnsureStores \/ SyncWrites
  BY <1>5, SessionTypes, SessionGood DEF IInv
<1>6. CASE Crash
  BY <1>6, SessionTypes, CrashGood DEF IInv
<1>7. CASE UNCHANGED vars
  BY <1>7 DEF vars, IInv, TypeOK, Syncing, Good, Locking, Older, Paid, Sent, Rows, Risks, Active,
     IsLive
<1>8. QED
  BY <1>1, <1>2, <1>3, <1>4, <1>5, <1>6, <1>7 DEF Next, Entry, Sale

LEMMA AlwaysIInv == Spec => []IInv
BY Start, Step, PTL DEF Spec

\* Day row, reservations, trade book, orders and coroutines keep their types; what the cash
\* guard takes for usable is never more than the settled cash the day began with.
THEOREM TypeCorrect == Spec => []TypeOK
<1>1. IInv => TypeOK
  BY DEF IInv
<1>2. QED
  BY <1>1, AlwaysIInv, PTL

\* However the attempt ended (no cash, a failed write, a limit, a refused or an unfilled BUY),
\* nothing of a refused entry stays behind: not the cash, not the risk, no open row and no BUY
\* that can fill.
THEOREM RefusalsKeepNothing == Spec => []RefusedKeepsNothing
<1>1. IInv => RefusedKeepsNothing
  BY DEF IInv, RefusedKeepsNothing, Good, Paid, Sent, Rows, Risks, Active, Live, Failed, Before,
     Trades
<1>2. QED
  BY <1>1, AlwaysIInv, PTL

-----------------------------------------------------------------------------
(* The cash guard implements BudgetLedger                                  *)

\* What can happen to the cash and the BUY of a trade.
Rests == UNCHANGED <<Committed, Bought>>
Commits(t) == WriteCash(t) /\ t \notin Committed /\ Committed' = Committed \cup {t} /\ Bought' = Bought
Frees(t) == t \in Committed \ Bought /\ Committed' = Committed \ {t} /\ Bought' = Bought
Buys(t) == t \in Committed \ Bought /\ Bought' = Bought \cup {t} /\ Committed' = Committed
Dies(t) == t \in Bought /\ Bought' = Bought \ {t} /\ Committed' = Committed

\* The step of one trade, from what it does to that trade alone.
LEMMA MoveOfOne ==
    ASSUME NEW t \in Own,
           \A u \in Own \ {t} : cash'[u] = cash[u] /\ order'[u] = order[u]
    PROVE  /\ cash'[t] = cash[t] /\ order'[t] = order[t] => Rests
           /\ ~Active(t) /\ Active(t)' /\ order'[t] = order[t] =>
                 t \notin Committed /\ Committed' = Committed \cup {t} /\ Bought' = Bought
           /\ order[t] \in {"none", "dead"} /\ order'[t] = order[t] /\ ~Active(t)' =>
                 Rests \/ Frees(t)
           /\ order[t] \in {"none", "dead"} /\ order'[t] = "working" /\ Active(t) /\ Active(t)' =>
                 Buys(t)
           /\ order[t] = "working" /\ order'[t] = "dead" /\ cash'[t] = cash[t] => Dies(t)
           /\ Active(t) /\ Active(t)' /\ order[t] \in {"working", "filled", "sold"}
                 /\ order'[t] \in {"working", "filled", "sold"} => Rests
BY DEF Rests, Frees, Buys, Dies, Committed, Bought, Active

LEMMA CashMoves ==
    ASSUME IInv, [Next]_vars
    PROVE  Rests \/ \E t \in Own : Commits(t) \/ Frees(t) \/ Buys(t) \/ Dies(t)
<1> USE DEF durable, locals, locks, bounds
<1>1. TypeOK /\ Syncing /\ \A t \in Trades : Good(t)
  BY DEF IInv
<1>2. CASE UNCHANGED <<cash, order>>
  BY <1>2 DEF Rests, Committed, Bought, Active
<1>3. ASSUME NEW t \in Trades, WriteCash(t) PROVE t \in Own /\ Commits(t)
  <2>1. t \in Own /\ ~Active(t)
    BY <1>1, <1>3, Today DEF WriteCash, Good, Paid, Before, CashSteps
  <2>2. cash'[t] = "reserved" /\ order' = order /\ \A u \in Own \ {t} : cash'[u] = cash[u]
    BY <1>1, <1>3 DEF WriteCash, TypeOK
  <2>3. QED
    BY <1>3, <2>1, <2>2, MoveOfOne DEF Commits, Active
<1>4. ASSUME NEW t \in Trades, FinalizeCash(t) PROVE Rests
  <2>1. t \in Own /\ Active(t) /\ order[t] = "filled"
    BY <1>1, <1>4, Today DEF FinalizeCash, Good, Paid
  <2>2. cash'[t] = "consumed" /\ order' = order /\ \A u \in Own \ {t} : cash'[u] = cash[u]
    BY <1>1, <1>4, <2>1 DEF FinalizeCash, TypeOK, Consumed, Active
  <2>3. QED
    BY <2>1, <2>2, MoveOfOne DEF Active
<1>5. ASSUME NEW t \in Trades, Reprice(t) \/ ReleaseCash(t)
      PROVE  t \in Own /\ (Rests \/ Frees(t))
  <2>1. t \in Own /\ order[t] \in {"none", "dead"}
    BY <1>1, <1>5, Today DEF Reprice, ReleaseCash, Good, Sent, Failed
  <2>2. /\ cash'[t] \in {"none", "released"} /\ order' = order
        /\ \A u \in Own \ {t} : cash'[u] = cash[u]
    <3>1. PICK x \in {"none", "released"} : cash' = [cash EXCEPT ![t] = x]
      BY <1>1, <1>5 DEF Reprice, ReleaseCash, TypeOK
    <3>2. order' = order /\ cash \in [Trades -> CashStatus] /\ Own \subseteq Trades
      BY <1>1, <1>5 DEF Reprice, ReleaseCash, TypeOK, Trades
    <3>3. QED
      BY <3>1, <3>2
  <2>3. ~Active(t)'
    BY <2>2 DEF Active
  <2>4. QED
    BY <2>1, <2>2, <2>3, MoveOfOne
<1>6. ASSUME NEW t \in Trades, Place(t) PROVE t \in Own /\ (Rests \/ Buys(t))
  <2>1. t \in Own /\ order[t] \in {"none", "dead"} /\ Active(t)
    BY <1>1, <1>6, Today DEF Place, Good, Sent, Paid, Sized
  <2>2. cash' = cash /\ \A u \in Own \ {t} : order'[u] = order[u]
    BY <1>1, <1>6 DEF Place, TypeOK, Trades
  <2>3. order'[t] \in {"working", order[t]} /\ Active(t)'
    BY <1>1, <1>6, <2>1, <2>2 DEF Place, TypeOK, Active
  <2>4. QED
    BY <2>1, <2>2, <2>3, MoveOfOne
<1>7. ASSUME NEW t \in Trades, BrokerResolves(t) PROVE t \in Own /\ (Rests \/ Dies(t))
  <2>1. t \in Own /\ order[t] = "working" /\ Active(t)
    BY <1>1, <1>7 DEF BrokerResolves, Good, Paid
  <2>2. cash' = cash /\ order'[t] \in {"filled", "dead"} /\ \A u \in Own \ {t} : order'[u] = order[u]
    BY <1>1, <1>7 DEF BrokerResolves, TypeOK
  <2>3. Active(t)'
    BY <2>1, <2>2 DEF Active
  <2>4. QED
    BY <2>1, <2>2, <2>3, MoveOfOne
<1>8. ASSUME NEW t \in Trades, BrokerSells(t) PROVE Rests
  <2>1. cash' = cash /\ order[t] = "filled" /\ order' = [order EXCEPT ![t] = "sold"]
    BY <1>1, <1>8 DEF BrokerSells, Good, Sent
  <2>2. CASE t \in Own
    <3>1. Active(t) /\ Active(t)'
      BY <1>1, <2>1, <2>2 DEF Good, Paid, Active
    <3>2. order'[t] = "sold" /\ \A u \in Own \ {t} : order'[u] = order[u]
      BY <1>1, <2>1 DEF TypeOK
    <3>3. QED
      BY <2>1, <2>2, <3>1, <3>2, MoveOfOne
  <2>3. CASE t \notin Own
    BY <1>1, <2>1, <2>3 DEF Rests, Committed, Bought, Active, TypeOK
  <2>4. QED
    BY <2>2, <2>3
<1>9. CASE SyncWrites
  <2>1. sync.trade \notin Own
    BY <1>1, BudgetAssumption DEF Syncing, Trades
  <2>2. order' = order /\ \A u \in Own : cash'[u] = cash[u]
    BY <1>1, <1>9, <2>1 DEF SyncWrites, TypeOK
  <2>3. QED
    BY <2>2 DEF Rests, Committed, Bought, Active
<1>10. ASSUME NEW t \in Trades,
              \/ AllowEntry(t) \/ ReadDay(t) \/ FetchBudget(t) \/ FetchFails(t) \/ StoreDay(t)
              \/ ReadTotals(t) \/ PersistIntent(t) \/ ReadBook(t) \/ ReadReservations(t)
              \/ TestLimits(t) \/ WriteRisk(t) \/ CommitRisk(t) \/ ReleaseRisk(t)
              \/ PlaceRefused(t) \/ Register(t) \/ RecordOpen(t) \/ NoFill(t) \/ CloseRow(t)
              \/ Protect(t) \/ RecordExit(t) \/ Disappears(t) \/ Reappears(t) \/ Age(t) \/ SyncPosition(t)
       PROVE  UNCHANGED <<cash, order>>
  BY <1>10 DEF AllowEntry, ReadDay, FetchBudget, FetchFails, StoreDay, ReadTotals, PersistIntent,
     ReadBook, ReadReservations, TestLimits, WriteRisk, CommitRisk, ReleaseRisk, PlaceRefused,
     Register, RecordOpen, NoFill, CloseRow, Protect, RecordExit, Disappears, Reappears, Age,
     SyncPosition
<1>11. CASE BookActions \/ Prefetch \/ EnsureDay \/ EnsureStores \/ Crash \/ UNCHANGED vars
  <2>1. UNCHANGED <<cash, order>>
    BY <1>11 DEF BookActions, Prefetch, EnsureDay, EnsureStores, Crash, vars
  <2>2. QED
    BY <1>2, <2>1
<1>12. QED
  BY <1>2, <1>3, <1>4, <1>5, <1>6, <1>7, <1>8, <1>9, <1>10, <1>11 DEF Next, Entry, Sale

\* The setting of the day never changes.
LEMMA SettingStays == [Next]_vars => env' = env
<1> SUFFICES ASSUME [Next]_vars PROVE env' = env
  OBVIOUS
<1>1. ASSUME NEW t \in Trades,
             AllowEntry(t) \/ ReadDay(t) \/ FetchBudget(t) \/ FetchFails(t) \/ StoreDay(t) \/ ReadTotals(t)
      PROVE  env' = env
  BY <1>1 DEF AllowEntry, ReadDay, FetchBudget, FetchFails, StoreDay, ReadTotals, durable
<1>2. ASSUME NEW t \in Trades,
             WriteCash(t) \/ PersistIntent(t) \/ ReadBook(t) \/ ReadReservations(t) \/ TestLimits(t) \/ WriteRisk(t)
      PROVE  env' = env
  BY <1>2 DEF WriteCash, PersistIntent, ReadBook, ReadReservations, TestLimits, WriteRisk, durable
<1>3. ASSUME NEW t \in Trades,
             Place(t) \/ PlaceRefused(t) \/ Register(t) \/ FinalizeCash(t) \/ RecordOpen(t) \/ CommitRisk(t)
      PROVE  env' = env
  BY <1>3 DEF Place, PlaceRefused, Register, FinalizeCash, RecordOpen, CommitRisk, durable
<1>4. ASSUME NEW t \in Trades,
             NoFill(t) \/ Reprice(t) \/ ReleaseCash(t) \/ ReleaseRisk(t) \/ CloseRow(t) \/ BrokerResolves(t)
      PROVE  env' = env
  BY <1>4 DEF NoFill, Reprice, ReleaseCash, ReleaseRisk, CloseRow, BrokerResolves, durable
<1>5. ASSUME NEW t \in Trades,
             Protect(t) \/ Sale(t) \/ Age(t) \/ SyncPosition(t)
      PROVE  env' = env
  BY <1>5 DEF Protect, Sale, BrokerSells, RecordExit, Disappears, Reappears, Age, SyncPosition, durable
<1>6. CASE BookActions \/ Prefetch \/ EnsureDay \/ EnsureStores \/ SyncWrites \/ Crash \/ UNCHANGED vars
  BY <1>6 DEF BookActions, Prefetch, EnsureDay, EnsureStores, SyncWrites, Crash, durable, vars
<1>7. QED
  BY <1>1, <1>2, <1>3, <1>4, <1>5, <1>6 DEF Next, Entry, Sale

\* There is room at the start
LEMMA RoomStarts == Init => Room
<1> SUFFICES ASSUME Init PROVE Room
  OBVIOUS
<1>1. Committed = {} /\ \A t \in Trades : pc[t] # "reserve"
  BY DEF Init, Committed, Active, Trades
<1>2. Sum(Cost, {}) = 0
  BY BudgetAssumption, SumElement
<1>3. env.funds \in Nat
  BY SettingFields DEF Init
<1>4. QED
  BY <1>1, <1>2, <1>3 DEF Room

\* Who enters the step that reserves has just read the totals.
LEMMA Reserving ==
    ASSUME IInv, [Next]_vars, NEW t \in Trades, pc'[t] = "reserve"
    PROVE  \/ pc[t] = "reserve" /\ \A u \in Trades : ~WriteCash(u)
           \/ ReadTotals(t) /\ Cost[t] <= Remaining(t)
<1> USE DEF durable, locals, locks, bounds, Go
<1>1. pc \in [Trades -> Places] /\ \A u \in Trades : Locking(u)
  BY DEF IInv, TypeOK, Good
<1>2. ASSUME NEW u \in Trades,
             \/ AllowEntry(u) \/ ReadDay(u) \/ FetchBudget(u) \/ FetchFails(u) \/ StoreDay(u)
             \/ PersistIntent(u) \/ WriteCash(u) \/ ReadBook(u) \/ TestLimits(u)
             \/ WriteRisk(u) \/ CommitRisk(u) \/ ReleaseRisk(u)
      PROVE  pc[t] = "reserve"
  BY <1>1, <1>2 DEF AllowEntry, ReadDay, FetchBudget, FetchFails, StoreDay, PersistIntent,
     WriteCash, ReadBook, TestLimits, WriteRisk, CommitRisk, ReleaseRisk
<1>3. ASSUME NEW u \in Trades, ReadReservations(u) PROVE pc[t] = "reserve"
  BY <1>1, <1>3 DEF ReadReservations
<1>4. ASSUME NEW u \in Trades,
             \/ Place(u) \/ PlaceRefused(u) \/ Register(u) \/ BrokerResolves(u)
             \/ FinalizeCash(u) \/ RecordOpen(u) \/ NoFill(u) \/ Reprice(u) \/ ReleaseCash(u)
             \/ CloseRow(u) \/ Protect(u) \/ Sale(u) \/ Age(u) \/ SyncPosition(u)
      PROVE  pc[t] = "reserve"
  BY <1>1, <1>4 DEF Place, PlaceRefused, Register, BrokerResolves, FinalizeCash, RecordOpen,
     NoFill, Reprice, ReleaseCash, CloseRow, Protect, Sale, BrokerSells, RecordExit, Disappears, Reappears, Age, SyncPosition
<1>5. ASSUME NEW u \in Trades, ReadTotals(u)
      PROVE  pc[t] = "reserve" \/ (ReadTotals(t) /\ Cost[t] <= Remaining(t))
  <2>1. CASE u # t
    BY <1>1, <1>5, <2>1 DEF ReadTotals
  <2>2. CASE u = t
    <3>1. ~(Cost[t] > Remaining(t))
      BY <1>1, <1>5, <2>2 DEF ReadTotals
    <3>2. Cost[t] \in Nat /\ Remaining(t) \in Int
      <4>1. usable[t] \in 0..env.funds /\ env.funds \in Nat
        BY SettingFields DEF IInv, TypeOK
      <4>2. Sum(Cost, {v \in Trades : Active(v)}) \in Nat
        BY TradeSums
      <4>3. QED
        BY <4>1, <4>2, BudgetAssumption DEF Remaining, Max0
    <3>3. QED
      BY <1>5, <2>2, <3>1, <3>2
  <2>3. QED
    BY <2>1, <2>2
<1>6. ASSUME \/ BookActions \/ Prefetch \/ EnsureDay \/ EnsureStores \/ SyncWrites \/ Crash
             \/ UNCHANGED vars
      PROVE  pc[t] = "reserve"
  BY <1>6 DEF BookActions, Prefetch, EnsureDay, EnsureStores, SyncWrites, Crash, vars
<1>7. ASSUME NEW u \in Trades, WriteCash(u) PROVE FALSE
  <2>1. pc[t] = "reserve" /\ pc[u] = "reserve"
    BY <1>2, <1>7 DEF WriteCash
  <2>2. u = t
    BY <1>1, <2>1 DEF Locking, CashSteps
  <2>3. QED
    BY <1>1, <1>7, <2>2 DEF WriteCash
<1>8. pc[t] = "reserve" \/ (ReadTotals(t) /\ Cost[t] <= Remaining(t))
  BY <1>2, <1>3, <1>4, <1>5, <1>6 DEF Next, Entry, Sale
<1>9. QED
  BY <1>7, <1>8

\* and after every step.
LEMMA RoomStep == IInv /\ Room /\ [Next]_vars => Room'
<1> SUFFICES ASSUME IInv, Room, [Next]_vars PROVE Room'
  OBVIOUS
<1>1. env' = env /\ env.funds \in Nat
  BY SettingStays, SettingFields DEF IInv, TypeOK
<1>2. Committed \in SUBSET Trades /\ Committed' \in SUBSET Trades
  BY DEF Committed, Trades
<1>3. Sum(Cost, Committed) \in Nat /\ Sum(Cost, Committed') \in Nat
  BY <1>2, TradeSums
<1>4. ASSUME NEW t \in Own, Commits(t) PROVE Sum(Cost, Committed') <= env.funds
  <2>1. Sum(Cost, Committed) + Cost[t] <= env.funds
    BY <1>4 DEF Room, Commits, WriteCash, Trades
  <2>2. Sum(Cost, Committed \cup {t}) = Cost[t] + Sum(Cost, Committed)
    <3>1. IsFiniteSet(Committed) /\ t \notin Committed /\ \A y \in Committed \cup {t} : Cost[y] \in Int
      BY <1>2, <1>4, TradeSums, BudgetAssumption DEF Commits, Trades
    <3>2. QED
      BY <3>1, SumAdd
  <2>3. Cost[t] \in Nat
    BY BudgetAssumption DEF Trades
  <2>4. QED
    BY <1>1, <1>3, <1>4, <2>1, <2>2, <2>3 DEF Commits
<1>5. (\A t \in Trades : ~WriteCash(t)) => Committed' \subseteq Committed
  BY CashMoves DEF Rests, Commits, Frees, Buys, Dies, Trades
<1>6. Committed' \subseteq Committed => Sum(Cost, Committed') <= Sum(Cost, Committed)
  BY <1>2, TradeSums
<1>7. Sum(Cost, Committed') <= env.funds
  <2>1. CASE Committed' \subseteq Committed
    BY <1>1, <1>3, <1>6, <2>1 DEF Room
  <2>2. CASE \E t \in Own : Commits(t)
    BY <1>4, <2>2
  <2>3. QED
    BY <2>1, <2>2, CashMoves DEF Rests, Frees, Buys, Dies
<1>8. ASSUME NEW t \in Trades, pc'[t] = "reserve"
      PROVE  Sum(Cost, Committed') + Cost[t] <= env.funds
  <2>1. Cost[t] \in Nat
    BY BudgetAssumption
  <2>2. CASE pc[t] = "reserve" /\ \A u \in Trades : ~WriteCash(u)
    <3>1. Sum(Cost, Committed) + Cost[t] <= env.funds
      BY <2>2 DEF Room
    <3>2. Sum(Cost, Committed') <= Sum(Cost, Committed)
      BY <1>5, <1>6, <2>2
    <3>3. QED
      BY <1>1, <1>3, <2>1, <3>1, <3>2
  <2>3. CASE ReadTotals(t) /\ Cost[t] <= Remaining(t)
    <3>1. Committed' = Committed
      BY <2>3 DEF ReadTotals, durable, Committed, Active
    <3>2. PICK S \in SUBSET Trades : S = {u \in Trades : Active(u)}
      OBVIOUS
    <3>3. Sum(Cost, Committed) <= Sum(Cost, S) /\ Sum(Cost, S) \in Nat
      <4>1. Committed \in SUBSET S
        BY <3>2 DEF Committed, Trades
      <4>2. QED
        BY <4>1, TradeSums
    <3>4. usable[t] \in Nat /\ usable[t] <= env.funds
      BY <1>1 DEF IInv, TypeOK
    <3>5. Cost[t] <= Max0(usable[t] - Sum(Cost, S))
      BY <2>3, <3>2 DEF Remaining
    <3>6. Sum(Cost, Committed) <= env.funds
      BY DEF Room
    <3>7. QED
      BY <1>1, <1>3, <2>1, <3>1, <3>3, <3>4, <3>5, <3>6 DEF Max0
  <2>4. QED
    BY <1>8, <2>2, <2>3, Reserving
<1>9. QED
  BY <1>1, <1>7, <1>8 DEF Room

\* Every step of the two budgets is one of the ledger, or leaves it alone.
LEMMA LedgerStep ==
    IInv /\ Room /\ [Next]_vars => [Ledger!Next]_(Ledger!vars)
<1> SUFFICES ASSUME IInv, Room, [Next]_vars PROVE [Ledger!Next]_(Ledger!vars)
  OBVIOUS
<1>1. env' = env
  BY SettingStays
<1>2. CASE Rests
  BY <1>1, <1>2 DEF Rests, Ledger!vars
<1>3. ASSUME NEW t \in Own, Commits(t) PROVE Ledger!Commit(t)
  <2>1. Sum(Cost, Committed) + Cost[t] <= env.funds
    BY <1>3 DEF Room, Commits, WriteCash, Trades
  <2>2. Ledger!Cash(Committed) = Sum(Cost, Committed)
    BY DEF Ledger!Cash, Ledger!Sum, Sum, Ledger!MapThenSumSet, MapThenSumSet,
       Ledger!MapThenFoldSet, MapThenFoldSet
  <2>3. QED
    BY <1>1, <1>3, <2>1, <2>2 DEF Commits, Ledger!Commit
<1>4. ASSUME NEW t \in Own, Frees(t) PROVE Ledger!Free(t)
  BY <1>1, <1>4 DEF Frees, Ledger!Free
<1>5. ASSUME NEW t \in Own, Buys(t) PROVE Ledger!Buy(t)
  BY <1>1, <1>5 DEF Buys, Ledger!Buy
<1>6. ASSUME NEW t \in Own, Dies(t) PROVE Ledger!Die(t)
  BY <1>1, <1>6 DEF Dies, Ledger!Die
<1>7. QED
  BY <1>2, <1>3, <1>4, <1>5, <1>6, CashMoves DEF Ledger!Next

\* The cash guard keeps its promise: cash is set aside before a BUY is sent, never more than
\* the day began with, and given back only when the BUY is dead.
THEOREM GuardImplementsLedger == Spec => SettledCashOnly
<1>1. Init => Ledger!Init
  <2> SUFFICES ASSUME Init PROVE Ledger!Init
    OBVIOUS
  <2>1. env.funds \in Nat
    BY SettingFields DEF Init
  <2>2. Committed = {} /\ Bought = {}
    BY DEF Init, Committed, Bought, Active, Trades
  <2>3. QED
    BY <2>1, <2>2 DEF Ledger!Init
<1>2. QED
  BY <1>1, Start, Step, RoomStarts, RoomStep, LedgerStep, PTL
     DEF Spec, SettledCashOnly, Ledger!Spec

-----------------------------------------------------------------------------
(* The book stays within its limits                                        *)

\* The ways into the steps of an approval, and to a live BUY.
Ways(u) ==
    /\ pc'[u] = "reservations" => pc[u] = "reservations" \/ ReadBook(u)
    /\ pc'[u] = "limits" => pc[u] = "limits" \/ ReadReservations(u)
    /\ pc'[u] = "approve" => pc[u] = "approve" \/ TestLimits(u)
    /\ pc'[u] = "place" => pc[u] \in {"approve", "place"}
    /\ Unsettled(u)' => Unsettled(u) \/ pc[u] = "place"
    /\ u \in overlooked => u \in overlooked'
    /\ pc[u] = "lost" => row'[u] = row[u]

LEMMA SameWays ==
    ASSUME NEW u \in Trades, Same(u)
    PROVE  Ways(u)
BY DEF Same, Ways, Unsettled, IsLive

LEMMA CashWays ==
    ASSUME IInv, NEW t \in Trades,
           \/ AllowEntry(t) \/ ReadDay(t) \/ FetchBudget(t) \/ FetchFails(t) \/ StoreDay(t)
           \/ ReadTotals(t) \/ WriteCash(t) \/ PersistIntent(t)
    PROVE  Ways(t)
<1> USE DEF durable, locals, locks, bounds, Go
<1>1. pc \in [Trades -> Places]
  BY DEF IInv, TypeOK
<1>2. pc[t] \notin {"lost", "sold"} /\ order' = order /\ overlooked' = overlooked
  BY DEF AllowEntry, ReadDay, FetchBudget, FetchFails, StoreDay, ReadTotals, WriteCash, PersistIntent
<1>3. pc'[t] \in {"cash", "seed", "totals", "store", "unrisk", "reserve", "intent", "risk", "unwind"}
  BY <1>1 DEF AllowEntry, ReadDay, FetchBudget, FetchFails, StoreDay, ReadTotals, WriteCash,
     PersistIntent
<1>4. QED
  BY <1>2, <1>3 DEF Ways, Unsettled, IsLive

LEMMA RiskWays ==
    ASSUME IInv, NEW t \in Trades,
           \/ ReadBook(t) \/ TestLimits(t) \/ WriteRisk(t) \/ CommitRisk(t) \/ ReleaseRisk(t)
    PROVE  Ways(t)
<1> USE DEF durable, locals, locks, bounds, Go
<1>1. pc \in [Trades -> Places]
  BY DEF IInv, TypeOK
<1>2. pc[t] \notin {"lost", "sold"} /\ order' = order /\ overlooked' = overlooked
  BY DEF ReadBook, TestLimits, WriteRisk, CommitRisk, ReleaseRisk
<1>3. \/ ReadBook(t) /\ pc'[t] = "reservations"
      \/ TestLimits(t) /\ pc'[t] \in {"approve", "unwind"}
      \/ pc[t] = "approve" /\ pc'[t] \in {"place", "unwind"}
      \/ pc'[t] \in {"held", "clear"}
  BY <1>1 DEF ReadBook, TestLimits, WriteRisk, CommitRisk, ReleaseRisk
<1>4. QED
  BY <1>2, <1>3 DEF Ways, Unsettled, IsLive

LEMMA OrderWays ==
    ASSUME IInv, NEW t \in Trades,
           \/ Place(t) \/ PlaceRefused(t) \/ Register(t) \/ BrokerResolves(t)
           \/ FinalizeCash(t) \/ RecordOpen(t) \/ NoFill(t) \/ Reprice(t) \/ ReleaseCash(t)
           \/ CloseRow(t) \/ Protect(t) \/ Sale(t)
    PROVE  Ways(t)
<1> USE DEF durable, locals, locks, bounds, Go
<1>1. /\ pc \in [Trades -> Places] /\ order \in [Trades -> OrderStatus]
      /\ row \in [Trades -> RowStatus]
  BY DEF IInv, TypeOK
<1>2. overlooked \subseteq overlooked' /\ (pc[t] = "lost" => row' = row)
  BY DEF Place, PlaceRefused, Register, BrokerResolves, FinalizeCash, RecordOpen, NoFill, Reprice,
     ReleaseCash, CloseRow, Protect, Sale, BrokerSells, RecordExit, Disappears, Reappears
<1>3. \/ pc' = pc
      \/ pc'[t] \in {"register", "unwind", "working", "record", "commit", "cash", "unrisk",
                     "refused", "sold"}
  BY <1>1 DEF Place, PlaceRefused, Register, BrokerResolves, FinalizeCash, RecordOpen, NoFill,
     Reprice, ReleaseCash, CloseRow, Protect, Sale, BrokerSells, RecordExit, Disappears, Reappears
<1>4. Unsettled(t)' => Unsettled(t) \/ pc[t] = "place"
  BY <1>1 DEF Place, PlaceRefused, Register, BrokerResolves, FinalizeCash, RecordOpen, NoFill,
     Reprice, ReleaseCash, CloseRow, Protect, Sale, BrokerSells, RecordExit, Disappears, Reappears, Unsettled, IsLive
<1>5. QED
  BY <1>2, <1>3, <1>4 DEF Ways

LEMMA AllWays ==
    ASSUME IInv, [Next]_vars, NEW u \in Trades
    PROVE  Ways(u)
<1> USE DEF durable, locals, locks, bounds
<1>1. ASSUME NEW t \in Trades,
             \/ AllowEntry(t) \/ ReadDay(t) \/ FetchBudget(t) \/ FetchFails(t) \/ StoreDay(t)
             \/ ReadTotals(t) \/ WriteCash(t) \/ PersistIntent(t)
      PROVE  Ways(u)
  BY <1>1, CashGood, CashWays, SameWays
<1>2. ASSUME NEW t \in Trades,
             \/ ReadBook(t) \/ TestLimits(t) \/ WriteRisk(t) \/ CommitRisk(t) \/ ReleaseRisk(t)
      PROVE  Ways(u)
  BY <1>2, RiskGood, RiskWays, SameWays
<1>3. ASSUME NEW t \in Trades,
             \/ Place(t) \/ PlaceRefused(t) \/ Register(t) \/ BrokerResolves(t)
             \/ FinalizeCash(t) \/ RecordOpen(t) \/ NoFill(t) \/ Reprice(t) \/ ReleaseCash(t)
             \/ CloseRow(t) \/ Protect(t) \/ Sale(t)
      PROVE  Ways(u)
  BY <1>3, OrderGood, OrderWays, SameWays
<1>4. ASSUME NEW t \in Trades, ReadReservations(t) PROVE Ways(u)
  <2>1. row' = row /\ order' = order /\ (u \in overlooked => u \in overlooked')
    BY <1>4 DEF ReadReservations
  <2>2. pc \in [Trades -> Places]
    BY DEF IInv, TypeOK
  <2>3. pc'[t] \in {"limits", "unwind"} /\ (u # t => pc'[u] = pc[u])
    BY <1>4, <2>2 DEF ReadReservations, Go
  <2>4. pc[t] # "sold"
    BY <1>4 DEF ReadReservations
  <2>5. QED
    BY <1>4, <2>1, <2>3, <2>4 DEF Ways, Unsettled, IsLive
<1>5. CASE \/ \E t \in Trades : Age(t) \/ SyncPosition(t)
           \/ BookActions \/ Prefetch \/ EnsureDay \/ EnsureStores \/ SyncWrites \/ UNCHANGED vars
  <2>1. UNCHANGED <<pc, order, row, overlooked>>
    BY <1>5 DEF Age, SyncPosition, BookActions, Prefetch, EnsureDay, EnsureStores, SyncWrites, vars
  <2>2. QED
    BY <2>1 DEF Ways, Unsettled, IsLive
<1>6. CASE Crash
  <2>1. UNCHANGED <<order, row, overlooked>>
    BY <1>6 DEF Crash
  <2>2. pc'[u] \in {"idle", "held", "refused", "sold", "lost"} /\ (pc[u] = "sold" => pc'[u] = "sold")
    BY <1>6 DEF Crash
  <2>3. QED
    BY <2>1, <2>2 DEF Ways, Unsettled, IsLive
<1>7. QED
  BY <1>1, <1>2, <1>3, <1>4, <1>5, <1>6 DEF Next, Entry, Sale

\* While an entry holds the lock nobody else moves a reservation, and what it has read stays.
LEMMA LockHolds ==
    ASSUME IInv, [Next]_vars, NEW t \in Trades, pc[t] \in {"reservations", "limits"}, pc'[t] = pc[t]
    PROVE  UNCHANGED <<risk, aged>> /\ book'[t] = book[t] /\ counted'[t] = counted[t]
<1> USE DEF durable, locals, locks, bounds, Go
<1>1. /\ pc \in [Trades -> Places] /\ riskLock = t /\ t # NoTrade
      /\ book \in [Trades -> [Trades -> RowStatus]] /\ counted \in [Trades -> Nat]
  BY BudgetAssumption DEF IInv, TypeOK, Good, Locking, RiskSteps
<1>2. ASSUME NEW u \in Trades,
             \/ AllowEntry(u) \/ ReadDay(u) \/ FetchBudget(u) \/ FetchFails(u) \/ StoreDay(u)
             \/ ReadTotals(u) \/ PersistIntent(u) \/ WriteCash(u)
             \/ Place(u) \/ PlaceRefused(u) \/ Register(u) \/ BrokerResolves(u)
             \/ FinalizeCash(u) \/ RecordOpen(u) \/ NoFill(u) \/ Reprice(u) \/ ReleaseCash(u)
             \/ CloseRow(u) \/ Protect(u) \/ Sale(u) \/ SyncPosition(u)
      PROVE  UNCHANGED <<risk, aged, book, counted>>
  BY <1>2 DEF AllowEntry, ReadDay, FetchBudget, FetchFails, StoreDay, ReadTotals, PersistIntent,
     WriteCash, Place, PlaceRefused, Register, BrokerResolves, FinalizeCash, RecordOpen, NoFill,
     Reprice, ReleaseCash, CloseRow, Protect, Sale, BrokerSells, RecordExit, Disappears, Reappears, SyncPosition
<1>3. ASSUME NEW u \in Trades, ReadBook(u) \/ CommitRisk(u) \/ ReleaseRisk(u) \/ Age(u) PROVE FALSE
  BY <1>1, <1>3 DEF ReadBook, CommitRisk, ReleaseRisk, Age, RiskFree
<1>4. ASSUME NEW u \in Trades, ReadReservations(u) \/ TestLimits(u) \/ WriteRisk(u) PROVE FALSE
  <2>1. pc[u] \in RiskSteps
    BY <1>4 DEF ReadReservations, TestLimits, WriteRisk, RiskSteps
  <2>2. u = t
    BY <1>1, <2>1 DEF IInv, Good, Locking
  <2>3. pc'[u] # pc[u]
    BY <1>1, <1>4 DEF ReadReservations, TestLimits, WriteRisk
  <2>4. QED
    BY <2>2, <2>3
<1>5. CASE BookActions \/ Prefetch \/ EnsureDay \/ EnsureStores \/ SyncWrites \/ UNCHANGED vars
  BY <1>5 DEF BookActions, Prefetch, EnsureDay, EnsureStores, SyncWrites, vars
<1>6. ASSUME Crash PROVE FALSE
  BY <1>6 DEF Crash
<1>7. QED
  BY <1>2, <1>3, <1>4, <1>5, <1>6 DEF Next, Entry, Sale

\* A recorded exit costs the planned loss at worst; nothing else moves the day's result.
LEMMA Results ==
    ASSUME [Next]_vars
    PROVE  pnl' = pnl \/ \E t \in Trades : RecordExit(t)
<1>1. ASSUME NEW t \in Trades,
             AllowEntry(t) \/ ReadDay(t) \/ FetchBudget(t) \/ FetchFails(t) \/ StoreDay(t) \/ ReadTotals(t)
      PROVE  pnl' = pnl
  BY <1>1 DEF AllowEntry, ReadDay, FetchBudget, FetchFails, StoreDay, ReadTotals, durable
<1>2. ASSUME NEW t \in Trades,
             WriteCash(t) \/ PersistIntent(t) \/ ReadBook(t) \/ ReadReservations(t) \/ TestLimits(t) \/ WriteRisk(t)
      PROVE  pnl' = pnl
  BY <1>2 DEF WriteCash, PersistIntent, ReadBook, ReadReservations, TestLimits, WriteRisk, durable
<1>3. ASSUME NEW t \in Trades,
             Place(t) \/ PlaceRefused(t) \/ Register(t) \/ FinalizeCash(t) \/ RecordOpen(t) \/ CommitRisk(t)
      PROVE  pnl' = pnl
  BY <1>3 DEF Place, PlaceRefused, Register, FinalizeCash, RecordOpen, CommitRisk, durable
<1>4. ASSUME NEW t \in Trades,
             NoFill(t) \/ Reprice(t) \/ ReleaseCash(t) \/ ReleaseRisk(t) \/ CloseRow(t) \/ BrokerResolves(t)
      PROVE  pnl' = pnl
  BY <1>4 DEF NoFill, Reprice, ReleaseCash, ReleaseRisk, CloseRow, BrokerResolves, durable
<1>5. ASSUME NEW t \in Trades,
             \/ Protect(t) \/ BrokerSells(t) \/ Disappears(t) \/ Reappears(t) \/ Age(t)
             \/ SyncPosition(t)
      PROVE  pnl' = pnl
  BY <1>5 DEF Protect, BrokerSells, Disappears, Reappears, Age, SyncPosition, durable
<1>6. CASE BookActions \/ Prefetch \/ EnsureDay \/ EnsureStores \/ SyncWrites \/ Crash \/ UNCHANGED vars
  BY <1>6 DEF BookActions, Prefetch, EnsureDay, EnsureStores, SyncWrites, Crash, durable, vars
<1>7. QED
  BY <1>1, <1>2, <1>3, <1>4, <1>5, <1>6 DEF Next, Entry, Sale

\* A larger day row has the larger loss budget.
LEMMA Budgets ==
    ASSUME NEW n \in Nat, NEW m \in Nat, n <= m
    PROVE  HaltBudget(n) \in Int /\ HaltBudget(m) \in Int /\ HaltBudget(n) <= HaltBudget(m)
<1>1. LossDivisor \in Nat /\ LossDivisor > 0
  BY BudgetAssumption
<1>2. PICK p \in Int, q \in Int : p = n \div LossDivisor /\ q = m \div LossDivisor
  BY <1>1
<1>3. p * LossDivisor <= n /\ m < (q + 1) * LossDivisor
  BY <1>1, <1>2
<1>4. p <= q
  <2> SUFFICES ASSUME q + 1 <= p PROVE FALSE
    BY <1>2
  <2>1. (q + 1) * LossDivisor <= p * LossDivisor
    BY <1>1
  <2>2. p * LossDivisor \in Int /\ (q + 1) * LossDivisor \in Int
    BY <1>1
  <2>3. QED
    BY <1>3, <2>1, <2>2
<1>5. QED
  BY <1>2, <1>4 DEF HaltBudget

\* The exposed trades: none is closed, none is before its approval or after its end, and
\* when nobody is in between each of them can be seen.
Visible ==
    /\ \A u \in Exposed : row[u] # "closed"
    /\ \A u \in Trades :
          pc[u] \in Before \cup Failed \cup {"intent", "risk", "reservations", "limits"}
              => u \notin Claims
    /\ riskLock = NoTrade => \A u \in Exposed : Kept(u) \/ row[u] # "none" \/ Orphaning(u)

LEMMA Exposures == IInv => Visible
<1> SUFFICES ASSUME IInv PROVE Visible
  OBVIOUS
<1>1. ASSUME NEW u \in Exposed PROVE row[u] # "closed"
  <2>1. Good(u) /\ pc[u] \in Places
    BY DEF Exposed, Claims, IInv, TypeOK
  <2>2. QED
    BY <1>1, <2>1 DEF Exposed, Claims, Unsettled, IsLive, Good, Sent, Rows, Places, Before, Sized, Failed, CashSteps,
       RiskSteps
<1>2. ASSUME NEW u \in Trades,
             pc[u] \in Before \cup Failed \cup {"intent", "risk", "reservations", "limits"}
      PROVE  u \notin Claims
  <2>1. Good(u)
    BY DEF IInv
  <2>2. QED
    BY <1>2, <2>1 DEF Claims, Unsettled, IsLive, Good, Sent, Before, Sized, Failed, CashSteps, RiskSteps
<1>3. ASSUME riskLock = NoTrade, NEW u \in Exposed PROVE Kept(u) \/ row[u] # "none" \/ Orphaning(u)
  <2>1. Good(u) /\ u # NoTrade
    BY BudgetAssumption DEF Exposed, Claims, IInv
  <2>2. pc[u] # "approve"
    BY <1>3, <2>1 DEF Good, Locking, RiskSteps
  <2>3. QED
    BY <1>3, <2>1, <2>2 DEF Exposed, Claims, Unsettled, IsLive, Good, Sent, Rows, Risks, Kept, Orphaning
<1>4. QED
  BY <1>1, <1>2, <1>3 DEF Visible

LEMMA ExposuresNext == IInv' => Visible'
BY Exposures, PTL

\* Only a passed test adds one.
LEMMA ExposureGrows ==
    ASSUME IInv, [Next]_vars
    PROVE  /\ \A u \in Claims' : u \in Claims \/ (TestLimits(u) /\ pc[u] = "limits" /\ pc'[u] = "approve")
           /\ \A u \in Exposed' : u \in Exposed \/ (TestLimits(u) /\ pc[u] = "limits" /\ pc'[u] = "approve")
           /\ overlooked \in SUBSET overlooked'
<1>1. ASSUME NEW u \in Claims', u \notin Claims
      PROVE  TestLimits(u) /\ pc[u] = "limits" /\ pc'[u] = "approve"
  <2>1. u \in Trades /\ Ways(u)
    BY <1>1, AllWays DEF Claims
  <2>2. Unsettled(u)' \/ pc'[u] \in {"approve", "place"}
    BY <1>1 DEF Claims
  <2>3. ~Unsettled(u) /\ pc[u] \notin {"approve", "place"}
    BY <1>1, <2>1 DEF Claims
  <2>4. TestLimits(u)
    BY <2>1, <2>2, <2>3 DEF Ways
  <2>5. QED
    BY <2>1, <2>2, <2>3, <2>4 DEF TestLimits, Ways
<1>2. overlooked \in SUBSET overlooked'
  BY AllWays DEF Ways, IInv, TypeOK
<1>3. QED
  BY <1>1, <1>2 DEF Exposed

\* What is seen stays seen.
LEMMA SeenStep ==
    ASSUME IInv, IInv', Seen, [Next]_vars
    PROVE  Seen'
<1> SUFFICES ASSUME NEW t \in Trades, pc'[t] = "reservations", NEW u \in Exposed' \ {t}
             PROVE  Kept(u)' \/ InBook(t, u)' \/ Orphaning(u)'
  BY DEF Seen
<1>1. u \in Trades /\ Good(u) /\ Good(t) /\ Ways(t) /\ Ways(u) /\ row'[u] # "closed"
  <2>1. row'[u] # "closed"
    <3>1. \A v \in Exposed' : row'[v] # "closed"
      BY ExposuresNext DEF Visible
    <3>2. QED
      BY <3>1
  <2>2. QED
    BY <2>1, AllWays DEF IInv, Exposed, Claims
<1>2. u \in Exposed
  <2>1. CASE TestLimits(u) /\ pc[u] = "limits"
    <3>1. riskLock = u /\ u # NoTrade
      BY <1>1, <2>1, BudgetAssumption DEF Good, Locking, RiskSteps
    <3>2. pc'[t] = pc[t]
      <4>1. pc \in [Trades -> Places]
        BY DEF IInv, TypeOK
      <4>2. QED
        BY <2>1, <4>1 DEF TestLimits, Go
    <3>3. riskLock = t
      BY <1>1, <3>2 DEF Good, Locking, RiskSteps
    <3>4. QED
      BY <3>1, <3>3
  <2>2. QED
    BY <2>1, ExposureGrows
<1>3. CASE pc[t] = "reservations"
  <2>1. UNCHANGED <<risk, aged>> /\ book'[t] = book[t]
    BY <1>3, LockHolds
  <2>2. Kept(u) \/ InBook(t, u) \/ Orphaning(u)
    BY <1>2, <1>3 DEF Seen
  <2>3. Orphaning(u) => row'[u] = row[u]
    BY <1>1 DEF Orphaning, Good, Risks, Ways
  <2>4. QED
    BY <1>1, <2>1, <2>2, <2>3 DEF Kept, InBook, Orphaning
<1>4. CASE ReadBook(t)
  <2>1. riskLock = NoTrade /\ UNCHANGED <<risk, aged, row>>
    BY <1>4 DEF ReadBook, RiskFree, durable
  <2>2. book'[t] = row
    BY <1>4 DEF ReadBook, IInv, TypeOK
  <2>3. Kept(u) \/ row[u] # "none" \/ Orphaning(u)
    BY <1>2, <2>1, Exposures DEF Visible
  <2>4. QED
    BY <1>1, <2>1, <2>2, <2>3 DEF Kept, InBook, Orphaning
<1>5. QED
  BY <1>1, <1>3, <1>4 DEF Ways

\* Nobody exposed is left out when the reservations are read.
LEMMA AllCounted ==
    ASSUME IInv, IInv', Seen, NEW t \in Trades, ReadReservations(t), [Next]_vars
    PROVE  Exposed' \subseteq OtherReservations(t) \cup OtherRows(t)
<1> SUFFICES ASSUME NEW u \in Exposed' PROVE u \in OtherReservations(t) \cup OtherRows(t)
  OBVIOUS
<1>1. pc[t] = "reservations" /\ pc'[t] \in {"limits", "unwind"} /\ \A v \in Trades \ {t} : pc'[v] = pc[v]
  <2>1. pc \in [Trades -> Places]
    BY DEF IInv, TypeOK
  <2>2. QED
    BY <2>1 DEF ReadReservations, Go
<1>2. u \in Trades /\ u # t
  <2>1. \A v \in Trades : pc'[v] \in Before \cup Failed \cup {"intent", "risk", "reservations", "limits"}
            => v \notin Claims'
    BY ExposuresNext DEF Visible
  <2>2. Exposed' \subseteq Trades /\ Exposed' \subseteq Claims'
    BY DEF Exposed, Claims
  <2>3. QED
    BY <1>1, <2>1, <2>2 DEF Failed
<1>3. u \in Exposed
  BY <1>1, <1>2, ExposureGrows
<1>4. Kept(u) \/ InBook(t, u) \/ Orphaning(u)
  BY <1>1, <1>2, <1>3 DEF Seen
<1>5. ~Orphaning(u)
  <2> SUFFICES ASSUME Orphaning(u) PROVE FALSE
    OBVIOUS
  <2>1. pc[u] = "lost" /\ pc'[u] = "lost"
    BY <1>1, <1>2 DEF IInv, Good, Risks, Orphaning
  <2>2. IsLive(u)' /\ u \notin overlooked'
    <3>1. Unsettled(u)' /\ u \notin overlooked'
      BY <2>1 DEF Exposed, Claims
    <3>2. order'[u] # "sold"
      BY <1>2, <2>1 DEF IInv, Good, Sent
    <3>3. QED
      BY <3>1, <3>2 DEF Unsettled
  <2>3. order' = order /\ row[u] = "none" /\ u \in ActiveReservations \cap aged
    BY <1>2 DEF ReadReservations, Orphaning, ActiveReservations
  <2>4. u \in overlooked'
    BY <2>2, <2>3 DEF ReadReservations, IsLive
  <2>5. QED
    BY <2>2, <2>4
<1>6. QED
  BY <1>2, <1>4, <1>5 DEF Kept, InBook, OtherReservations, OtherRows, ActiveReservations

\* What is counted covers what is exposed.
LEMMA CountsStep ==
    ASSUME IInv, IInv', Seen, Counts, [Next]_vars
    PROVE  Counts'
<1> SUFFICES ASSUME NEW t \in Trades, pc'[t] = "limits"
             PROVE  Sum(Loss, Exposed') <= counted'[t]
  BY DEF Counts
<1>1. Good(t) /\ Ways(t) /\ pc \in [Trades -> Places]
  BY AllWays DEF IInv, TypeOK
<1>2. CASE pc[t] = "limits"
  <2>1. counted'[t] = counted[t] /\ counted[t] \in Nat
    BY <1>2, LockHolds DEF IInv, TypeOK
  <2>2. Exposed' \in SUBSET Exposed
    <3>1. ASSUME NEW u \in Trades, TestLimits(u), pc[u] = "limits", pc'[u] = "approve" PROVE FALSE
      <4>1. u = t
        BY <1>1, <1>2, <3>1 DEF IInv, Good, Locking, RiskSteps
      <4>2. QED
        BY <3>1, <4>1
    <3>2. Exposed' \subseteq Trades
      BY DEF Exposed, Claims
    <3>3. QED
      BY <3>1, <3>2, ExposureGrows
  <2>3. Sum(Loss, Exposed') <= Sum(Loss, Exposed) /\ Sum(Loss, Exposed) \in Nat
        /\ Sum(Loss, Exposed') \in Nat
    <3>1. Exposed \in SUBSET Trades /\ Exposed' \in SUBSET Trades
      BY DEF Exposed, Claims
    <3>2. QED
      BY <2>2, <3>1, TradeSums
  <2>4. Sum(Loss, Exposed) <= counted[t]
    BY <1>2 DEF Counts
  <2>5. QED
    BY <2>1, <2>3, <2>4
<1>3. CASE ReadReservations(t)
  <2>1. counted'[t] = CountedLoss(t)
    BY <1>1, <1>3 DEF ReadReservations, Go, IInv, TypeOK
  <2>2. Exposed' \in SUBSET (OtherReservations(t) \cup OtherRows(t))
    BY <1>3, AllCounted
  <2>3. QED
    BY <2>1, <2>2, Counting DEF IInv
<1>4. QED
  BY <1>1, <1>2, <1>3 DEF Ways

\* The claims are those an approval counts and overlooked ones.
LEMMA Uncounted ==
    ASSUME IInv
    PROVE  Sum(Loss, Claims) <= Sum(Loss, Exposed) + Sum(Loss, overlooked)
<1>1. /\ Exposed \in SUBSET Trades /\ overlooked \in SUBSET Trades
      /\ Claims \in SUBSET (Exposed \cup overlooked)
      /\ Exposed \cap overlooked = {} /\ Exposed \cup overlooked \in SUBSET Trades
  BY DEF Exposed, Claims, IInv, TypeOK
<1>2. Sum(Loss, Exposed \cup overlooked) = Sum(Loss, Exposed) + Sum(Loss, overlooked)
  <2>1. /\ IsFiniteSet(Exposed) /\ IsFiniteSet(overlooked)
        /\ \A x \in Exposed \cup overlooked : Loss[x] \in Int
    BY <1>1, TradeSums, BudgetAssumption
  <2>2. QED
    BY <1>1, <2>1, SumUnion
<1>3. Sum(Loss, Claims) <= Sum(Loss, Exposed \cup overlooked)
  BY <1>1, TradeSums
<1>4. QED
  BY <1>2, <1>3

\* Realized and planned loss stay within the budget and what was overlooked.
LEMMA LossStep ==
    ASSUME IInv, IInv', Counts, LossBound, [Next]_vars
    PROVE  LossBound'
<1>1. env' = env /\ env.funds \in Nat /\ pnl \in Int
  BY SettingStays, SettingFields DEF IInv, TypeOK
<1>2. /\ Claims \in SUBSET Trades /\ Claims' \in SUBSET Trades
      /\ Sum(Loss, Claims) \in Nat /\ Sum(Loss, Claims') \in Nat
  <2>1. Claims \in SUBSET Trades /\ Claims' \in SUBSET Trades
    BY DEF Claims
  <2>2. QED
    BY <2>1, TradeSums
<1>3. /\ HaltBudget(env.funds) \in Int
      /\ Sum(Loss, overlooked) \in Nat /\ Sum(Loss, overlooked') \in Nat
      /\ Sum(Loss, overlooked) <= Sum(Loss, overlooked')
  <2>1. /\ overlooked \in SUBSET Trades /\ overlooked' \in SUBSET Trades
        /\ overlooked \in SUBSET overlooked'
    BY ExposureGrows DEF IInv, TypeOK
  <2>2. QED
    BY <1>1, <2>1, Budgets, TradeSums
<1> DEFINE Bound == HaltBudget(env.funds) + Sum(Loss, overlooked)
           Fits == Max0(-(pnl')) + Sum(Loss, Claims') <= HaltBudget(env.funds) + Sum(Loss, overlooked')
<1> SUFFICES ASSUME env.railA PROVE Fits
  BY <1>1 DEF LossBound
<1>4. Max0(-pnl) + Sum(Loss, Claims) <= Bound
  BY DEF LossBound
<1>5. Max0(-(pnl')) + Sum(Loss, Claims') <= Bound => Fits
  <2>1. Max0(-(pnl')) \in Nat
    <3>1. pnl' \in Int
      BY DEF IInv, TypeOK
    <3>2. \A n \in Int : Max0(-n) \in Nat
      BY DEF Max0
    <3>3. QED
      BY <3>1, <3>2
  <2>2. QED
    BY <1>2, <1>3, <2>1
<1>6. ASSUME NEW t \in Trades, RecordExit(t)
      PROVE  Max0(-(pnl')) + Sum(Loss, Claims') <= Bound
  <2>1. t \in Claims
    BY <1>6 DEF RecordExit, Claims, Unsettled
  <2>2. Claims' \in SUBSET (Claims \ {t})
    <3>1. pc'[t] = "sold" /\ order'[t] = "sold"
      BY <1>6 DEF RecordExit, Go, IInv, TypeOK
    <3>2. t \notin Claims'
      BY <3>1 DEF Claims, Unsettled, IsLive
    <3>3. \A u \in Trades : pc'[u] # "approve" \/ pc[u] = "approve"
      BY <1>6 DEF RecordExit, Go, IInv, TypeOK
    <3>4. QED
      BY <1>2, <3>2, <3>3, ExposureGrows
  <2>3. Sum(Loss, Claims) = Loss[t] + Sum(Loss, Claims \ {t})
    <3>1. IsFiniteSet(Claims) /\ \A x \in Claims : Loss[x] \in Int
      BY <1>2, TradeSums, BudgetAssumption
    <3>2. QED
      BY <2>1, <3>1, SumElement
  <2>4. Sum(Loss, Claims') <= Sum(Loss, Claims \ {t}) /\ Sum(Loss, Claims \ {t}) \in Nat
    <3>1. Claims \ {t} \in SUBSET Trades
      BY <1>2
    <3>2. QED
      BY <2>2, <3>1, TradeSums
  <2>5. Loss[t] \in Nat /\ \E result \in {1, -Loss[t]} : pnl' = pnl + result
    BY <1>6, BudgetAssumption DEF RecordExit
  <2>6. Max0(-(pnl')) <= Max0(-pnl) + Loss[t] /\ Max0(-(pnl')) \in Nat /\ Max0(-pnl) \in Nat
    BY <1>1, <2>5 DEF Max0
  <2>7. QED
    BY <1>2, <1>3, <1>4, <2>3, <2>4, <2>5, <2>6
<1>7. ASSUME NEW t \in Trades, TestLimits(t), pc[t] = "limits", pc'[t] = "approve", pnl' = pnl
      PROVE  Max0(-(pnl')) + Sum(Loss, Claims') <= Bound
  <2>1. Headroom(t)
    BY <1>7 DEF TestLimits, Go, IInv, TypeOK
  <2>2. /\ day \in 0..env.funds
        /\ Max0(-pnl) + counted[t] + Loss[t] <= HaltBudget(day)
    BY <2>1 DEF Headroom, IInv, TypeOK
  <2>3. HaltBudget(day) <= HaltBudget(env.funds) /\ HaltBudget(day) \in Int
    BY <1>1, <2>2, Budgets
  <2>4. /\ Sum(Loss, Exposed) <= counted[t] /\ counted[t] \in Nat /\ Loss[t] \in Nat
        /\ Sum(Loss, Exposed) \in Nat
    <3>1. Exposed \in SUBSET Trades
      BY DEF Exposed, Claims
    <3>2. QED
      BY <1>7, <3>1, TradeSums, BudgetAssumption DEF Counts, IInv, TypeOK
  <2>5. Claims' \in SUBSET (Claims \cup {t})
    <3>1. \A u \in Trades \ {t} : pc'[u] = pc[u]
      BY <1>7 DEF TestLimits, Go, IInv, TypeOK
    <3>2. QED
      BY <1>2, <3>1, ExposureGrows
  <2>6. Sum(Loss, Claims \cup {t}) = Loss[t] + Sum(Loss, Claims)
    <3>1. t \notin Claims
      BY <1>7, Exposures DEF Visible
    <3>2. IsFiniteSet(Claims) /\ \A x \in Claims \cup {t} : Loss[x] \in Int
      BY <1>2, TradeSums, BudgetAssumption
    <3>3. QED
      BY <3>1, <3>2, SumAdd
  <2>7. Sum(Loss, Claims') <= Sum(Loss, Claims \cup {t})
    <3>1. Claims \cup {t} \in SUBSET Trades
      BY <1>2
    <3>2. QED
      BY <2>5, <3>1, TradeSums
  <2>8. Max0(-pnl) \in Nat
    BY <1>1 DEF Max0
  <2>9. Sum(Loss, Claims) <= Sum(Loss, Exposed) + Sum(Loss, overlooked)
    BY Uncounted
  <2>10. QED
    BY <1>2, <1>3, <1>7, <2>2, <2>3, <2>4, <2>6, <2>7, <2>8, <2>9
<1>8. ASSUME Claims' \subseteq Claims, pnl' = pnl
      PROVE  Max0(-(pnl')) + Sum(Loss, Claims') <= Bound
  <2>1. Sum(Loss, Claims') <= Sum(Loss, Claims)
    BY <1>2, <1>8, TradeSums
  <2>2. Max0(-pnl) \in Nat
    BY <1>1 DEF Max0
  <2>3. QED
    BY <1>2, <1>3, <1>4, <1>8, <2>1, <2>2
<1>9. QED
  BY <1>2, <1>5, <1>6, <1>7, <1>8, Results, ExposureGrows

\* A part of a finite set of trades has no more members.
LEMMA Smaller ==
    ASSUME NEW S \in SUBSET Trades, NEW R \in SUBSET S
    PROVE  Cardinality(R) <= Cardinality(S) /\ Cardinality(R) \in Nat /\ Cardinality(S) \in Nat
<1>1. IsFiniteSet(S) /\ IsFiniteSet(R)
  BY TradeSums
<1>2. QED
  BY <1>1, FS_Subset, FS_CardinalityType

\* No cluster outgrows the cap.
LEMMA CapStep ==
    ASSUME IInv, IInv', Seen, CapBound, [Next]_vars
    PROVE  CapBound'
<1>1. env' = env /\ env.cap \in Nat
  BY SettingStays, SettingFields DEF IInv, TypeOK
<1> SUFFICES ASSUME env.cap > 0, NEW c \in Trades PROVE Cardinality(Crowd(c)') <= env.cap
  BY <1>1 DEF CapBound
<1>2. Crowd(c) \in SUBSET Trades /\ Crowd(c)' \in SUBSET Trades
  BY DEF Crowd
<1>3. Cardinality(Crowd(c)) <= env.cap
  BY DEF CapBound
<1>4. ASSUME Crowd(c)' \subseteq Crowd(c) PROVE Cardinality(Crowd(c)') <= env.cap
  BY <1>1, <1>2, <1>3, <1>4, Smaller
<1>5. ASSUME NEW u \in Crowd(c)', u \notin Crowd(c)
      PROVE  ReadReservations(u) /\ pc'[u] = "limits" /\ Cluster[u] = Cluster[c]
  <2>1. u \in Trades /\ Ways(u) /\ Cluster[u] = Cluster[c] /\ (u \in Exposed' \/ pc'[u] = "limits")
    BY <1>5, AllWays DEF Crowd
  <2>2. u \notin Exposed /\ pc[u] # "limits"
    BY <1>5, <2>1 DEF Crowd
  <2>3. u \notin Exposed'
    BY <2>2, ExposureGrows
  <2>4. QED
    BY <2>1, <2>2, <2>3 DEF Ways
<1>6. ASSUME NEW t \in Trades, ReadReservations(t), pc'[t] = "limits", Cluster[t] = Cluster[c]
      PROVE  Cardinality(Crowd(c)') <= env.cap
  <2> DEFINE rivals == {u \in OtherReservations(t) \cup OtherRows(t) : Cluster[u] = Cluster[t]}
  <2>1. pc \in [Trades -> Places] /\ pc[t] = "reservations"
    BY <1>6 DEF IInv, TypeOK, ReadReservations
  <2>2. ~(Cardinality(rivals) >= env.cap)
    BY <1>6, <2>1 DEF ReadReservations, Go
  <2>3. \A u \in Trades : pc'[u] = "limits" => u = t
    BY <1>6 DEF IInv, Good, Locking, RiskSteps
  <2>4. Exposed' \subseteq OtherReservations(t) \cup OtherRows(t)
    BY <1>6, AllCounted
  <2>5. Crowd(c)' \subseteq rivals \cup {t}
    BY <1>6, <2>3, <2>4 DEF Crowd
  <2>6. rivals \in SUBSET Trades /\ t \notin rivals
    BY DEF OtherReservations, OtherRows, ActiveReservations
  <2> HIDE DEF rivals
  <2>7. IsFiniteSet(rivals) /\ Cardinality(rivals) \in Nat
    BY <2>6, TradeSums, FS_CardinalityType
  <2>8. Cardinality(rivals \cup {t}) = Cardinality(rivals) + 1
    BY <2>6, <2>7, FS_AddElement
  <2>9. rivals \cup {t} \in SUBSET Trades /\ Crowd(c)' \in SUBSET (rivals \cup {t})
    BY <2>5, <2>6
  <2>10. Cardinality(Crowd(c)') <= Cardinality(rivals \cup {t}) /\ Cardinality(Crowd(c)') \in Nat
    BY <2>9, Smaller
  <2>11. QED
    BY <1>1, <2>2, <2>7, <2>8, <2>10
<1>7. QED
  BY <1>2, <1>4, <1>5, <1>6

\* What was held over from earlier days fits into today's limits.
HeldFits ==
    \A s \in Settings :
        /\ s.railA => Sum(Loss, s.held) <= HaltBudget(s.funds)
        /\ s.cap > 0 =>
              \A t \in Trades : Cardinality({u \in s.held : Cluster[u] = Cluster[t]}) <= s.cap

LEMMA LimitsStart == ASSUME HeldFits PROVE Init => Limits
<1> SUFFICES ASSUME Init PROVE Limits
  OBVIOUS
<1>1. env \in Settings /\ env.held \subseteq Foreign /\ pnl = 0
  BY SettingFields DEF Init
<1>2. \A t \in Trades : pc[t] \in {"idle", "held", "sold"}
  BY DEF Init
<1>3. Claims = env.held /\ Exposed = env.held /\ overlooked = {}
  BY <1>1, <1>2, BudgetAssumption DEF Init, Exposed, Claims, Unsettled, IsLive, Trades
<1>4. LossBound
  <2>1. env.railA => Sum(Loss, env.held) <= HaltBudget(env.funds)
    BY <1>1 DEF HeldFits
  <2>2. Sum(Loss, env.held) \in Nat
    BY <1>1, TradeSums DEF Trades
  <2>3. Max0(-pnl) = 0
    <3>1. \A n \in Int : n <= 0 /\ n >= 0 => Max0(-n) = 0
      BY DEF Max0
    <3>2. pnl \in Int /\ pnl <= 0 /\ pnl >= 0
      BY <1>1
    <3>3. QED
      BY <3>1, <3>2
  <2>4. Sum(Loss, overlooked) = 0 /\ HaltBudget(env.funds) \in Int
    BY <1>1, <1>3, SettingFields, Budgets, SumElement, FS_EmptySet
  <2>5. QED
    BY <1>3, <2>1, <2>2, <2>3, <2>4 DEF LossBound
<1>5. CapBound
  <2>1. \A t \in Trades : Crowd(t) = {u \in env.held : Cluster[u] = Cluster[t]}
    BY <1>1, <1>2, <1>3 DEF Crowd, Trades
  <2>2. QED
    BY <1>1, <2>1 DEF CapBound, HeldFits
<1>6. Seen /\ Counts
  BY <1>2 DEF Seen, Counts
<1>7. QED
  BY <1>4, <1>5, <1>6 DEF Limits

LEMMA LimitsStep == IInv /\ IInv' /\ Limits /\ [Next]_vars => Limits'
<1> SUFFICES ASSUME IInv, IInv', Limits, [Next]_vars PROVE Limits'
  OBVIOUS
<1>1. Seen /\ Counts /\ LossBound /\ CapBound
  BY DEF Limits
<1>2. QED
  BY <1>1, SeenStep, CountsStep, LossStep, CapStep DEF Limits

\* No race of entries, fills, sales, expiries and restarts takes the book past the daily loss
\* budget by more than the planned loss of the trades that were overlooked, or the other
\* trades past the cluster cap, if what is held at the start is within both.
THEOREM BookStaysWithinLimits == ASSUME HeldFits PROVE Spec => []BookWithinLimits
<1>1. Init => Limits
  BY LimitsStart
<1>2. IInv /\ Limits => BookWithinLimits
  <2> SUFFICES ASSUME IInv, Limits PROVE BookWithinLimits
    OBVIOUS
  <2>1. /\ AtRisk \in SUBSET Claims /\ Claims \in SUBSET Trades
        /\ (Live \ overlooked) \in SUBSET Exposed
    BY DEF AtRisk, Live, Exposed, Claims, Unsettled, IsLive
  <2>2. ASSUME env.railA
        PROVE  Max0(-pnl) + Sum(Loss, AtRisk) <= HaltBudget(env.funds) + Sum(Loss, overlooked)
    <3>1. Max0(-pnl) + Sum(Loss, Claims) <= HaltBudget(env.funds) + Sum(Loss, overlooked)
      BY <2>2 DEF Limits, LossBound
    <3>2. /\ Sum(Loss, AtRisk) <= Sum(Loss, Claims) /\ Sum(Loss, Claims) \in Nat
          /\ Sum(Loss, AtRisk) \in Nat
      <4>1. AtRisk \in SUBSET Trades
        BY <2>1
      <4>2. QED
        BY <2>1, <4>1, TradeSums
    <3>3. Max0(-pnl) \in Nat /\ HaltBudget(env.funds) \in Int /\ Sum(Loss, overlooked) \in Nat
      <4>1. pnl \in Int /\ env.funds \in Nat /\ overlooked \in SUBSET Trades
        BY SettingFields DEF IInv, TypeOK
      <4>2. QED
        BY <4>1, Budgets, TradeSums DEF Max0
    <3>4. QED
      BY <3>1, <3>2, <3>3
  <2>3. ASSUME env.cap > 0, NEW t \in Trades
        PROVE  Cardinality({u \in Live \ overlooked : Cluster[u] = Cluster[t]}) <= env.cap
    <3>1. Cardinality(Crowd(t)) <= env.cap
      BY <2>3 DEF Limits, CapBound
    <3>2. /\ {u \in Live \ overlooked : Cluster[u] = Cluster[t]} \subseteq Crowd(t)
          /\ Crowd(t) \subseteq Trades
      <4>1. \A u \in Live \ overlooked : u \in Exposed /\ u \in Trades
        BY <2>1 DEF Live
      <4>2. QED
        BY <4>1 DEF Crowd
    <3>3. env.cap \in Nat
      BY SettingFields DEF IInv, TypeOK
    <3>4. QED
      BY <3>1, <3>2, <3>3, Smaller
  <2>4. QED
    BY <2>2, <2>3 DEF BookWithinLimits
<1>3. QED
  BY <1>1, <1>2, Start, Step, LimitsStep, PTL DEF Spec
=============================================================================
