---------------------------- MODULE BudgetLedger ----------------------------
(***************************************************************************)
(* What the cash guard promises to an account that may only spend settled  *)
(* cash: money is committed before it is spent, no more is committed than  *)
(* the day started with, and a commitment is taken back only when no BUY   *)
(* order can still use it.  EntryBudget is the detailed specification that *)
(* implements this one.                                                    *)
(***************************************************************************)
EXTENDS Integers, Sums

CONSTANTS
    Trades,     \* the entry attempts of the day
    Cost        \* Cost[t]: the cash the BUY order of t can use

VARIABLES
    funds,      \* settled cash at the start of the day, buffer deducted
    committed,  \* the trades whose cash is set aside
    bought      \* the trades whose BUY works at the broker or has filled

vars == <<funds, committed, bought>>

\* The cash of a set of trades.
Cash(S) == Sum(Cost, S)

Init ==
    /\ funds \in Nat
    /\ committed = {}
    /\ bought = {}

\* Cash is set aside only while the day's money lasts.
Commit(t) ==
    /\ t \notin committed
    /\ Cash(committed) + Cost[t] <= funds
    /\ committed' = committed \cup {t}
    /\ UNCHANGED <<funds, bought>>

Buy(t) ==
    /\ t \in committed \ bought
    /\ bought' = bought \cup {t}
    /\ UNCHANGED <<funds, committed>>

\* A BUY ends without a fill.
Die(t) ==
    /\ t \in bought
    /\ bought' = bought \ {t}
    /\ UNCHANGED <<funds, committed>>

\* Only cash that no BUY can use any more is given back.
Free(t) ==
    /\ t \in committed \ bought
    /\ committed' = committed \ {t}
    /\ UNCHANGED <<funds, bought>>

Next == \E t \in Trades : Commit(t) \/ Buy(t) \/ Die(t) \/ Free(t)

Spec == Init /\ [][Next]_vars
=============================================================================
