--------------------------- MODULE MCEntryBudget ----------------------------
\* Two entries racing for the budgets beside a position from the day before.
EXTENDS EntryBudget, TLC
CONSTANTS a, b, f

MCCost == (a :> 2) @@ (b :> 2) @@ (f :> 1)
MCLoss == (a :> 1) @@ (b :> 1) @@ (f :> 0)
MCCluster == (a :> "broad_market") @@ (b :> "broad_market") @@ (f :> "volatility")

Setting(funds, cap, intents, railA, held, most) ==
    [funds |-> funds, cap |-> cap, intents |-> intents, railA |-> railA, held |-> held,
     mishaps |-> most]

\* Loss for one of two entries, without durable intents; cash for one of two, with them;
\* one per cluster beside an older position, Rail A off and the day row made on demand;
\* cash for none, where a second mishap can follow the failed prefetch.
MCSettings == {Setting(5, 0, FALSE, TRUE, {}, 1), Setting(3, 0, TRUE, TRUE, {}, 1),
               Setting(5, 1, FALSE, FALSE, {f}, 1), Setting(1, 0, FALSE, FALSE, {}, 2)}
=============================================================================
