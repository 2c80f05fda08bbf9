------------------------- MODULE MCDurableExitState -------------------------
(* Model-checking instance of DurableExitState: two symbol-lock managers   *)
(* (dispatcher and reprotection sweep) and one lifecycle sync.             *)
EXTENDS DurableExitState, TLC

CONSTANTS m1, m2, s1, k1, k2

MCManagers == {m1, m2}
MCSyncers == {s1}
MCIntentKeys == {k1, k2}

\* Managers are alike, and so are keys: both are only compared.
MCSymmetry == Permutations(MCManagers) \cup Permutations(MCIntentKeys)

=============================================================================
