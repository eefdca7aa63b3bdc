-------------------------- MODULE MCOptimisticSync --------------------------
(* Model-checking instance of OptimisticSync: the constant values used by *)
(* the runs and the bound that keeps the caller's request ids finite.      *)
EXTENDS OptimisticSync

\* One code upgrade in the middle of the chain, so that both best_runtime
\* and finalized_runtime paths are taken.
MCUpgrades == {2}

=============================================================================
