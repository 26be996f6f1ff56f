--------------------------- MODULE MCDurableState --------------------------
(* TLC instance of DurableState: transitions of two kinds.                 *)
EXTENDS DurableState, TLC

Symmetry == Permutations(Procs) \union Permutations(Values)
=============================================================================
