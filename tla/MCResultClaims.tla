--------------------------- MODULE MCResultClaims ---------------------------
(* TLC instance of ResultClaims: sets and bounds are in the .cfg file. No   *)
(* symmetry, because liveness is checked.                                   *)
EXTENDS ResultClaims, TLC
=============================================================================
