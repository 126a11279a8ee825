----------------------------- MODULE MCFallback -----------------------------
(***************************************************************************)
(* Instances of Fallback.  FallbackSafety counts time in units of 15       *)
(* seconds: the timeouts of const.py, 90, 120, 20 and 60 seconds, are 6,   *)
(* 8, 2 (rounded up) and 4.  The other runs count units of 30 seconds: 3,  *)
(* 4, 1 and 2.                                                             *)
(***************************************************************************)
EXTENDS Fallback, TLC

Symmetry == Permutations(Attempts)
=============================================================================
