----------------------------- MODULE MCListener -----------------------------
(* Listener with three entries, which may all be set up at the same time. *)
EXTENDS Listener, TLC

Symmetry == Permutations(Entries) \cup Permutations(Listeners)
=============================================================================
