---------------------------- MODULE MCObjectStore ----------------------------
(* Model checking of ObjectStore. Nothing tells one object or one source   *)
(* from another, and the run checks invariants only.                       *)
EXTENDS ObjectStore, TLC

Symmetry == Permutations(Objects) \cup Permutations(Sources)
=============================================================================
