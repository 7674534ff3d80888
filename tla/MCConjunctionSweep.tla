------------------------- MODULE MCConjunctionSweep -------------------------
(* Model checking of ConjunctionSweep.                                     *)
EXTENDS ConjunctionSweep
=============================================================================
