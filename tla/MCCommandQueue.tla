--------------------------- MODULE MCCommandQueue ---------------------------
(* Model checking of CommandQueue: the constants are in the cfg.           *)
EXTENDS CommandQueue

\* The calls differ only in their names, and the specification obliges nobody to
\* make one: the behaviours in which they arrive in the order of their numbers
\* are, up to renaming, all of them.
ArrivalOrder ==
  \A q, r \in Requests :
    q < r /\ call[q] = "new" /\ call[r] = "new" => call'[r] = "new"
=============================================================================
