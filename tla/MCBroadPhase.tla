---------------------------- MODULE MCBroadPhase ----------------------------
(* Model checking of BroadPhase: the objects are taken from a small set of *)
(* orbits whose bins lie 0 to 3 apart, whose spans lie on both sides of    *)
(* the limit of the index, one of them narrow but eccentric.               *)
EXTENDS BroadPhase

Orbit(rp, ra, ibin) == [valid |-> TRUE, rp |-> rp, ra |-> ra, r |-> rp,
                        ibin |-> ibin]
Orbits ==
  {Orbit(8, 8, 0), Orbit(8, 8, 2), Orbit(8, 10, 0), Orbit(11, 13, 0),
   Orbit(14, 18, 0), Orbit(3, 5, 0), Orbit(6, 6, 0), Orbit(8, 12, 2),
   [valid |-> FALSE, rp |-> 0, ra |-> 0, r |-> 14, ibin |-> 0]}

Of(type, o) == [type |-> type, valid |-> o.valid, rp |-> o.rp, ra |-> o.ra,
                r |-> o.r, ibin |-> o.ibin]

\* Two satellites and two debris objects.
MCStores ==
  {<<Of("SATELLITE", o[1]), Of("DEBRIS", o[2]), Of("SATELLITE", o[3]),
     Of("DEBRIS", o[4])>> : o \in [1..4 -> Orbits]}
=============================================================================
