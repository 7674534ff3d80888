----------------------------- MODULE BroadPhase -----------------------------
(***************************************************************************)
(* The broad phase of a simulation step: which satellite-debris pairs the  *)
(* narrow phase looks at. Every object has a shell, the interval of radii  *)
(* its orbit covers, widened by a margin. Only pairs whose shells overlap  *)
(* are candidates, and an index on the semi-major axis saves testing most  *)
(* pairs: debris is filed in bins, and a satellite looks at the bins near  *)
(* its own. Objects the index could miss are looked at by everyone (fail   *)
(* open).                                                                  *)
(*                                                                         *)
(* Lengths are integers. The semi-major axis is (rp + ra) / 2; bins and    *)
(* spans are computed on rp + ra, so that nothing is rounded. The lists of *)
(* the code are sets: a debris object is filed in one bin or fails open,   *)
(* so the code's stamps never meet one twice.                              *)
(***************************************************************************)
EXTENDS Integers, FiniteSets

CONSTANTS
  NumObjects,    \* store.size()
  Stores,        \* the stores the step may find
  MaxRadius,     \* bound: radii are 0..MaxRadius
  MaxIBin,       \* bound: inclination bins are 0..MaxIBin
  ShellMargin,   \* shell_margin_km
  InvalidPad,    \* invalid_shell_pad_km
  BinWidth,      \* a_bin_width_km
  Neighbors,     \* band_neighbor_bins
  HighE          \* high_e_fail_open, in percent

ASSUME BroadPhaseAssumption ==
  /\ MaxRadius \in Nat /\ MaxIBin \in Nat
  /\ ShellMargin \in Nat /\ InvalidPad \in Nat
  /\ BinWidth \in Nat \ {0} /\ Neighbors \in Nat /\ HighE \in Nat

Ids == 1..NumObjects
Radii == 0..MaxRadius
Objects ==
  [type : {"SATELLITE", "DEBRIS"}, valid : BOOLEAN, rp : Radii, ra : Radii,
   r : Radii, ibin : 0..MaxIBin]

ASSUME StoresAssumption ==
  /\ NumObjects \in Nat
  /\ Stores \subseteq [Ids -> Objects]
  /\ \A s \in Stores : \A i \in Ids : s[i].rp <= s[i].ra

Switches == [iFilter : BOOLEAN, dCriterion : BOOLEAN, dShadow : BOOLEAN]

VARIABLES
  objects,      \* the store at the target epoch: an element of Stores
  switches,     \* enable_i_neighbor_filter, enable_dcriterion, shadow_dcriterion
  filed,        \* band_entries
  open,         \* fail_open_debris_indices
  indexed,      \* the first loop is done
  visited,      \* satellites the second loop has passed
  candidates,   \* out.candidates
  far,          \* history: pairs of overlapping shells above the D-criterion
  counts        \* the counters of out

store == <<objects, switches>>
vars == <<store, filed, open, indexed, visited, candidates, far, counts>>

Satellites == {i \in Ids : objects[i].type = "SATELLITE"}
Debris == {j \in Ids : objects[j].type = "DEBRIS"}

Init ==
  /\ objects \in Stores
  /\ switches \in Switches
  /\ filed = {} /\ open = {}
  /\ indexed = FALSE
  /\ visited = {}
  /\ candidates = {} /\ far = {}
  /\ counts = [considered |-> 0, afterBand |-> 0, overlap |-> 0,
               rejected |-> 0, shadow |-> 0]

-----------------------------------------------------------------------------
(* Shells, bins, and objects the index could miss.                         *)

Shell(o) ==
  IF o.valid
  THEN [min |-> o.rp - ShellMargin, max |-> o.ra + ShellMargin]
  ELSE [min |-> o.r - InvalidPad - ShellMargin,
        max |-> o.r + InvalidPad + ShellMargin]

Overlap(o, p) ==
  ~(Shell(o).max < Shell(p).min \/ Shell(p).max < Shell(o).min)

\* e = (ra - rp) / (ra + rp).
Eccentric(o) == 100 * (o.ra - o.rp) > HighE * (o.ra + o.rp)

\* Mutant: the margins of the two shells are forgotten.
FailOpenNoMargin(o) ==
  \/ ~o.valid
  \/ Eccentric(o)
  \/ o.ra - o.rp > Neighbors * BinWidth

FailOpen(o) ==
  LET maxSpan == Neighbors * BinWidth - 2 * ShellMargin IN
  \/ ~o.valid
  \/ Eccentric(o)
  \/ maxSpan <= 0
  \/ o.ra - o.rp > maxSpan

ABin(o) == (o.rp + o.ra) \div (2 * BinWidth)

\* Bins at most Neighbors apart.
Near(x, y) == x - y \in (-Neighbors)..Neighbors

\* Elements are valid and the orbit is not too eccentric for the D-criterion.
Comparable(o) == o.valid /\ ~Eccentric(o)

-----------------------------------------------------------------------------
(* generate_broad_phase_candidates.                                        *)

\* Mutant: satellites are filed as well.
IndexEveryObject ==
  /\ ~indexed
  /\ indexed' = TRUE
  /\ filed' = {j \in Ids : ~FailOpen(objects[j])}
  /\ open' = {j \in Debris : FailOpen(objects[j])}
  /\ UNCHANGED <<store, visited, candidates, far, counts>>

\* The first loop files the debris.
IndexObjects ==
  /\ ~indexed
  /\ indexed' = TRUE
  /\ filed' = {j \in Debris : ~FailOpen(objects[j])}
  /\ open' = {j \in Debris : FailOpen(objects[j])}
  /\ UNCHANGED <<store, visited, candidates, far, counts>>

\* The debris a satellite looks at.
Selected(i) ==
  IF FailOpen(objects[i]) THEN Debris
  ELSE open \cup
       {j \in filed :
          /\ Near(ABin(objects[j]), ABin(objects[i]))
          /\ switches.iFilter => Near(objects[j].ibin, objects[i].ibin)}

\* Pairs of the selected debris whose shells overlap, and those of them above
\* the D-criterion: orbits enter only by this choice.
Passing(i) == {j \in Selected(i) : Overlap(objects[i], objects[j])}
MayReject(i) ==
  {j \in Passing(i) : Comparable(objects[i]) /\ Comparable(objects[j])}

\* One round of the second loop, in the order of the store.
VisitSatellite(i) ==
  /\ indexed
  /\ \A k \in Satellites : k < i => k \in visited
  /\ visited' = visited \cup {i}
  /\ \E apart \in SUBSET MayReject(i) :
       LET rejected == IF switches.dCriterion THEN apart ELSE {} IN
       /\ far' = far \cup ({i} \X apart)
       /\ candidates' = candidates \cup ({i} \X (Passing(i) \ rejected))
       /\ counts' =
            [considered |-> counts.considered + Cardinality(Debris),
             afterBand |-> counts.afterBand + Cardinality(Selected(i)),
             overlap |-> counts.overlap + Cardinality(Passing(i)),
             rejected |-> counts.rejected + Cardinality(rejected),
             shadow |-> counts.shadow +
               (IF switches.dShadow THEN Cardinality(apart) ELSE 0)]
  /\ UNCHANGED <<store, filed, open, indexed>>

Next ==
  IndexObjects \/ \E i \in Satellites \ visited : VisitSatellite(i)

Spec == Init /\ [][Next]_vars

-----------------------------------------------------------------------------
(* Properties.                                                             *)

\* Every variable has its type.
TypeOK ==
  /\ objects \in [Ids -> Objects]
  /\ switches \in Switches
  /\ filed \subseteq Debris /\ open \subseteq Debris
  /\ indexed \in BOOLEAN
  /\ visited \subseteq Satellites
  /\ candidates \subseteq Satellites \X Debris
  /\ far \subseteq Satellites \X Debris
  /\ counts \in [considered : Nat, afterBand : Nat, overlap : Nat,
                 rejected : Nat, shadow : Nat]

\* The pairs an enabled filter takes out on purpose.
IFiltered(i, j) ==
  /\ switches.iFilter
  /\ ~FailOpen(objects[i]) /\ ~FailOpen(objects[j])
  /\ ~Near(objects[j].ibin, objects[i].ibin)
DRejected(i, j) == switches.dCriterion /\ <<i, j>> \in far

\* The index loses nothing and adds nothing: the candidates of a satellite are
\* the debris an all-pairs test of the shells would give, less what an enabled
\* filter takes out, whatever the bins and the objects that fail open.
CandidatesAreExact ==
  \A i \in visited : \A j \in Debris :
    <<i, j>> \in candidates <=>
      /\ Overlap(objects[i], objects[j])
      /\ ~IFiltered(i, j) /\ ~DRejected(i, j)

\* The reported funnel adds up over the satellites visited: every pair whose
\* shells overlap is a candidate or counted as rejected, never both.
FunnelAddsUp ==
  /\ counts.considered = Cardinality(visited) * Cardinality(Debris)
  /\ counts.overlap = Cardinality(candidates) + counts.rejected
  /\ counts.overlap <= counts.afterBand
  /\ counts.afterBand <= counts.considered
=============================================================================
