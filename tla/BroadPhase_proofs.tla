-------------------------- MODULE BroadPhase_proofs --------------------------
(***************************************************************************)
(* Proofs about BroadPhase: for any store and any setting of the index, no *)
(* pair of overlapping shells is lost.                                     *)
(***************************************************************************)
EXTENDS BroadPhase, FiniteSetTheorems, TLAPS

(* Dividing two numbers at most n * w apart by w gives quotients at most n *)
(* apart: the fact behind looking at n neighbour bins.                     *)
LEMMA DivisionBound ==
  ASSUME NEW w \in Nat \ {0}, NEW n \in Nat, NEW x \in Int, NEW y \in Int,
         x - y <= n * w
  PROVE  (x \div w) - (y \div w) <= n
<1> DEFINE p == x \div w  q == y \div w
<1>1. p \in Int /\ q \in Int
  OBVIOUS
<1>2. w * p <= x
  BY SMT
<1>3. y < w * q + w
  BY SMT
<1> HIDE DEF p, q
<1>4. SUFFICES ASSUME p - q >= n + 1 PROVE FALSE
  BY <1>1 DEF p, q
<1>5. w * (p - q) >= w * (n + 1)
  BY <1>1, <1>4, SMT
<1>6. w * (p - q) = w * p - w * q
  BY <1>1, SMT
<1>7. w * (n + 1) = n * w + w
  BY SMT
<1>8. w * p \in Int /\ w * q \in Int /\ n * w \in Int
  BY <1>1
<1> QED
  BY <1>2, <1>3, <1>5, <1>6, <1>7, <1>8

(* Orbits narrow enough for the index whose shells overlap have semi-major *)
(* axes at most Neighbors bins apart (counted in rp + ra): fail_open_object *)
(* leaves room for the margins of both shells.                             *)
LEMMA NarrowOrbitsAreNear ==
  ASSUME NEW o \in Objects, NEW p \in Objects, ~FailOpen(o), ~FailOpen(p),
         Overlap(o, p)
  PROVE  Near(ABin(o), ABin(p))
<1> USE BroadPhaseAssumption
<1> DEFINE nw == Neighbors * BinWidth
<1>1. nw \in Nat
  BY SMT
<1>2. /\ o.valid /\ p.valid
      /\ o.ra - o.rp <= nw - 2 * ShellMargin
      /\ p.ra - p.rp <= nw - 2 * ShellMargin
  BY <1>1 DEF FailOpen, Objects, Radii
<1>3. /\ o.rp - ShellMargin <= p.ra + ShellMargin
      /\ p.rp - ShellMargin <= o.ra + ShellMargin
  BY <1>2 DEF Overlap, Shell, Objects, Radii
<1>4. /\ (o.rp + o.ra) - (p.rp + p.ra) <= 2 * nw
      /\ (p.rp + p.ra) - (o.rp + o.ra) <= 2 * nw
  <2> HIDE DEF nw
  <2> QED BY <1>1, <1>2, <1>3 DEF Objects, Radii
<1>5. 2 * nw = Neighbors * (2 * BinWidth)
  BY SMT
<1>6. /\ o.rp + o.ra \in Int /\ p.rp + p.ra \in Int
      /\ 2 * BinWidth \in Nat \ {0}
  BY DEF Objects, Radii
<1>7. ABin(o) - ABin(p) <= Neighbors /\ ABin(p) - ABin(o) <= Neighbors
  BY <1>4, <1>5, <1>6, DivisionBound DEF ABin
<1>8. ABin(o) \in Int /\ ABin(p) \in Int
  BY <1>6 DEF ABin
<1> QED
  BY <1>7, <1>8 DEF Near

-----------------------------------------------------------------------------
(* What the two loops have established: the debris is filed or fails open, *)
(* and the pairs found so far belong to the satellites visited so far.     *)
LoopInv ==
  /\ indexed =>
       /\ filed = {j \in Debris : ~FailOpen(objects[j])}
       /\ open = {j \in Debris : FailOpen(objects[j])}
  /\ ~indexed => visited = {}
  /\ candidates \subseteq visited \X Debris
  /\ far \subseteq visited \X Debris

(* The sets of indices are finite, so that counting them gives numbers.    *)
LEMMA FiniteIds ==
  ASSUME NEW S \in SUBSET Ids
  PROVE  IsFiniteSet(S) /\ Cardinality(S) \in Nat
<1>1. NumObjects \in Nat
  BY StoresAssumption
<1>2. IsFiniteSet(Ids)
  BY <1>1, FS_Interval DEF Ids
<1> QED
  BY <1>2, FS_Subset, FS_CardinalityType

(* What a satellite looks at is debris.                                    *)
LEMMA SelectedIsDebris ==
  ASSUME TypeOK, NEW i \in Satellites
  PROVE  /\ Debris \subseteq Ids /\ Satellites \subseteq Ids
         /\ Selected(i) \subseteq Debris
         /\ Passing(i) \subseteq Selected(i)
         /\ MayReject(i) \subseteq Passing(i)
  BY DEF TypeOK, Selected, Passing, MayReject, Debris, Satellites

(* Every variable has its type, for any stores and any setting.            *)
THEOREM BroadTypeCorrect == Spec => []TypeOK
<1>1. Init => TypeOK
  <2>1. ASSUME Init
        PROVE  /\ objects \in [Ids -> Objects] /\ switches \in Switches
               /\ counts \in [considered : Nat, afterBand : Nat,
                              overlap : Nat, rejected : Nat, shadow : Nat]
    BY <2>1, StoresAssumption DEF Init
  <2> QED
    BY <2>1 DEF Init, TypeOK
<1>2. TypeOK /\ [Next]_vars => TypeOK'
  <2> SUFFICES ASSUME TypeOK, [Next]_vars PROVE TypeOK'
    OBVIOUS
  <2>1. CASE IndexObjects
    <3>1. Debris' = Debris /\ Satellites' = Satellites
      BY <2>1 DEF IndexObjects, store, Debris, Satellites
    <3> QED
      BY <2>1, <3>1 DEF IndexObjects, TypeOK, store
  <2>2. ASSUME NEW i \in Satellites \ visited, VisitSatellite(i)
        PROVE  TypeOK'
    <3>1. Debris' = Debris /\ Satellites' = Satellites
      BY <2>2 DEF VisitSatellite, store, Debris, Satellites
    <3>2. PICK apart \in SUBSET MayReject(i) :
            LET rejected == IF switches.dCriterion THEN apart ELSE {} IN
            /\ far' = far \cup ({i} \X apart)
            /\ candidates' = candidates \cup ({i} \X (Passing(i) \ rejected))
            /\ counts' =
                 [considered |-> counts.considered + Cardinality(Debris),
                  afterBand |-> counts.afterBand + Cardinality(Selected(i)),
                  overlap |-> counts.overlap + Cardinality(Passing(i)),
                  rejected |-> counts.rejected + Cardinality(rejected),
                  shadow |-> counts.shadow +
                    (IF switches.dShadow THEN Cardinality(apart) ELSE 0)]
      BY <2>2 DEF VisitSatellite
    <3> DEFINE rejected == IF switches.dCriterion THEN apart ELSE {}
    <3>3. /\ Debris \subseteq Ids /\ Selected(i) \subseteq Debris
          /\ Passing(i) \subseteq Selected(i) /\ apart \subseteq Passing(i)
          /\ rejected \subseteq Passing(i)
      BY <3>2, SelectedIsDebris
    <3>4. /\ Cardinality(Debris) \in Nat /\ Cardinality(Selected(i)) \in Nat
          /\ Cardinality(Passing(i)) \in Nat /\ Cardinality(apart) \in Nat
          /\ Cardinality(rejected) \in Nat
      <4> HIDE DEF rejected
      <4> QED BY <3>3, FiniteIds
    <3> HIDE DEF rejected
    <3>5. far' = far \cup ({i} \X apart)
          /\ candidates' = candidates \cup ({i} \X (Passing(i) \ rejected))
      BY <3>2 DEF rejected
    <3>6. counts' \in [considered : Nat, afterBand : Nat, overlap : Nat,
                       rejected : Nat, shadow : Nat]
      BY <3>2, <3>4 DEF rejected, TypeOK
    <3>7. far' \subseteq Satellites \X Debris
          /\ candidates' \subseteq Satellites \X Debris
      BY <3>3, <3>5 DEF TypeOK
    <3> QED
      BY <2>2, <3>1, <3>6, <3>7 DEF VisitSatellite, TypeOK, store
  <2>3. CASE UNCHANGED vars
    BY <2>3 DEF vars, store, TypeOK, Debris, Satellites
  <2> QED
    BY <2>1, <2>2, <2>3 DEF Next
<1> QED
  BY <1>1, <1>2, PTL DEF Spec

(* The loops keep LoopInv.                                                 *)
LEMMA LoopInvariant == Spec => []LoopInv
<1>1. Init => LoopInv
  BY DEF Init, LoopInv
<1>2. TypeOK /\ LoopInv /\ [Next]_vars => LoopInv'
  <2> SUFFICES ASSUME TypeOK, LoopInv, [Next]_vars PROVE LoopInv'
    OBVIOUS
  <2>1. CASE IndexObjects
    BY <2>1 DEF IndexObjects, LoopInv, store, Debris
  <2>2. ASSUME NEW i \in Satellites \ visited, VisitSatellite(i)
        PROVE  LoopInv'
    <3>1. Debris' = Debris /\ objects' = objects
      BY <2>2 DEF VisitSatellite, store, Debris
    <3>2. PICK apart \in SUBSET MayReject(i), rejected \in SUBSET MayReject(i) :
            /\ far' = far \cup ({i} \X apart)
            /\ candidates' = candidates \cup ({i} \X (Passing(i) \ rejected))
      <4>1. PICK apart \in SUBSET MayReject(i) :
            /\ far' = far \cup ({i} \X apart)
            /\ candidates' = candidates \cup
                 ({i} \X (Passing(i) \ IF switches.dCriterion THEN apart
                                       ELSE {}))
        BY <2>2 DEF VisitSatellite
      <4> QED BY <4>1
    <3>3. Passing(i) \subseteq Debris /\ MayReject(i) \subseteq Debris
      BY SelectedIsDebris
    <3>4. /\ candidates' \subseteq visited' \X Debris
          /\ far' \subseteq visited' \X Debris
      BY <2>2, <3>2, <3>3 DEF VisitSatellite, LoopInv
    <3> QED
      BY <2>2, <3>1, <3>4 DEF VisitSatellite, LoopInv
  <2>3. CASE UNCHANGED vars
    BY <2>3 DEF vars, store, LoopInv, Debris
  <2> QED
    BY <2>1, <2>2, <2>3 DEF Next
<1> QED
  BY <1>1, <1>2, BroadTypeCorrect, PTL DEF Spec

(* Of the debris with overlapping shells the index loses only what the     *)
(* inclination filter takes out.                                           *)
LEMMA PassingIsOverlap ==
  ASSUME TypeOK, LoopInv, indexed, NEW i \in Satellites, NEW j \in Debris
  PROVE  j \in Passing(i) <=>
           Overlap(objects[i], objects[j]) /\ ~IFiltered(i, j)
<1>1. objects[i] \in Objects /\ objects[j] \in Objects
  BY DEF TypeOK, Satellites, Debris
<1>2. /\ filed = {k \in Debris : ~FailOpen(objects[k])}
      /\ open = {k \in Debris : FailOpen(objects[k])}
  BY DEF LoopInv
<1>3. CASE FailOpen(objects[i])
  BY <1>3 DEF Passing, Selected, IFiltered
<1>4. CASE ~FailOpen(objects[i]) /\ FailOpen(objects[j])
  BY <1>2, <1>4 DEF Passing, Selected, IFiltered
<1>5. CASE ~FailOpen(objects[i]) /\ ~FailOpen(objects[j])
  <2>1. Overlap(objects[i], objects[j]) => Overlap(objects[j], objects[i])
    BY DEF Overlap
  <2>2. Overlap(objects[i], objects[j]) =>
          Near(ABin(objects[j]), ABin(objects[i]))
    BY <1>1, <1>5, <2>1, NarrowOrbitsAreNear
  <2>3. j \in Selected(i) <=>
          /\ Near(ABin(objects[j]), ABin(objects[i]))
          /\ switches.iFilter => Near(objects[j].ibin, objects[i].ibin)
    BY <1>2, <1>5 DEF Selected
  <2>4. IFiltered(i, j) <=>
          switches.iFilter /\ ~Near(objects[j].ibin, objects[i].ibin)
    BY <1>5 DEF IFiltered
  <2> QED
    BY <2>2, <2>3, <2>4 DEF Passing
<1> QED
  BY <1>3, <1>4, <1>5

(* The candidates are exactly the pairs an all-pairs test of the shells    *)
(* would give, less what an enabled filter takes out, for any bin width,   *)
(* margin and number of neighbour bins.                                    *)
THEOREM BroadPhaseIsExact == Spec => []CandidatesAreExact
<1>1. Init => CandidatesAreExact
  BY DEF Init, CandidatesAreExact
<1>2. TypeOK /\ LoopInv /\ CandidatesAreExact /\ [Next]_vars
        => CandidatesAreExact'
  <2> SUFFICES ASSUME TypeOK, LoopInv, CandidatesAreExact, [Next]_vars
               PROVE  CandidatesAreExact'
    OBVIOUS
  <2>1. CASE IndexObjects
    BY <2>1 DEF IndexObjects, CandidatesAreExact, store, Debris, IFiltered,
                DRejected
  <2>2. ASSUME NEW i \in Satellites \ visited, VisitSatellite(i)
        PROVE  CandidatesAreExact'
    <3>1. /\ Debris' = Debris /\ objects' = objects /\ switches' = switches
          /\ indexed
          /\ visited' = visited \cup {i}
      BY <2>2 DEF VisitSatellite, store, Debris
    <3>2. PICK apart \in SUBSET MayReject(i) :
            /\ far' = far \cup ({i} \X apart)
            /\ candidates' = candidates \cup
                 ({i} \X (Passing(i) \ IF switches.dCriterion THEN apart
                                       ELSE {}))
      BY <2>2 DEF VisitSatellite
    <3> SUFFICES ASSUME NEW k \in visited \cup {i}, NEW j \in Debris
                 PROVE  <<k, j>> \in candidates' <=>
                          /\ Overlap(objects[k], objects[j])
                          /\ ~IFiltered(k, j)
                          /\ ~(switches.dCriterion /\ <<k, j>> \in far')
      BY <3>1 DEF CandidatesAreExact, IFiltered, DRejected
    <3>3. CASE k # i
      <4>1. (<<k, j>> \in candidates' <=> <<k, j>> \in candidates)
            /\ (<<k, j>> \in far' <=> <<k, j>> \in far)
        BY <3>2, <3>3
      <4> QED
        BY <3>3, <4>1 DEF CandidatesAreExact, DRejected
    <3>4. CASE k = i
      <4>1. <<k, j>> \notin candidates /\ <<k, j>> \notin far
        BY <3>4 DEF LoopInv
      <4>2. j \in Passing(i) <=>
              Overlap(objects[i], objects[j]) /\ ~IFiltered(i, j)
        BY <3>1, PassingIsOverlap
      <4>3. <<k, j>> \in far' <=> j \in apart
        BY <3>2, <3>4, <4>1
      <4>4. <<k, j>> \in candidates' <=>
              j \in Passing(i) /\ ~(switches.dCriterion /\ j \in apart)
        BY <3>2, <3>4, <4>1
      <4> QED
        BY <3>4, <4>2, <4>3, <4>4
    <3> QED
      BY <3>3, <3>4
  <2>3. CASE UNCHANGED vars
    BY <2>3 DEF vars, store, CandidatesAreExact, Debris, IFiltered, DRejected
  <2> QED
    BY <2>1, <2>2, <2>3 DEF Next
<1> QED
  BY <1>1, <1>2, BroadTypeCorrect, LoopInvariant, PTL DEF Spec

(* Adding the pairs of one more satellite adds as many pairs as debris.    *)
LEMMA PairsAdd ==
  ASSUME NEW C, IsFiniteSet(C), NEW i, NEW S, IsFiniteSet(S),
         \A j \in S : <<i, j>> \notin C
  PROVE  Cardinality(C \cup ({i} \X S)) = Cardinality(C) + Cardinality(S)
<1>1. IsFiniteSet({i}) /\ Cardinality({i}) = 1
  BY FS_Singleton
<1>2. IsFiniteSet({i} \X S) /\ Cardinality({i} \X S) = 1 * Cardinality(S)
  BY <1>1, FS_Product
<1>3. C \cap ({i} \X S) = {}
  OBVIOUS
<1>4. Cardinality(C \cap ({i} \X S)) = 0
  BY <1>3, FS_EmptySet
<1>5. Cardinality(C) \in Nat /\ Cardinality(S) \in Nat
  BY FS_CardinalityType
<1>6. Cardinality(C \cup ({i} \X S))
        = Cardinality(C) + Cardinality({i} \X S) - Cardinality(C \cap ({i} \X S))
  BY <1>2, FS_Union
<1> QED
  BY <1>2, <1>4, <1>5, <1>6

(* The counters of the status page add up, for any stores and any setting. *)
THEOREM FunnelCorrect == Spec => []FunnelAddsUp
<1>1. Init => FunnelAddsUp
  <2> SUFFICES ASSUME Init PROVE FunnelAddsUp
    OBVIOUS
  <2>1. Cardinality(visited) = 0 /\ Cardinality(candidates) = 0
    BY FS_EmptySet DEF Init
  <2>2. Cardinality(Debris) \in Nat
    BY FiniteIds DEF Debris
  <2> QED
    BY <2>1, <2>2 DEF Init, FunnelAddsUp
<1>2. TypeOK /\ LoopInv /\ FunnelAddsUp /\ [Next]_vars => FunnelAddsUp'
  <2> SUFFICES ASSUME TypeOK, LoopInv, FunnelAddsUp, [Next]_vars
               PROVE  FunnelAddsUp'
    OBVIOUS
  <2>1. CASE IndexObjects
    BY <2>1 DEF IndexObjects, FunnelAddsUp, store, Debris
  <2>2. ASSUME NEW i \in Satellites \ visited, VisitSatellite(i)
        PROVE  FunnelAddsUp'
    <3>1. Debris' = Debris /\ visited' = visited \cup {i}
      BY <2>2 DEF VisitSatellite, store, Debris
    <3>2. PICK rejected \in SUBSET MayReject(i) :
            /\ candidates' = candidates \cup ({i} \X (Passing(i) \ rejected))
            /\ counts'.considered = counts.considered + Cardinality(Debris)
            /\ counts'.afterBand = counts.afterBand + Cardinality(Selected(i))
            /\ counts'.overlap = counts.overlap + Cardinality(Passing(i))
            /\ counts'.rejected = counts.rejected + Cardinality(rejected)
      <4>1. PICK apart \in SUBSET MayReject(i) :
              LET rejected == IF switches.dCriterion THEN apart ELSE {} IN
              /\ candidates' = candidates \cup ({i} \X (Passing(i) \ rejected))
              /\ counts' =
                   [considered |-> counts.considered + Cardinality(Debris),
                    afterBand |-> counts.afterBand + Cardinality(Selected(i)),
                    overlap |-> counts.overlap + Cardinality(Passing(i)),
                    rejected |-> counts.rejected + Cardinality(rejected),
                    shadow |-> counts.shadow +
                      (IF switches.dShadow THEN Cardinality(apart) ELSE 0)]
        BY <2>2 DEF VisitSatellite
      <4>2. PICK r \in SUBSET MayReject(i) :
              r = IF switches.dCriterion THEN apart ELSE {}
        OBVIOUS
      <4>3. /\ counts'.considered = counts.considered + Cardinality(Debris)
            /\ counts'.afterBand = counts.afterBand + Cardinality(Selected(i))
            /\ counts'.overlap = counts.overlap + Cardinality(Passing(i))
            /\ counts'.rejected = counts.rejected + Cardinality(r)
        BY <4>1, <4>2, Zenon
      <4>4. candidates' = candidates \cup ({i} \X (Passing(i) \ r))
        BY <4>1, <4>2
      <4> QED BY <4>3, <4>4
    <3>3. /\ Debris \subseteq Ids /\ Selected(i) \subseteq Debris
          /\ Passing(i) \subseteq Selected(i) /\ rejected \subseteq Passing(i)
          /\ Satellites \subseteq Ids
      BY SelectedIsDebris
    <3>4. /\ IsFiniteSet(Debris) /\ Cardinality(Debris) \in Nat
          /\ IsFiniteSet(Selected(i)) /\ Cardinality(Selected(i)) \in Nat
          /\ IsFiniteSet(Passing(i)) /\ Cardinality(Passing(i)) \in Nat
          /\ IsFiniteSet(rejected) /\ Cardinality(rejected) \in Nat
          /\ IsFiniteSet(Passing(i) \ rejected)
          /\ Cardinality(Passing(i) \ rejected) \in Nat
      BY <3>3, FiniteIds
    <3>5. /\ Cardinality(Selected(i)) <= Cardinality(Debris)
          /\ Cardinality(Passing(i)) <= Cardinality(Selected(i))
      BY <3>3, <3>4, FS_Subset
    <3>6. Cardinality(Passing(i))
            = Cardinality(Passing(i) \ rejected) + Cardinality(rejected)
      <4>1. Passing(i) \cap rejected = rejected
        BY <3>3
      <4>2. Cardinality(Passing(i) \ rejected)
              = Cardinality(Passing(i)) - Cardinality(Passing(i) \cap rejected)
        BY <3>4, FS_Difference
      <4>3. Cardinality(Passing(i) \cap rejected) = Cardinality(rejected)
        BY <4>1, Zenon
      <4> QED
        BY <3>4, <4>2, <4>3
    <3>7. IsFiniteSet(visited) /\ IsFiniteSet(candidates)
      <4>1. IsFiniteSet(visited)
        <5>1. visited \in SUBSET Ids
          BY <3>3 DEF TypeOK
        <5> QED BY <5>1, FiniteIds, Zenon
      <4>2. IsFiniteSet(visited \X Debris)
        BY <3>4, <4>1, FS_Product
      <4>3. candidates \in SUBSET (visited \X Debris)
        BY DEF LoopInv
      <4>4. IsFiniteSet(candidates)
        BY <4>2, <4>3, FS_Subset, Zenon
      <4> QED
        BY <4>1, <4>4
    <3>8. Cardinality(visited') = Cardinality(visited) + 1
          /\ Cardinality(visited) \in Nat
      BY <3>1, <3>7, FS_AddElement, FS_CardinalityType
    <3>9. Cardinality(candidates')
            = Cardinality(candidates) + Cardinality(Passing(i) \ rejected)
      <4>1. \A j \in Passing(i) \ rejected : <<i, j>> \notin candidates
        BY DEF LoopInv
      <4>2. Cardinality(candidates \cup ({i} \X (Passing(i) \ rejected)))
              = Cardinality(candidates) + Cardinality(Passing(i) \ rejected)
        <5> DEFINE S == Passing(i) \ rejected
        <5>1. IsFiniteSet(S) /\ \A j \in S : <<i, j>> \notin candidates
          BY <3>4, <4>1
        <5> HIDE DEF S
        <5>2. Cardinality(candidates \cup ({i} \X S))
                = Cardinality(candidates) + Cardinality(S)
          BY <3>7, <5>1, PairsAdd, Zenon
        <5> QED BY <5>2 DEF S
      <4> QED
        BY <3>2, <4>2
    <3>10. Cardinality(candidates) \in Nat
      BY <3>7, FS_CardinalityType
    <3>11. (Cardinality(visited) + 1) * Cardinality(Debris)
             = Cardinality(visited) * Cardinality(Debris) + Cardinality(Debris)
      BY <3>4, <3>8, SMT
    <3>12. counts'.considered = Cardinality(visited') * Cardinality(Debris')
      BY <3>1, <3>2, <3>8, <3>11 DEF FunnelAddsUp
    <3>13. /\ counts.considered \in Nat /\ counts.afterBand \in Nat
           /\ counts.overlap \in Nat /\ counts.rejected \in Nat
      BY DEF TypeOK
    <3>14. counts'.overlap = Cardinality(candidates') + counts'.rejected
      BY <3>2, <3>4, <3>6, <3>9, <3>10, <3>13 DEF FunnelAddsUp
    <3>15. /\ counts'.overlap <= counts'.afterBand
           /\ counts'.afterBand <= counts'.considered
      BY <3>2, <3>4, <3>5, <3>13 DEF FunnelAddsUp
    <3> QED
      BY <3>12, <3>14, <3>15 DEF FunnelAddsUp
  <2>3. CASE UNCHANGED vars
    BY <2>3 DEF vars, store, FunnelAddsUp, Debris
  <2> QED
    BY <2>1, <2>2, <2>3 DEF Next
<1> QED
  BY <1>1, <1>2, BroadTypeCorrect, LoopInvariant, PTL DEF Spec
=============================================================================
