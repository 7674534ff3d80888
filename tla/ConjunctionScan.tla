--------------------------- MODULE ConjunctionScan ---------------------------
(***************************************************************************)
(* The predictive conjunction scan of a simulation step, and the avoidance *)
(* burn planned from it. A pair of objects is the sequence of distances    *)
(* the propagation of both would find at the sample instants, the present  *)
(* one first; Failed where it breaks off.                                  *)
(***************************************************************************)
EXTENDS Integers, FiniteSets, SequencesExt, SequenceFilter

CONSTANTS
  Failed,        \* not a distance: an object cannot be propagated
  Critical,      \* COLLISION_THRESHOLD_KM
  Warn,          \* the limit of CdmSeverity::WARNING
  Screening,     \* SCREENING_THRESHOLD_KM
  KPredictive,   \* kMaxPredictiveRecords
  Target,        \* cola_target_miss_km
  Improvement,   \* what a burn must add to the miss distance to reach its target
  MinLead,       \* cola_min_lead_s
  Horizon,       \* ops_auto_upload_horizon_s
  Parts,         \* kBurnFractions divides the window in so many parts
  Scales,        \* kBurnScales in order, times the smallest automatic delta-v
  TriggerLimit   \* cola_trigger_limit

ASSUME ScanAssumption ==
  /\ Critical \in Nat /\ Warn \in Nat /\ Screening \in Nat /\ Target \in Nat
  /\ Critical < Warn /\ Warn < Screening /\ Critical < Target
  /\ Failed \notin Int
  /\ KPredictive \in Nat \ {0} /\ TriggerLimit \in Nat \ {0}
  /\ Parts \in Nat \ {0} /\ Scales \in Seq(Nat \ {0})
  /\ Improvement \in Nat /\ MinLead \in Nat /\ Horizon \in Nat

-----------------------------------------------------------------------------
(* One pair.                                                               *)

\* The first index the predicate holds of, or the last one.
FirstIndex(s, P(_)) ==
  LET hits == {i \in DOMAIN s : P(i)}
  IN  IF hits = {} THEN Len(s) ELSE CHOOSE i \in hits : \A j \in hits : i <= j

\* Where the minimum was first seen: a later sample must be nearer.
NearestOf(d) ==
  CHOOSE i \in DOMAIN d : /\ \A j \in DOMAIN d : d[i] <= d[j]
                          /\ \A j \in 1..(i - 1) : d[i] < d[j]

\* scan_pair_minimum_separation: all samples, up to a failure.
ScanPair(d) ==
  LET stop == FirstIndex(d, LAMBDA i : d[i] = Failed)
      seen == SubSeq(d, 1, IF d[stop] = Failed THEN stop - 1 ELSE stop)
  IN  [failOpen |-> d[stop] = Failed, at |-> NearestOf(seen),
       miss |-> seen[NearestOf(seen)]]

\* The 24-hour scan leaves a pair at the first sample after the present one
\* that is critical, or that cannot be reached.
ScanStop(d) ==
  FirstIndex(d, LAMBDA i : i > 1 /\ (d[i] = Failed \/ d[i] < Critical))

\* classify_miss_distance.
Classify(miss) ==
  IF miss <= Critical THEN "CRITICAL"
  ELSE IF miss <= Warn THEN "WARNING" ELSE "WATCH"

\* What the scan finds of a pair; the record of one within the screening range.
Finding(pair) ==
  LET scan == ScanPair(SubSeq(pair.d, 1, ScanStop(pair.d)))
      miss == IF scan.failOpen THEN 0 ELSE scan.miss
  IN  [sat |-> pair.sat, deb |-> pair.deb, tca |-> scan.at, miss |-> miss,
       failOpen |-> scan.failOpen,
       collision |-> ~scan.failOpen /\ scan.miss < Critical,
       severity |-> IF scan.failOpen THEN "CRITICAL" ELSE Classify(miss)]

Screened(finding) == finding.failOpen \/ finding.miss < Screening

-----------------------------------------------------------------------------
(* All pairs.                                                              *)

\* conjunction_less, for values further apart than its tolerances.
ConjunctionLess(a, b) ==
  IF a.collision # b.collision THEN a.collision
  ELSE IF a.failOpen # b.failOpen THEN a.failOpen
  ELSE IF a.miss # b.miss THEN a.miss < b.miss
  ELSE IF a.tca # b.tca THEN a.tca < b.tca
  ELSE IF a.sat # b.sat THEN a.sat < b.sat
  ELSE a.deb < b.deb

\* std::sort, of records no two of which are equivalent.
SortedRecords(s) ==
  CHOOSE t \in [DOMAIN s -> ToSet(s)] :
    /\ ToSet(t) = ToSet(s)
    /\ \A i, j \in DOMAIN t : i < j => ConjunctionLess(t[i], t[j])

\* Mutant: the list is cut before it is sorted.
AppendLimitedUnsorted(records, record) ==
  LET all == Append(records, record)
  IN  SortedRecords(IF Len(all) <= KPredictive THEN all
                    ELSE SubSeq(all, 1, KPredictive))

\* append_conjunction_record_limited: push_back, sort, resize.
AppendLimited(records, record) ==
  LET all == SortedRecords(Append(records, record))
  IN  IF Len(all) <= KPredictive THEN all ELSE SubSeq(all, 1, KPredictive)

\* compute_cdm_warnings_24h over the broad phase's candidates.
CdmScan(pairs) ==
  FoldLeft(LAMBDA out, pair :
             LET f == Finding(pair) IN
             IF ~Screened(f) THEN out
             ELSE [warnings |-> out.warnings
                                + (IF f.severity = "CRITICAL" THEN 1 ELSE 0),
                   records |-> AppendLimited(out.records, f)],
           [warnings |-> 0, records |-> << >>], pairs)

-----------------------------------------------------------------------------
(* The avoidance burn: build_auto_cola_plan.                               *)

NoPlan == [valid |-> FALSE]

\* auto_cola_safety_class.
SafetyClass(miss, triggerMiss) ==
  LET target == IF triggerMiss + Improvement > Target
                THEN triggerMiss + Improvement ELSE Target
  IN  IF miss >= target THEN 2 ELSE IF miss > Critical THEN 1 ELSE 0

\* The figures two plans are compared by, the most important first: each is
\* better when smaller.
Merits(p) ==
  IF p.class >= 1
  THEN <<p.dv, p.normal, p.slotError, -p.miss, p.lead, -p.burn>>
  ELSE <<-p.miss, p.dv, p.normal, p.slotError, p.lead, -p.burn>>

\* Mutant: any safe burn will do, the cheapest first.
PlanBetterCheapest(lhs, rhs) ==
  /\ lhs.valid
  /\ \/ ~rhs.valid
     \/ lhs.dv < rhs.dv

\* auto_cola_plan_better.
PlanBetter(lhs, rhs) ==
  /\ lhs.valid
  /\ \/ ~rhs.valid
     \/ lhs.class > rhs.class
     \/ /\ lhs.class = rhs.class
        /\ \E i \in DOMAIN Merits(lhs) :
             /\ Merits(lhs)[i] < Merits(rhs)[i]
             /\ \A j \in 1..(i - 1) : Merits(lhs)[j] = Merits(rhs)[j]

\* A situation q: sat, now, latency, last (epoch of the last burn, or none),
\* cooldown, pending (epochs of its queued burns), contacts (burn epochs an
\* upload can reach), records, and impulse(trigger, burn, scale, direction):
\* the miss distance and slot error after that burn, or Failed.
EarliestBurn(q) ==
  LET soonest == q.now + q.latency
  IN  IF q.last = {} THEN soonest
      ELSE LET rested == (CHOOSE l \in q.last : TRUE) + q.cooldown
           IN  IF rested > soonest THEN rested ELSE soonest

LatestBurn(q, trigger) ==
  LET a == EarliestBurn(q) + Horizon
      b == trigger.tca - MinLead
  IN  IF a < b THEN a ELSE b

\* The records that may ask for a burn, the first TriggerLimit of them.
Triggers(q) ==
  LET all == Among(q.records, {r \in ToSet(q.records) :
               /\ r.sat = q.sat /\ r.severity = "CRITICAL" /\ ~r.failOpen
               /\ r.tca > EarliestBurn(q) + MinLead})
  IN  IF Len(all) <= TriggerLimit THEN all ELSE SubSeq(all, 1, TriggerLimit)

\* The instants tried for a trigger: those with an upload window, and apart
\* from every burn already queued.
BurnEpochs(q, trigger) ==
  LET first == EarliestBurn(q)
      epoch(k) == first + ((LatestBurn(q, trigger) - first) * k) \div Parts
  IN  Among([k \in 1..(Parts + 1) |-> epoch(k - 1)],
            {e \in q.contacts : \A p \in q.pending :
               p - e >= q.cooldown \/ e - p >= q.cooldown})

Directions == {"tangential", "normal"}

\* The plan for one burn, if its outcome can be computed.
PlanFor(q, trigger, burn, scale, direction) ==
  LET after == q.impulse[trigger.deb][burn][scale][direction] IN
    IF after = Failed THEN NoPlan
    ELSE [valid |-> TRUE, trigger |-> trigger, burn |-> burn, dv |-> scale,
          direction |-> direction, miss |-> after.miss,
          slotError |-> after.slotError,
          normal |-> IF direction = "normal" THEN scale ELSE 0,
          lead |-> trigger.tca - burn,
          class |-> SafetyClass(after.miss, trigger.miss)]

\* Every plan the four loops visit, in their order.
Candidates(q) ==
  FlattenSeq([t \in DOMAIN Triggers(q) |->
    LET trigger == Triggers(q)[t]
        epochs == BurnEpochs(q, trigger)
    IN  FlattenSeq([e \in DOMAIN epochs |->
          FlattenSeq([s \in DOMAIN Scales |->
            <<PlanFor(q, trigger, epochs[e], Scales[s], "tangential"),
              PlanFor(q, trigger, epochs[e], Scales[s], "normal")>>])])])

\* The first of the best.
ColaPlan(q) ==
  FoldLeft(LAMBDA best, p : IF PlanBetter(p, best) THEN p ELSE best,
           NoPlan, Candidates(q))

-----------------------------------------------------------------------------
(* What the answers must be.                                               *)

Distances(d) == {d[i] : i \in DOMAIN d} \ {Failed}
ComesWithin(d, limit) == \E x \in Distances(d) : x < limit

\* At some sample the pair is at the collision distance, or cannot be followed.
Dangerous(d) == \E i \in DOMAIN d : d[i] = Failed \/ d[i] <= Critical

\* What a record says is true of its pair: the least distance and where it was
\* first met, over all the samples unless the scan stopped at a danger.
Describes(r, p) ==
  /\ r.sat = p.sat /\ r.deb = p.deb
  /\ r.severity = "CRITICAL" <=> Dangerous(p.d)
  /\ r.collision <=> ~r.failOpen /\ r.miss < Critical
  /\ r.failOpen => r.miss = 0 /\ Failed \in ToSet(p.d)
  /\ ~r.failOpen => r.miss = p.d[r.tca] /\ \A k \in 1..(r.tca - 1) : r.miss < p.d[k]
  /\ ~r.failOpen /\ ~r.collision => \A k \in DOMAIN p.d : r.miss <= p.d[k]

\* Which record matters more: collisions, then the pairs that cannot be
\* followed, then the nearer, then the sooner one.
Ranking(r) ==
  <<IF r.collision THEN 0 ELSE 1, IF r.failOpen THEN 0 ELSE 1,
    r.miss, r.tca, r.sat, r.deb>>
Outranks(a, b) ==
  \E i \in 1..6 : /\ Ranking(a)[i] < Ranking(b)[i]
                  /\ \A j \in 1..(i - 1) : Ranking(a)[j] = Ranking(b)[j]
Grade(r) == CASE r.severity = "CRITICAL" -> 1
              [] r.severity = "WARNING" -> 2
              [] r.severity = "WATCH" -> 3

\* The warnings count the dangerous pairs, listed or not. A pair that comes
\* within the screening range at any sample, or is dangerous, is listed once
\* with its own finding, no other pair is, and the list is in the order of
\* Outranks. Such a pair is left out only when the list is full and every record
\* in it outranks its finding; none of them is then of a lesser severity, and
\* all are collisions if the pair is.
ScanIsSound(pairs, out) ==
  LET listed(p) == {i \in DOMAIN out.records :
                      out.records[i].sat = p.sat /\ out.records[i].deb = p.deb}
      wanted(p) == ComesWithin(p.d, Screening) \/ Dangerous(p.d)
      records == ToSet(out.records)
  IN
  /\ out.warnings = Cardinality({i \in DOMAIN pairs : Dangerous(pairs[i].d)})
  /\ Len(out.records) <= KPredictive
  /\ \A i, j \in DOMAIN out.records :
       i < j => /\ Outranks(out.records[i], out.records[j])
                /\ Grade(out.records[i]) <= Grade(out.records[j])
  /\ \A r \in records : \E i \in DOMAIN pairs : Describes(r, pairs[i])
  /\ \A i \in DOMAIN pairs :
       LET p == pairs[i]
           f == Finding(p)
       IN
       /\ Describes(f, p)
       /\ Cardinality(listed(p)) <= 1
       /\ \A k \in listed(p) : wanted(p) /\ out.records[k] = f
       /\ wanted(p) /\ listed(p) = {} =>
            /\ Len(out.records) = KPredictive
            /\ \A r \in records :
                 /\ Outranks(r, f) /\ Grade(r) <= Grade(f)
                 /\ ComesWithin(p.d, Critical) /\ Failed \notin ToSet(p.d) =>
                      r.collision

\* The outcome of a choice of trigger, epoch, size and direction.
OutcomeOf(q, c) == q.impulse[c.trigger.deb][c.burn][c.dv][c.direction]

\* The burn answers a critical conjunction of its satellite, in time, rested,
\* and within reach of an upload; it reaches the target distance if any such
\* burn can and is then the cheapest that does; failing that, the same for the
\* collision distance; failing that, it gets the greatest distance. There is
\* no plan only when no such burn can be computed.
PlanIsBest(q, plan) ==
  LET choices == {c \in [trigger : ToSet(Triggers(q)), burn : q.contacts,
                         dv : ToSet(Scales), direction : Directions] :
                    c.burn \in ToSet(BurnEpochs(q, c.trigger))
                    /\ OutcomeOf(q, c) # Failed}
      chosen == [trigger |-> plan.trigger, burn |-> plan.burn, dv |-> plan.dv,
                 direction |-> plan.direction]
      missOf(c) == OutcomeOf(q, c).miss
      atTarget == {c \in choices : missOf(c) >= Target
                                   /\ missOf(c) >= c.trigger.miss + Improvement}
      clear == {c \in choices : missOf(c) > Critical}
      cheapest(S) == \A c \in S : plan.dv <= c.dv
  IN
  IF choices = {} THEN ~plan.valid
  ELSE
  /\ plan.valid
  /\ chosen \in choices
  /\ plan.trigger.severity = "CRITICAL" /\ ~plan.trigger.failOpen
  /\ plan.trigger.sat = q.sat
  /\ plan.burn >= q.now + q.latency
  /\ \A l \in q.last : plan.burn - l >= q.cooldown
  /\ plan.trigger.tca - plan.burn >= MinLead
  /\ IF atTarget # {}
     THEN /\ chosen \in atTarget
          /\ cheapest(atTarget)
     ELSE IF clear # {} THEN plan.miss > Critical /\ cheapest(clear)
     ELSE \A c \in choices : missOf(c) <= plan.miss
=============================================================================
