----------------------------- MODULE TrackView ------------------------------
(***************************************************************************)
(* GET /api/visualization/trajectory: the last 90 minutes and the next 90  *)
(* minutes of a satellite. A step records one point per satellite; the     *)
(* answer fills the time between recorded points with samples, by Hermite  *)
(* interpolation where no burn lies between them, and by propagation from  *)
(* either side where one does.                                             *)
(*                                                                         *)
(* A sample is where it lies (at), how it was made (how), and the recorded *)
(* point it was computed from. Positions are left out: what counts is which *)
(* arc a sample belongs to.                                                *)
(***************************************************************************)
EXTENDS Integers, FiniteSets, SequencesExt, SequenceFilter

CONSTANTS
  Window,     \* kTrailWindowSeconds
  Interval,   \* kTrailSampleIntervalSeconds
  KTrack      \* kMaxTrackPointsPerSat

ASSUME TrackAssumption ==
  /\ Window \in Nat \ {0} /\ Interval \in Nat \ {0} /\ KTrack \in Nat \ {0}
  /\ Window % Interval = 0

Sample(at, how, from) == [at |-> at, how |-> how, from |-> from]
Epochs(samples) == {samples[i].at : i \in DOMAIN samples}

-----------------------------------------------------------------------------
(* The recorded trail.                                                     *)

Last90(trail, now) == Among(trail, {t \in ToSet(trail) : t >= now - Window})

\* execute_simulate_step at epoch now: old points are dropped, the new one is
\* pushed, and the oldest is dropped again if there are too many.
Recorded(trail, now) ==
  LET kept == Append(Last90(trail, now), now)
  IN  IF Len(kept) <= KTrack THEN kept ELSE Tail(kept)

\* The clock and the recorded points after a run of steps.
Recording(steps) ==
  FoldLeft(LAMBDA run, dt :
             [now |-> run.now + dt, trail |-> Recorded(run.trail, run.now + dt)],
           [now |-> 0, trail |-> << >>], steps)

ClockAfter(steps) == Recording(steps).now
TrailAfter(steps) == Recording(steps).trail

-----------------------------------------------------------------------------
(* The answer.                                                             *)

\* Mutant: a burn at the end of the segment belongs to the next one.
BurnsWithinOpen(burns, l, r) == {b \in burns : l < b /\ b < r}

\* executed_burn_epochs_in_segment.
BurnsWithin(burns, l, r) == {b \in burns : l < b /\ b <= r}

MinOf(S) == CHOOSE x \in S : \A y \in S : x <= y
MaxOf(S) == CHOOSE x \in S : \A y \in S : y <= x

\* Interpolated samples of a segment without a burn.
Between(l, r) ==
  [k \in 1..((r - l) \div Interval - 1) |->
     Sample(l + Interval * k, "interpolated", l)]

\* Samples propagated forward from l up to the first burn; a propagation that
\* fails ends them after some number of steps.
Forward(l, r, burns, steps) ==
  LET ks == {k \in 1..steps :
               l + Interval * k < MinOf(burns) /\ l + Interval * k < r}
  IN  [k \in 1..Cardinality(ks) |-> Sample(l + Interval * k, "forward", l)]

\* Samples propagated backward from r down to the last burn, oldest first.
Backward(l, r, burns, steps) ==
  LET ks == {k \in 1..steps :
               r - Interval * k > MaxOf(burns) /\ r - Interval * k > l}
      n == Cardinality(ks)
  IN  [k \in 1..n |-> Sample(r - Interval * (n - k + 1), "backward", r)]

\* The samples strictly inside the segment from l to r.
Inside(l, r, burns, steps) ==
  LET within == BurnsWithin(burns, l, r)
  IN  IF within # {}
      THEN Forward(l, r, within, steps) \o Backward(l, r, within, steps)
      ELSE IF r - l > Interval THEN Between(l, r) ELSE << >>

\* append_resampled_track_points: the recorded points with samples between.
Resampled(points, burns, from, steps) ==
  LET all == FoldLeft(
        LAMBDA out, i : out \o Inside(points[i - 1], points[i], burns, steps)
                            \o <<Sample(points[i], "recorded", points[i])>>,
        <<Sample(points[1], "recorded", points[1])>>,
        [i \in 1..(Len(points) - 1) |-> i + 1])
  IN  Among(all, {s \in ToSet(all) : s.at >= from})

Points(trail) == [i \in DOMAIN trail |-> Sample(trail[i], "recorded", trail[i])]

\* The state of now propagated back over the whole window, if that succeeds.
Exact(now, n) ==
  [k \in 1..(n + 1) |-> Sample(now - Interval * (n + 1 - k), "exact", now)]

PointCount == Window \div Interval

\* The recorded points in use: those of the window, after the newest older one.
Anchors(trail, now) ==
  LET old == Among(trail, {t \in ToSet(trail) : t < now - Window})
      new == Last90(trail, now)
  IN  IF old # << >> /\ new # << >> THEN <<Last(old)>> \o new ELSE new

\* build_trajectory_json: known says whether the store has the satellite, and
\* steps how many sample intervals its state can be propagated.
Trail(trail, burns, now, known, steps) ==
  LET points == Anchors(trail, now) IN
    IF Len(points) >= 2 /\ Last(points) = now
    THEN Resampled(points, burns, now - Window, steps)
    ELSE IF known /\ steps >= PointCount THEN Exact(now, PointCount)
    ELSE Points(Last90(trail, now))

\* Forward from the live state, as far as it can be propagated.
Predicted(now, known, steps) ==
  IF ~known THEN << >>
  ELSE [k \in 1..(IF steps < PointCount THEN steps + 1 ELSE PointCount + 1) |->
          Sample(now + Interval * (k - 1), "exact", now)]

Trajectory(trail, burns, now, known, steps) ==
  [trail |-> Trail(trail, burns, now, known, steps),
   predicted |-> Predicted(now, known, steps)]

-----------------------------------------------------------------------------
(* What an answer must be.                                                 *)

Chronological(samples) ==
  \A i \in 1..(Len(samples) - 1) : samples[i].at < samples[i + 1].at

\* No recorded burn lies between the point a sample was computed from and the
\* sample: an interpolated one has none on its segment either side.
OnItsArc(s, points, burns) ==
  CASE s.how = "forward" -> BurnsWithin(burns, s.from, s.at) = {}
    [] s.how = "backward" -> \A b \in burns : ~(s.at <= b /\ b <= s.from)
    [] s.how = "interpolated" ->
         \A b \in burns : s.from < b =>
           \E t \in ToSet(points) : s.at < t /\ t < b
    [] OTHER -> TRUE

\* Between two samples an interval apart twice or more lies a burn.
NoGap(samples, burns) ==
  \A i \in 1..(Len(samples) - 1) :
    samples[i + 1].at - samples[i].at >= 2 * Interval =>
      \E b \in burns : samples[i].at <= b /\ b <= samples[i + 1].at

\* The trail is chronological, stays in the window and keeps every recorded
\* point of it; no sample lies across a burn from the point it was computed
\* from, and none is missing where no burn is; the two halves meet at now.
\* (The trail propagated back from now alone knows no burns: see the README.)
TrajectoryIsFaithful(q, answer) ==
  LET trail == answer.trail
      predicted == answer.predicted
      points == Anchors(q.trail, q.now)
  IN
  /\ Chronological(trail) /\ Chronological(predicted)
  /\ Epochs(trail) \subseteq (q.now - Window)..q.now
  /\ Epochs(predicted) \subseteq q.now..(q.now + Window)
  /\ Len(points) >= 2 => ToSet(Last90(q.trail, q.now)) \subseteq Epochs(trail)
  /\ \A s \in ToSet(trail) : OnItsArc(s, points, q.burns)
  /\ Len(points) >= 2 => NoGap(trail, q.burns)
  /\ trail # << >> /\ predicted # << >> => Last(trail).at = Head(predicted).at
=============================================================================
