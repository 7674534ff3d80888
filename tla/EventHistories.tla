--------------------------- MODULE EventHistories ---------------------------
(***************************************************************************)
(* What a simulation step leaves behind for the GET endpoints: the         *)
(* executed and dropped burns, the counterfactual snapshots, the figures   *)
(* per satellite, the predicted and past conjunctions, the tick counter,   *)
(* and the views published from them.                                      *)
(*                                                                         *)
(* Executed burns are not reported by the executor: they are inferred by   *)
(* comparing the ids in the burn queue before and after it. Ids of planned *)
(* burns carry the tick; ids of orders are whatever the operator sent.     *)
(*                                                                         *)
(* Which burns are due, dropped or planned is nondeterministic here        *)
(* (BurnOps says when); a delta-v is the fuel it costs. A due burn was     *)
(* uploaded (BurnOps: DueBurnsAreUploaded), so the executor drops none.    *)
(***************************************************************************)
EXTENDS Integers, FiniteSets, SequencesExt, SequenceFilter

CONSTANTS
  Sats,         \* satellites
  OrderIds,     \* burn ids operators send
  FullTank,     \* SAT_INITIAL_FUEL_KG
  Eol,          \* SAT_FUEL_EOL_KG
  Cost,         \* Cost[k]: propellant of a burn of kind k
  KExecuted,    \* kMaxExecutedBurnHistory
  KDropped,     \* kMaxDroppedBurnHistory
  KSnapshots,   \* kMaxBurnCounterfactualSnapshots
  KEvents,      \* kMaxConjunctionHistory
  MaxTicks,     \* bound: simulation steps
  MaxBurns      \* bound: burns ever queued; a step plans at most one each in
                \* avoidance, station keeping and after executing

Kinds == {"manual", "evasion", "recovery", "graveyard"}

\* What the id of a planned burn begins with: its planner. Station keeping
\* (AUTO-STATIONKEEP) plans recovery burns.
Planners == {"evasion", "station", "recovery", "graveyard"}

\* A GET request that names no satellite.
All == "all satellites"

ASSUME HistoryAssumption ==
  /\ All \notin Sats /\ IsFiniteSet(Sats)
  /\ FullTank \in Nat /\ Eol \in Nat
  /\ Cost \in [Kinds -> Nat \ {0}]
  /\ KExecuted \in Nat \ {0} /\ KDropped \in Nat \ {0}
  /\ KSnapshots \in Nat /\ KSnapshots >= KExecuted
  /\ KEvents \in Nat \ {0}
  /\ MaxTicks \in Nat /\ MaxBurns \in Nat

VARIABLES
  worker,      \* "idle", "unlocked" (a step has released the engine lock) or
               \* "publishing" (promise set, views not yet rebuilt)
  tick,        \* tick_count_
  queue,       \* burn_queue_
  fuel,        \* fuel_kg
  executed,    \* executed_burn_history_
  dropped,     \* dropped_burn_history_
  snapshots,   \* burn_counterfactual_history_
  stats,       \* per_sat_maneuver_stats_
  predicted,   \* predictive_conjunction_history_
  events,      \* conjunction_history_
  totals,      \* prop_stats_: last-tick and total counters
  view,        \* published_views_
  born,        \* history: every burn ever queued
  fired,       \* history: burns that really changed a velocity
  booked,      \* history: burns ever appended to executed
  crowded      \* history: satellites two burns of one step were booked for

state == <<queue, fuel, executed, dropped, snapshots, stats, predicted, events,
           totals>>
history == <<born, fired, booked, crowded>>
vars == <<worker, tick, state, view, history>>

\* A burn: n makes it unique here, the program only has its id.
NewBurn(n, id, s, kind) == [n |-> n, id |-> id, sat |-> s, kind |-> kind]

\* scheduled_from_predictive_cdm: exactly the collision avoidance burns.
Predictive(b) == b.kind = "evasion"

\* is_avoidance_burn: an operator's burn counts as avoidance.
Avoidance(b) == b.kind \notin {"recovery", "graveyard"}

\* Mutant: pop_front one element too late.
KeptOneMore(s, k) ==
  IF Len(s) <= k + 1 THEN s ELSE SubSeq(s, Len(s) - k + 1, Len(s))

\* A deque: push_back, then pop_front while there are more than k.
Kept(s, k) == IF Len(s) <= k THEN s ELSE SubSeq(s, Len(s) - k + 1, Len(s))

Ids(burns) == {burns[i].id : i \in DOMAIN burns}

-----------------------------------------------------------------------------
(* The GET endpoints.                                                      *)

\* build_burns_json: the sections, and the summary, whose first three figures
\* count the (bounded) sections and whose others add up the satellites.
BurnsView ==
  [executed |-> executed, dropped |-> dropped, pending |-> queue,
   stats |-> stats,
   burnsExecuted |-> Len(executed),
   fuelConsumed |-> SumFunction([s \in Sats |-> stats[s].fuel]),
   collisionsAvoided |-> SumFunction([s \in Sats |-> stats[s].saved])]

\* build_propagation_json: the counters of the last tick and the running sums.
PropagationView == [lastTick |-> totals.last, totals |-> totals.all]

\* build_snapshot, of what is modelled: the fuel of every satellite.
SnapshotView == [s \in Sats |-> fuel[s]]

\* What publish_read_views builds, under one shared lock.
Views == [snapshot |-> SnapshotView, propagation |-> PropagationView,
          burns |-> BurnsView, predicted |-> predicted]

\* status_json: live, under a shared lock of its own.
Status ==
  [tick |-> tick, pending |-> Len(queue), predicted |-> Len(predicted),
   met |-> Len(events), dropped |-> Len(dropped), totals |-> totals.all]

OfSat(records, s) == Among(records, {c \in ToSet(records) : s = All \/ c.sat = s})

\* Mutant: predictions are always read from the view.
ConjunctionsViewOnly(source, s) ==
  CASE source \in {"predicted", "predictive"} -> OfSat(view.predicted, s)
    [] source = "combined" -> OfSat(predicted \o events, s)
    [] OTHER -> OfSat(events, s)

\* conjunctions_json: the unfiltered predictions come from the view, all else
\* from the live histories; any unknown source means the past events.
Conjunctions(source, s) ==
  CASE source \in {"predicted", "predictive"} /\ s = All -> view.predicted
    [] source \in {"predicted", "predictive"} /\ s # All -> OfSat(predicted, s)
    [] source = "combined" -> OfSat(predicted \o events, s)
    [] OTHER -> OfSat(events, s)

\* The first record with an id, as find_if returns it: none or one.
FirstWith(records, id) ==
  {i \in DOMAIN records :
     records[i].id = id /\ \A j \in 1..(i - 1) : records[j].id # id}

\* burn_counterfactual_json: the status; 200 compares the first snapshot.
CounterfactualStatus(id) ==
  IF FirstWith(executed, id) = {} THEN "404 burn_not_found"
  ELSE IF \A i \in FirstWith(executed, id) : ~Predictive(executed[i])
  THEN "409 burn_not_eligible"
  ELSE IF FirstWith(snapshots, id) = {} THEN "500 burn_snapshot_missing"
  ELSE IF \A i \in FirstWith(snapshots, id) : snapshots[i].late
  THEN "409 encounter_window_elapsed"
  ELSE "200"

-----------------------------------------------------------------------------
Counters == {"planned", "executed", "missed", "followed"}
NoStats == [burns |-> 0, fuel |-> 0, saved |-> 0, avoidance |-> 0,
            avoidanceFuel |-> 0, recovery |-> 0, graveyard |-> 0]

Init ==
  /\ worker = "idle"
  /\ tick = 0
  /\ queue = << >>
  /\ fuel = [s \in Sats |-> FullTank]
  /\ executed = << >>
  /\ dropped = << >>
  /\ snapshots = << >>
  /\ stats = [s \in Sats |-> NoStats]
  /\ predicted = << >>
  /\ events = << >>
  /\ totals = [last |-> [c \in Counters |-> 0], all |-> [c \in Counters |-> 0]]
  /\ view = Views
  /\ born = {}
  /\ fired = {}
  /\ booked = {}
  /\ crowded = {}

\* Every planner, and the operator, leaves at least the EOL fuel, going by what
\* is in the tank now.
Affordable(s, kind) == fuel[s] - Cost[kind] > Eol

\* An accepted POST /api/maneuver/schedule; the ids are not looked at.
Schedule(s, id) ==
  /\ worker = "idle"
  /\ Affordable(s, "manual")
  /\ Cardinality(born) < MaxBurns
  /\ LET b == NewBurn(Cardinality(born) + 1, id, s, "manual") IN
       /\ queue' = Append(queue, b)
       /\ born' = born \cup {b}
  /\ worker' = "publishing"
  /\ UNCHANGED <<tick, fuel, executed, dropped, snapshots, stats, predicted,
                 events, totals, view, fired, booked, crowded>>

-----------------------------------------------------------------------------
(* A simulation step, all of it under the engine lock.                     *)

\* execute_due_maneuvers: a burn that is not due stays, one the tank cannot
\* feed vanishes, the others are captured.
Execute(run, b, due) ==
  IF b.n \notin due THEN [run EXCEPT !.kept = Append(@, b)]
  ELSE IF Cost[b.kind] > run.fuel[b.sat] THEN run
  ELSE [run EXCEPT !.fuel[b.sat] = @ - Cost[b.kind], !.fired = Append(@, b)]

Executor(burns, due) ==
  FoldLeft(LAMBDA run, b : Execute(run, b, due),
           [fuel |-> fuel, kept |-> << >>, fired |-> << >>], burns)

\* Mutant: the queue is compared by satellite.
InferredBySatellite(before, run) ==
  IF run.fired = << >> THEN << >>
  ELSE Among(before, {b \in ToSet(before) :
                        \A i \in DOMAIN run.kept : run.kept[i].sat # b.sat})

\* Which burns are taken for executed: all that left the queue, if any burn
\* was executed at all.
Inferred(before, run) ==
  IF run.fired = << >> THEN << >>
  ELSE Among(before, {b \in ToSet(before) : b.id \notin Ids(run.kept)})

\* The record of a burn: its fuel figures are those of its satellite before
\* and after the whole step. outcome is what evaluate_predictive_mitigation
\* and the comparison of TCA and execution make of a predictive burn.
Record(b, run, outcome) ==
  [n |-> b.n, id |-> b.id, sat |-> b.sat, kind |-> b.kind,
   before |-> fuel[b.sat], after |-> run.fuel[b.sat],
   saved |-> Predictive(b) /\ outcome = "saved"]

\* Mutant: the capture is looked up by satellite.
SnapshotsBySatellite(records, run, outcome) ==
  LET taken == Among(records, {r \in ToSet(records) :
                 Predictive(r) /\ \E b \in ToSet(run.fired) : b.sat = r.sat})
  IN  [i \in DOMAIN taken |->
         [id |-> taken[i].id, sat |-> taken[i].sat, n |-> taken[i].n,
          spent |-> taken[i].before - taken[i].after,
          shot |-> {b.n : b \in {c \in ToSet(run.fired) :
                                   c.sat = taken[i].sat}},
          late |-> outcome = "late"]]

\* The snapshots taken along: one for each predictive record whose id was
\* captured; the state vectors are those of the first such capture.
SnapshotsOf(records, run, outcome) ==
  LET taken == Among(records, {r \in ToSet(records) :
                 Predictive(r) /\ r.id \in Ids(run.fired)})
  IN  [i \in DOMAIN taken |->
         [id |-> taken[i].id, sat |-> taken[i].sat, n |-> taken[i].n,
          spent |-> taken[i].before - taken[i].after,
          shot |-> {run.fired[j].n : j \in FirstWith(run.fired, taken[i].id)},
          late |-> outcome = "late"]]

Flag(p) == IF p THEN 1 ELSE 0

\* The figures of a satellite after one more burn, with burn_fuel_consumed_kg.
WithBurn(figures, r) ==
  [figures EXCEPT
     !.burns = @ + 1, !.fuel = @ + r.before - r.after,
     !.saved = @ + Flag(Avoidance(r) /\ r.saved),
     !.avoidance = @ + Flag(Avoidance(r)),
     !.avoidanceFuel = @ + (r.before - r.after) * Flag(Avoidance(r)),
     !.recovery = @ + Flag(r.kind = "recovery"),
     !.graveyard = @ + Flag(r.kind = "graveyard")]

\* Mutant: a record is charged what is missing from a full tank.
ChargeFromFull(st, r) ==
  [st EXCEPT ![r.sat] = [WithBurn(@, r) EXCEPT !.fuel = st[r.sat].fuel + FullTank - r.after]]

Charge(st, r) == [st EXCEPT ![r.sat] = WithBurn(@, r)]

\* prop_stats_: every counter of the tick, and its running sum.
Counted(tickCounters) ==
  [last |-> tickCounters,
   all |-> [c \in Counters |-> totals.all[c] + tickCounters[c]]]

\* The tick this step will be, before tick_count_ says so.
TickId == tick + 1

\* What a planner may plan here: nothing, or the n-th burn for one of sats,
\* unless that is beyond MaxBurns. The id is unique within the tick.
Plans(n, planner, kind, sats) ==
  {<< >>} \cup
  {<<NewBurn(n, <<planner, TickId, 0>>, s, kind)>> : s \in {t \in sats : n <= MaxBurns}}

\* has_any_pending_burn is false.
Free(burns) == {s \in Sats : \A i \in DOMAIN burns : burns[i].sat # s}

\* plan_collision_avoidance_burns: a burn against one of threats.
Evasions(n, threats) ==
  Plans(n, "evasion", "evasion", {s \in ToSet(threats) : Affordable(s, "evasion")})

\* validate_pending_upload_windows: the queue without the burns it drops.
Validated(evasion, lost) ==
  Among(queue \o evasion, {b \in ToSet(queue \o evasion) : b.n \notin lost})

\* enforce_stationkeeping_recovery: a burn a cooldown away for a satellite
\* outside its slot box with none pending.
Keepings(n, burns) ==
  Plans(n, "station", "recovery", {s \in Free(burns) : Affordable(s, "recovery")})

\* plan_recovery_burns and plan_graveyard_burns, after the executor has left
\* run: a burn for a satellite with none pending, with a request (station
\* keeping opens one for any satellite) or at its end of life.
Follows(n, run) ==
  Plans(n, "recovery", "recovery",
        {s \in Free(run.kept) : run.fuel[s] - Cost["recovery"] > Eol})
  \cup Plans(n, "graveyard", "graveyard",
             {s \in Free(run.kept) :
                run.fuel[s] <= Eol /\ run.fuel[s] >= Cost["graveyard"]})

\* Everything between the executor's two ends. evasion is what collision
\* avoidance has queued, lost what upload validation has dropped, keep what
\* station keeping has queued.
Books(evasion, lost, keep, due, outcome) ==
  LET before == Validated(evasion, lost) \o keep
      run == Executor(before, due)
      left == Inferred(before, run)
      records == [i \in DOMAIN left |-> Record(left[i], run, outcome)]
      next == Cardinality(born) + Len(evasion) + Len(keep) + 1
  IN
  /\ fuel' = run.fuel
  /\ dropped' = Kept(dropped \o Among(queue, {b \in ToSet(queue) : b.n \in lost}),
                     KDropped)
  /\ snapshots' = Kept(snapshots \o SnapshotsOf(records, run, outcome),
                       KSnapshots)
  /\ executed' = Kept(executed \o records, KExecuted)
  /\ stats' = FoldLeft(Charge, stats, records)
  /\ fired' = fired \cup ToSet(run.fired)
  /\ booked' = booked \cup {r.n : r \in ToSet(records)}
  /\ crowded' = crowded \cup
       {s \in Sats : Cardinality({i \in DOMAIN records : records[i].sat = s}) > 1}
  /\ \E follow \in Follows(next, run) :
       /\ queue' = run.kept \o follow
       /\ born' = born \cup ToSet(evasion \o keep \o follow)
       /\ totals' = Counted([planned |-> Len(evasion) + Len(keep),
                             executed |-> Len(run.fired),
                             missed |-> Cardinality(lost),
                             followed |-> Len(follow)])

\* execute_simulate_step up to the release of the lock. Predictions are
\* replaced and past conjunctions appended; an evasion answers a prediction.
Step(threats, evasion, lost, keep, due, outcome, met) ==
  /\ worker = "idle"
  /\ tick < MaxTicks
  /\ predicted' = [i \in DOMAIN threats |-> [sat |-> threats[i], tick |-> 0]]
  /\ Books(evasion, lost, keep, due, outcome)
  /\ events' = Kept(events \o
                    [i \in DOMAIN met |-> [sat |-> met[i], tick |-> TickId]],
                    KEvents)
  /\ worker' = "unlocked"
  /\ UNCHANGED <<tick, view>>

\* ++tick_count_, and the promise.
CountTick ==
  /\ worker = "unlocked"
  /\ tick' = tick + 1
  /\ worker' = "publishing"
  /\ UNCHANGED <<state, view, history>>

Publish ==
  /\ worker = "publishing"
  /\ view' = Views
  /\ worker' = "idle"
  /\ UNCHANGED <<tick, state, history>>

\* Here a step predicts at most one conjunction, and also meets it.
AtMostOne == {<< >>} \cup {<<s>> : s \in Sats}
Pending == {queue[i].n : i \in DOMAIN queue}

\* Only a predictive burn has an outcome.
Outcomes(due) ==
  IF \E b \in ToSet(queue) : Predictive(b) /\ b.n \in due
  THEN {"saved", "missed", "late"} ELSE {"missed"}

Next ==
  \/ \E s \in Sats, id \in OrderIds : Schedule(s, id)
  \/ \E threats \in AtMostOne, lost \in SUBSET Pending :
     \E evasion \in Evasions(Cardinality(born) + 1, threats) :
     \E keep \in Keepings(Cardinality(born) + Len(evasion) + 1,
                          Validated(evasion, lost)) :
     \E due \in SUBSET (Pending \ lost) :
     \E outcome \in Outcomes(due) :
       Step(threats, evasion, lost, keep, due, outcome, threats)
  \/ CountTick
  \/ Publish

Spec == Init /\ [][Next]_vars

-----------------------------------------------------------------------------
(* Properties.                                                             *)

BurnIds == OrderIds \cup (Planners \X Nat \X {0})
Burn == [n : 1..MaxBurns, id : BurnIds, sat : Sats, kind : Kinds]

\* A record, a snapshot, a conjunction, the figures of a satellite.
Entry == [n : 1..MaxBurns, id : BurnIds, sat : Sats, kind : Kinds,
          before : 0..FullTank, after : 0..FullTank, saved : BOOLEAN]
Shot == [id : BurnIds, sat : Sats, n : 1..MaxBurns, spent : Int,
         shot : SUBSET (1..MaxBurns), late : BOOLEAN]
Meeting == [sat : Sats, tick : Nat]
Figures == [burns : Nat, fuel : Nat, saved : Nat, avoidance : Nat,
            avoidanceFuel : Nat, recovery : Nat, graveyard : Nat]

Tanks == [Sats -> 0..FullTank]
FigureTable == [Sats -> Figures]
CounterTable == [Counters -> Nat]

BurnsAnswer ==
  [executed : Seq(Entry), dropped : Seq(Burn), pending : Seq(Burn),
   stats : FigureTable, burnsExecuted : 0..KExecuted, fuelConsumed : Nat,
   collisionsAvoided : Nat]
Answers ==
  [snapshot : Tanks,
   propagation : [lastTick : CounterTable, totals : CounterTable],
   burns : BurnsAnswer, predicted : Seq(Meeting)]

\* Every variable has its type, and no history outgrows its limit.
TypeOK ==
  /\ worker \in {"idle", "unlocked", "publishing"}
  /\ tick \in 0..MaxTicks
  /\ queue \in Seq(Burn)
  /\ fuel \in Tanks
  /\ executed \in Seq(Entry) /\ Len(executed) <= KExecuted
  /\ dropped \in Seq(Burn) /\ Len(dropped) <= KDropped
  /\ snapshots \in Seq(Shot) /\ Len(snapshots) <= KSnapshots
  /\ stats \in FigureTable
  /\ predicted \in Seq(Meeting)
  /\ events \in Seq(Meeting) /\ Len(events) <= KEvents
  /\ totals \in [last : CounterTable, all : CounterTable]
  /\ view \in Answers
  /\ born \subseteq Burn
  /\ fired \subseteq born /\ booked \subseteq {b.n : b \in born}
  /\ crowded \subseteq Sats

\* No other burn was ever given the id of b.
OwnId(b) == \A c \in born : c.id = b.id => c = b

\* A burn that was executed is booked, in the step that executed it, unless
\* another burn has its id: comparing queues by id loses nothing else.
FiringsAreBooked ==
  \A b \in fired : b.n \in booked \/ ~OwnId(b)

\* What a satellite is charged in /api/debug/burns is what its tank lost, as
\* long as its burns have ids of their own and no step booked two of them;
\* never less even when one did (each is charged the whole step).
FuelIsAccounted ==
  \A s \in Sats : (\A b \in born : b.sat = s => OwnId(b)) =>
    /\ stats[s].fuel >= FullTank - fuel[s]
    /\ s \notin crowded => stats[s].fuel = FullTank - fuel[s]

\* The counterfactual of an executed evasion compares that very burn, and is
\* there for as long as the burn is listed, however the two histories are
\* truncated. It is missing only for a burn booked without being executed.
CounterfactualIsFaithful ==
  \A i \in DOMAIN executed :
    LET e == executed[i] IN
    (Predictive(e) /\ \E b \in born : b.n = e.n /\ OwnId(b)) =>
      IF \E b \in fired : b.n = e.n
      THEN /\ CounterfactualStatus(e.id) \in {"200", "409 encounter_window_elapsed"}
           /\ \A j \in FirstWith(snapshots, e.id) :
                snapshots[j].n = e.n /\ snapshots[j].shot = {e.n}
      ELSE CounterfactualStatus(e.id) = "500 burn_snapshot_missing"

\* Between commands every endpoint tells the same story, whether it reads the
\* published views or the live state; inside one, GET /api/status shows a tick
\* at most one behind the conjunctions it counts. Past conjunctions are in the
\* order of their ticks and the ids of planned burns are unique.
EndpointsAgree ==
  /\ worker = "idle" =>
       /\ view = Views
       /\ Status.pending = Len(view.burns.pending)
       /\ Status.dropped = Len(view.burns.dropped)
       /\ Status.predicted = Len(Conjunctions("predicted", All))
       /\ Status.totals = view.propagation.totals
  /\ \A c \in ToSet(Conjunctions("combined", All)) :
       c.tick <= Status.tick + Flag(worker = "unlocked")
  /\ \A s \in Sats : Conjunctions("predictive", s) = OfSat(predicted, s)
  /\ \A i, j \in DOMAIN events : i < j => events[i].tick <= events[j].tick
  /\ \A b, c \in born :
       b.id = c.id /\ b.kind # "manual" /\ c.kind # "manual" => b = c
=============================================================================
