# Verification of the constellation engine

TLA+ models, TLC configurations and machine-checked proofs for the C++ engine of
this repository (`src/`, `main.cpp`): a server that ingests telemetry of
satellites and debris, advances a simulation on request, predicts conjunctions
and plans, uploads and executes the maneuvers of a fleet. Paths below are
relative to the repository; `engine_runtime.cpp` and the other C++ files are in
its `src/` directory.

Run from this directory:

    tlc -workers 2 -config MCCommandQueue.cfg MCCommandQueue
    tlapm CommandQueue_proofs.tla      # and the other *_proofs modules, FoldTheorems

`PROJECT.json` lists the runs, the source lines of every definition (`map`), the
hazards the properties are aimed at, the mutants that show each property can
fail, the findings and the theorems.

## 1. The system

### Components

| Component | Source | State | Operations |
|---|---|---|---|
| Runtime boundary | `engine_runtime.cpp` 2247-2573, `engine_runtime.hpp`, `main.cpp` | `command_queue_`, `stop_worker_`, promises and futures, queue counters, `published_views_` | `ingest_telemetry`, `schedule_maneuver`, `simulate_step` (push and wait), `worker_loop`, `publish_read_views`, destructor |
| Maneuver operations | `maneuver_common.cpp`, `maneuver_recovery_planner.cpp`, `engine_runtime.cpp` 704-1007, 2627-3306, 3322-3476 | `burn_queue_`, `last_burn_epoch_by_sat_`, `recovery_requests_by_sat_`, `graveyard_requested_by_sat_`, `graveyard_completed_by_sat_`; status and fuel in the store | operator schedule; per step: collision avoidance, upload revalidation, station keeping, execution, recovery, graveyard |
| Telemetry ingestion | `telemetry.cpp`, `engine_runtime.cpp` 2575-2625 | none of its own | parse a batch, refuse stale ones, upsert, open slot references and graveyard reservations |
| State store | `state_store.cpp` | objects by id with type, state vector and epoch, cached elements, status, fuel; ring of type conflicts | `upsert`, `find`, `record_type_conflict`, `conflict_history_snapshot` |
| Simulation clock | `sim_clock.cpp` | epoch, initialised or not | set by the first telemetry, advanced by a step |
| Broad phase | `broad_phase.cpp` | none between calls | candidates of a step from shells, semi-major-axis bins, fail-open lists, an inclination filter and the D-criterion |
| Conjunction sweep (narrow phase) | `simulation_engine.cpp` | atomic refinement budget, per-thread statistics, collision marks (a static buffer) | a parallel loop over pairs: linear TCA, gates, micro and full refinement, merge |
| Predictive scan and histories | `engine_runtime.cpp` 100-190, 480-1133, 2958-3292 | conjunction, executed, dropped and snapshot deques with limits, figures per satellite, step counters | filled by a step, read by GET endpoints |
| Published views, GET endpoints | `engine_runtime.cpp` 190-480, 3507-4195 | the published strings; recorded track points per satellite | status, snapshot, burns, conjunctions, counterfactual, trajectory |
| HTTP server | `http/api_server.cpp`, `http/request_parsers.cpp`, `engine_runtime.cpp` 30-100, `json_util.hpp` | settings of the environment | validate a body, submit, answer, CORS |
| Orbit mathematics | `orbit_math.cpp`, `propagator.cpp`, `earth_frame.cpp` | none | floating-point numerics |
| Frontend, tuner, tools, scripts | `frontend/`, `tuner/`, `tools/`, `scripts/` | polling state; offline results | display, parameter search, benchmarks, gates |

### How they interact

An HTTP thread parses a POST, pushes a command on the queue under
`command_queue_mutex_` and waits on a future, 15 seconds at most. One worker
pops commands and executes each under `mutex_`. A `simulate_step` propagates every
object, runs the broad phase and the parallel sweep, scans 24 hours ahead, and
then runs the maneuver passes over the burn queue. After the command the worker
sets the promise, and only then republishes the views the GET handlers read
without any lock on the engine. The parallel loop inside the step is the only
concurrency under the engine lock.

### What is hard here, and the properties that make it right

* *Boundary.* Callers time out and their commands still run; `notify_one` is
  called after the unlock; the worker stops with commands queued; a command may
  throw; answers precede publication. Right means: no command lost, duplicated
  or reordered, truthful replies, views at most one command behind, counters
  that agree whenever the queue's mutex is free and stay within bounds for a
  reader without it, no lost wakeup, a shutdown that drains.
* *Maneuvers.* Five places push burns, each with its own cooldown test; upload
  windows are planned again at every step; due burns execute in queue order;
  flags are set from projected fuel and read as facts. Right means: the queue
  keeps the cooldown and the upload windows whatever the interleaving of
  operator and planners, graveyard transfers are alone, retirement is final.
* *Sweep.* Threads claim budget units with a compare-and-swap; whoever gets none
  must fail open; the report is merged from threads and a static buffer.
* *Broad phase.* An index over bins must lose no pair an all-pairs test would
  find; that depends on an arithmetic side condition on margins and bins.
* *Histories.* Executed burns are inferred by comparing burn ids in two snapshots
  of the queue, and operators choose their ids; two lists with limits of their own
  must agree; some answers are published, others live. Right means: what an
  endpoint says of a burn is what the step did with it.
* *Scan, avoidance, trajectories, requests.* Stateless, but with many cases: a
  list is sorted and cut at every insertion, plans are compared by eight figures,
  samples must not be drawn across a burn, a sequence must be refused as a whole.
  Right means: agreement with a reference that says what, not how.
* *Store.* A ring wraps; three writers change a state vector or the elements
  cached from it, and the next step may compute the vector from the elements
  alone; telemetry may be ahead of the clock and propagation may fail. Right means:
  an object is on the orbit it was last put on, at the time the store gives.

`PROJECT.json` has each hazard at its line.

## 2. The modules

| Module | Models | Role |
|---|---|---|
| `CommandService` | what the boundary promises | abstract specification |
| `CommandQueue` | the boundary: handlers, queue, worker, futures, destructor | detailed specification, implements `CommandService` |
| `BurnOps` | the burn queue and its six passes | detailed specification of what a command does |
| `EventHistories` | histories, figures, counters, views and the endpoints that read them | what a step leaves behind |
| `ObjectStore` | store, clock, ingestion, propagation bookkeeping | component |
| `ConjunctionSweep` | the parallel narrow phase | component |
| `BroadPhase` | the candidate index | algorithm against its all-pairs reference |
| `TrackView` | the trajectory endpoint | operators and their requirement |
| `ConjunctionScan` | the 24-hour scan, the avoidance plan | operators and their requirement |
| `HttpApi` | settings, body validation, replies, CORS | operators and their requirement |
| `Algorithms` | one question put to the three modules above | the behaviour TLC runs over them |
| `SequenceFilter` | what a loop that skips elements leaves of a sequence (`Among`) | operator of the modules above |
| `FoldTheorems` | | lemmas about folds, section 5 |
| `CommandQueue_proofs`, `BurnOps_proofs`, `ObjectStore_proofs`, `ConjunctionSweep_proofs`, `BroadPhase_proofs`, `EventHistories_proofs`, `Algorithms_proofs` | | the theorems of section 5 |
| `MC*` | | instances for TLC |

The boundary serialises commands, so `BurnOps`, `ObjectStore` and
`ConjunctionSweep` each describe what happens inside one command, without other
commands in between: `CommandQueue!Take` to `Settle` is the interval in which
their non-idle phases run, and the refinement to `CommandService` is the reason
why they may be read in isolation. `BroadPhase` produces the pairs that
`ConjunctionSweep!BeginSweep` takes as an arbitrary sorted subset
(`Candidates`). `ObjectStore`'s `elems` are what the broad phase files by.
`EventHistories` takes over where `BurnOps` stops: its `Step` lets any
queued burns be dropped or due, whatever `BurnOps` would say about their times,
though it plans fewer burns at once (at most one evasion, one station-keeping
burn and one burn after the executor), and
it uses one fact proved there: a due burn was uploaded (`DueBurnsAreUploaded`), so
the executor drops none. That its steps cover those of `BurnOps` is not checked
(section 7, item 2). The records of
`ConjunctionScan!CdmScan` are what its avoidance plan reads, and what
`EventHistories` calls predictions. A reply of `HttpApi` takes the fate of its
command from the replies of `CommandQueue`.

### CommandQueue

The state is the members of `EngineRuntime`: `queue`, `stopWorker`, `metrics`,
`view`, and per request the place of its handler thread (`call`), the promise
and the reply. A handler is `RefuseStopped`, `RefuseBusy` or `Enqueue`, which
pushes and keeps `command_queue_mutex_` while `StoreDepth`, `RaiseMax` and
`CountEnqueued` store its three counters, each an atomic of its own; then `Notify`
(outside the lock), then `Collect` or `TimeOut`. The worker is `Sleep`, `Take`
(under the lock until `ObserveDepth`), `Execute` or `ExecuteThrows`, `Settle`
(`set_value`/`set_exception`), `Publish`, `Count`, and `Exit`. Critical sections
exclude each other (`Unlocked`); what needs no lock goes on between their steps. The engine is abstracted to the sequence of commands whose effect it
contains. `ExecuteThrows` may leave part of an effect, which counts as an effect.
Spurious wakeups are an action of their own.

`CountersBalance` says two things. While the mutex is free the counters agree
with the queue. A `status_json` does not take the mutex: it may load the counters
in the middle of a push or a pop (`engine_runtime.cpp` 3563-3568 against 2410-2411
and 2503), and then agreement is *not* promised, only bounds: the depth exceeds
its maximum and the enqueued count by at most one, the backlog is no larger
than queue and worker can hold, the engine state holds no effect of a command that
is not counted. These are bounds of one state, and a reply joins loads of
several. A bound `a <= b + k` still holds in the reply if `a` is loaded before `b` and
`b` never falls; `status_json` loads depth, maximum, enqueued and completed in this
order, and the last three never fall (`CountersOnlyGrow`, section 5). Nothing is
claimed in the other direction: more completed than enqueued is possible in a reply.
The model's loads and stores are sequentially
consistent; the code's are relaxed, and what a relaxed reader may see in another
order is outside of the model.

`CommandService` has no queue object, worker or lock: commands are accepted,
applied in order or skipped, answered after the effect, abandoned without one
word about it. The mapping prepends the command being executed to the backlog.

### BurnOps

One simulation step is a sequence of passes in the order of
`execute_simulate_step` (`phase`), one action per iteration (`sat`, `todo`).
During a loop over the burn queue `pending` is what the loop has retained so far,
as in the code, which swaps the vector at the end.

Abstractions. A delta-v is the propellant it costs, from `Costs`, and the cost
does not depend on the mass. What orbits decide is a choice: a critical
conjunction, the plan the search returns, being outside the slot box, a null
correction, what is left of a recovery request. Visibility of ground
stations is a constant timetable. Epochs are integers, so `EPS_NUM` vanishes.
Recovery requests are visited in store order; the code visits an unordered map,
but a visit touches only its own satellite, so the order does not matter.
The sequence an operator submits has one or two burns.

`owed` remembers which satellites an executed evasion moved off their slot until
something settles it, `newest` the latest epoch a satellite burned at; nothing
in the model reads them but the properties.

### EventHistories

One step is `Step` (all that happens under the engine lock), `CountTick`
(`++tick_count_`, after the lock is released, and the promise) and `Publish`.
The executor is translated as a fold over the queue (`Executor`), and the
inference of executed burns as the code does it (`Inferred`, by id). A
burn has a number `n` of its own, which the program has not, and the id the
program sees: planned burns have kind and tick in it, orders any id an
operator sends. `Record`, `Charge`, `SnapshotsOf`, `Counted` and `Kept` are the
bookkeeping; `BurnsView`, `PropagationView`, `Conjunctions`, `Status` and
`CounterfactualStatus` are the endpoints. A step plans in three places, in the
order of the code: an evasion (`Evasions`), then, after upload validation
(`Validated`), a station-keeping burn (`Keepings`), and after the executor a
recovery or a graveyard burn (`Follows`). The planned counter of the step counts the
first two, as the code adds them up (3144, 3223); ids carry planner and tick.

Abstractions: which burns are due, dropped or planned is a choice within what
the planners check (fuel, a pending burn). A step predicts and
meets at most one conjunction and plans at most one burn in each of the three
places; a burn station keeping has just planned is never due in the same step, as it
lies a cooldown ahead; the outcome of a mitigation is a choice of three.

### ObjectStore

A state vector is a point of an orbit: the number of the orbit, and the time at
which the object is there. Telemetry (`Upsert`) and impulses (`ApplyBurn`) put an
object on a new orbit. Cached elements are the point they were computed from, and
are written only where the code writes them; nothing in the model marks them as
old. A step (`Propagate`) computes the next vector from the old one (RK4) or from the
cached elements (fast path), whichever these are, so an update that forgot the
elements would be undone by the next step, and `StateIsNewest` would say so. The
history `orbits` numbers the orbits of each object.

A batch is applied entry by entry
(`IngestObject`), after `BeginBatch` has refused stale telemetry, and before
`EndBatch` opens slot references. `Propagate` is the bookkeeping of a step: any
set of objects may fail, unless they have valid elements and telemetry at or ahead of the
step; those are left alone. `ring` has the cells, head and size of the code.

Two assumptions. Elements and vectors determine each other: true out of the plane of the
equator, where `eci_to_elements` (`orbit_math.cpp` 79-97) leaves node and argument
of perigee at zero. And a fast path that fails does so before its first substep: after
a later one `propagate_adaptive` hands the partly moved vector to RK4, for the
whole interval (`propagator.cpp` 150-158).

### ConjunctionSweep

A thread takes a chunk (`TakeChunk`), screens a pair (`ScreenPair`: linear miss
distance, uncertainty promotion, the two gates, micro refinement), and, if the
pair needs a full refinement, claims budget by `LoadBudget`, `SwapBudget`,
`SwapFails`; it refines (`RefineFully`) or is refused (`RefusePair`), and judges
(`JudgePair`). `Merge` is the barrier and the merge. Distances are numbers
0 to 5 around the thresholds; 0 is a collision. Gates and refinements are
choices. A `compare_exchange_weak` that fails spuriously reloads the value it
has, so it is a stuttering step.

### BroadPhase

Radii are integers, and bins are computed on `rp + ra` so that no rounding is
introduced; the eccentricity limit is a percentage. Lists are sets: every debris
object is in one bin or in the fail-open list. The D-criterion and the
inclination of the orbits are inputs (a choice, a bin number). One action per
satellite of the loop.

### TrackView, ConjunctionScan, HttpApi, Algorithms

These are computations without state; `Algorithms` asks a question (`Ask...`,
all of a bounded set, in `Init`) and has one action per computation, which
answers it. Each module ends with the requirement an answer has to meet
(`TrajectoryIsFaithful`, `ScanIsSound`, `PlanIsBest`, `ReplyIsTruthful`), which is
stated without the operators that compute the answer where there is another way
to say it: the plan must beat every candidate of every trigger in an order that
is written down as a list of merits, a reply must name a fault the body has. The scan must count every dangerous pair; a
record must be true of its pair (`Describes`), and the list be in the order
`Outranks` (collisions, then pairs that cannot be followed, then the nearer, the
sooner); a pair the scan has found may be missing only if the list is full and every
record in it outranks the missing one and is of no lesser severity (`Grade`).

`TrackView`: a sample of a trajectory is its epoch, the point it was computed from
and the method; positions are left out. `ConjunctionScan`: a pair is the sequence
of distances the propagation would find, or where it breaks off; a burn's effect
is a table. `HttpApi`: a body is described by what is wrong with it; an
environment variable by the form of its text.

## 3. What TLC checks

| Run | Question | Instance | Distinct states |
|---|---|---|---|
| `queue` | Is a command ever lost, duplicated, reordered, misreported or shown too late? Does the boundary implement the serial service, do callers return although the worker hangs, and if it does not, is every accepted command served and does stopping end? | 3 calls, queue of 2 | 93,095 |
| `burns` | Do the burn queue, the reservations, the retirement and the recoveries owed stay consistent? | 1 satellite, blackout at 5-9, 13 epochs | 411,653 |
| `burns_*` | Four statements of the repository, see Findings | blackout at 5-6, 11 epochs | (stops at the violation) |
| `sweep` | Is the budget spent exactly, is every near pair cleared on evidence, is the report whole, does the loop end? | 2 threads, up to 3 pairs, budget 1-2 | 354,277 |
| `sweep_order` | Does the sorted order decide which pairs exhaust the budget? | the same | (stops at the violation) |
| `store` | Does the ring show the newest conflicts, does no object lag the clock, is every object on the orbit it was last put on? | 2 objects, 2 sources, ring of 2 | 1,962,823 |
| `broad` | Does the index find exactly the pairs of the all-pairs test? | 2 satellites, 2 debris objects on 9 orbits | 439,296 |
| `histories` | Do the endpoints report of burns, fuel, conjunctions and counterfactuals what the steps did? | 2 satellites, 3 steps, 3 burns, an order with the id of a planned burn | 879,073 |
| `algorithms` | Do trajectories, the scan, the avoidance plan and the replies meet their requirements? | every question of bounded sets | 238,572 |

### Bounds, and why they are enough

* *Queue.* Three calls on a queue of two: two queued and one refused, or one in the
  worker's hands and two queued; with timeouts, throwing commands, spurious
  wakeups and a stop at any point. The safety properties are proved for any
  number of calls and any depth; liveness needs a bound (and no symmetry set,
  which is unsound there). Instead `ArrivalOrder` has the calls arrive in the order
  of their numbers. It loses nothing: calls differ only in their names, no fairness
  obliges one to be made, and each property treats them alike, so every behaviour
  is a renaming of one that arrives in order.
* *Burns.* A cooldown of 3, a latency of 1, steps of 1, 2 and 5: a step can cover
  no burn, one, or two that are a cooldown apart. The blackout from 5 to 9 is
  longer than the search for a recovery window (`Horizon`, from the earliest
  epoch of the request), so that a recovery that is due cannot be planned and
  has to be deferred; a scan step of 3 can step over contact. A tank of 5 with
  costs 1 and 3 reaches the fuel guard, the empty tank and the end of life. 13
  epochs hold the longest chain: evasion, blackout, recovery, graveyard. No pass
  relates two satellites: all tests and maps are by satellite id, and the proofs
  are for any fleet. The runs that look for a counterexample take the shorter
  blackout.
* *Sweep.* `schedule(dynamic, 256)` becomes chunks of 1: chunks only decide which
  thread has which pairs. A pair spends at most one unit, so three pairs on a
  budget of one or two meet success, failed swap, and refusal. One debris object
  and three satellites, because marks are per satellite. One gate is on, one off.
* *Histories.* Executed burns, snapshots and dropped burns keep one record and past
  conjunctions two, so each list loses its oldest in three steps; in particular a
  second evasion displaces the snapshot of the first, and a recovery displaces a
  record but no snapshot. Three burns can share a step, a satellite, or an id:
  operators send the id the planner will give to an evasion of the second step.
  Satellites are symmetric, and the run checks invariants only.
* *Algorithms.* A window of four with samples every second holds two recorded
  segments and two burns, on their ends, inside, and together; a recorded trail of
  three points is cut. Distances from 1 to 7 lie on both sides of each of the
  thresholds 2, 4 and 6 and on them; three and four pairs overflow a list of two.
  Three triggers for a limit of two, the last of which would be answered best, two
  sizes of burn and two directions make every comparison of plans decide. Each environment variable takes every form of text, one variable
  at a time because they do not meet; bodies have up to two burns with faults in
  either.
* *Store.* Three conflicts wrap a ring of two; epochs 1 to 3 let telemetry be
  ahead of the clock, equal to it and behind; three orbits of an object hold telemetry,
  an impulse and telemetry or an impulse again, with steps between them. `MaxConflicts`,
  `MaxOrbits` and `MaxEpoch` bound the guards of `BeginBatch`, `ApplyBurn` and
  `Propagate` only.
* *Broad phase.* The orbits lie 0 to 3 bins apart, have spans on both sides of the
  limit `Neighbors * BinWidth - 2 * ShellMargin`, one is eccentric but narrow, one
  invalid. The proofs remove the bound.

### Deadlock

`CHECK_DEADLOCK FALSE` stands where the system really stops: the calls of a run
are finite, `MaxEpoch` and `MaxTicks` end the simulation, the broad phase returns,
a question is answered once. The sweep and the store are checked for deadlock.

### Fairness

* `HandlerFairness`: a handler that pushed goes on to `notify_one`, and its
  `wait_for` ends with the future or with the time limit. Nobody is obliged to
  call. The `queue` run assumes this only (`HungWorkerSpec`): the worker may hang,
  and `EveryCallReturns` must hold all the same.
* `WorkerFairness`: the worker's and the destructor's threads are scheduled and
  every `execute_*` ends (its loops are over finite containers). It is the
  antecedent of `AcceptedIsServed` and `StopCompletes`, so one run checks both
  worlds. Weak fairness is enough: once a notify has made the worker ready, nobody
  else takes that away. A spurious wakeup is never required.
* `SweepFairness`: OpenMP threads of a running loop are scheduled. Nothing obliges
  a step to begin. The compare-and-swap loop needs no more than weak fairness
  because each failure is another thread's success and the budget only falls.

### Mutants

Each property of a passing run has a mutant of the code in `PROJECT.json`
(push to the front, notify forgotten, lock released before the command is counted, window not replaced,
latency forgotten, blind store for the swap, fail closed, ring head stuck,
elements kept through an impulse, margins forgotten, records cut before they are sorted, queues compared by
satellite, a deferred recovery erased, ...), and TLC refutes the property on the mutant.

## 4. Findings

Statements of the repository that the modelled code does not keep; the
counterexample of each run is the scenario.

1. `burns_cooldown`: `execute_due_maneuvers` walks the burns in queue order and
   overwrites the last burn epoch. If a step covers two burns queued in the other
   order, the entry ends at the earlier one, and a burn less than the cooldown
   after the later one is accepted.
2. `burns_uploaded`: a burn whose upload instant has passed is planned again from
   the present epoch, and dropped if the satellite has no contact before the burn,
   although it was uploaded before the blackout.
3. `burns_reserved`: a planner's fuel guard reserves a satellite because the
   *projected* fuel is too low; the graveyard planner asks for the *present* fuel.
   The satellite is then refused every order, and no transfer is planned.
4. `burns_recorded`: the executed history is the difference of two queue
   snapshots. A burn skipped for want of propellant is in it when another burn of
   the step executed.
5. `sweep_order`: sorting the candidates does not make the exhaustion of the
   budget deterministic, because chunks are handed out as threads become free.

One more loss is visible in the code and outside of the model's reach: an executed
recovery burn erases the whole recovery request (`maneuver_common.cpp` 888), with
what an evasion executed after that burn was planned has added to it.
`EvasionsAreOwed` therefore ends a debt when a recovery burn leaves the queue.

The properties that do hold are stated so as not to hide these:
`QueueKeepsCooldown` speaks of the queue and the remembered last burn, not of
executed burns, and `EolIsReserved` is the direction of reservation that holds.
`FiringsAreBooked` and `FuelIsAccounted` of `EventHistories` say for which burns
the inferred history is right: those whose id is their own, and, for the fuel of
single burns, satellites of which no step booked two.

## 5. What is proved

`tlapm` checks these for every value of the constants that satisfies the named
assumptions.

**CommandQueue_proofs**, from `QueueAssumption` (positive depth, a null request
that is no request). For any set of requests, finite or not:

| Theorem | Property | The inductive invariant it needs |
|---|---|---|
| `TypeCorrect` | `TypeOK` | itself |
| `BacklogCorrect` | `QueueIsBacklog` | with `AcceptedOnce`: an accepted call is not new, so it is not pushed again |
| `WakeupCorrect` | `NoLostWakeup` | itself, over `TypeOK` |
| `ShutdownCorrect` | `ShutdownDrains` | `ServiceInv`: all popped commands but the current one have kept promises; the worker exits on an empty queue |
| `CountersCorrect` | `CountersBalance` | `LockInv`: one handler holds the mutex, and exactly while it counts; `DepthInv` and `TotalsInv`: what each counter is short of, in each step of a push or a pop |
| `CountersOnlyGrow` | (not in a run) | none: `depthMax`, `enqueued` and `completed` never fall, which carries the bounds to a reader that loads one after the other |
| `ViewCorrect` | `ViewLagsByOne` | `ViewInv`: the view equals the engine outside of the interval between the effect and the publication |
| `OrderCorrect` | `AppliedInOrder` | `OrderInv`: effects stem from positions of the acceptance order that are already popped, so the next one comes after all others |
| `RepliesCorrect` | `RepliesAreTruthful` | `ReplyInv`: a kept promise with a value has its effect, a refused call was never accepted |
| `Refinement` | `ImplementsService` | all of the above; each action is one of `CommandService`, or a stutter |

The invariants are layered: each uses those before it as facts about both
states, so each step lemma looks only at the actions that touch its
variables (the `...Footprint` lemmas say which).

**BurnOps_proofs**, from `OpsAssumption`: any number of satellites, any timetable
of contacts, any tank and costs, any cooldown at least the latency, any bound
on the epochs.

| Theorem | Property | The inductive invariant it needs |
|---|---|---|
| `OpsTypeCorrect` | `TypeOK` | `TypeInv`, with `PastInv`: no remembered burn is after the clock |
| `CooldownCorrect` | `QueueKeepsCooldown` | `QueueInv`: the burns retained by a loop and those it has still to visit are spaced, within each and across (`Spaced`); each rests from the remembered last burn, unless the executor is about to take it (`RestInv`) |
| `UploadsCorrect` | `UploadsAreAhead` | `UploadInv`: phase by phase, which burns have their upload ahead of the clock, and which may be due instead |
| `DueCorrect` | `DueBurnsAreUploaded` | the same |
| `GraveyardCorrect` | `GraveyardIsAlone` | `GraveInv`: a queued transfer is alone for its satellite among all burns of a loop, and the satellite is reserved, which keeps the other planners away; a retired satellite has no burns and no request |
| `OfflineCorrect` | `OfflineIsFinal` | `GraveInv` |
| `EolCorrect` | `EolIsReserved` | `EolInv`: the graveyard pass has reserved every satellite at its end that it has visited, and nothing burns propellant between it and the next step |
| `OwedCorrect` | `EvasionsAreOwed` | `OwedInv`: inside a step a debt may also be remembered by a burn the loop has just dropped or passed over |

Two burns executed by one step may set the remembered last burn back (finding 1),
and still the queue keeps its spacing: the argument of `CooldownCorrect` is that
a burn left in the queue was spaced from both of them while they were queued.

**ObjectStore_proofs**, from `StoreAssumption`: `StoreTypeCorrect`,
`StateCorrect`, `EpochsCorrect`, `ConflictsCorrect`. `StateCorrect` (`StateIsNewest`) is
inductive over the type invariant with `BatchInv` (a batch being applied is a whole record):
each writer of a vector either replaces or invalidates the elements, and so the next
step may start from either (`MovedState`). Epochs need
`EpochInv`: a batch being applied is not older than the clock, and before the
first telemetry there is no object. The conflicts need `RingInv`
and `CountInv`: the cells from the head on hold the newest records in
order, and the head is 0 until the ring is full; the lemmas about the modulus say
which cell a new record overwrites.

**ConjunctionSweep_proofs**, from `SweepAssumption`: any number of threads, any
chunk size, any pairs. `BudgetCorrect` counts: `TypeInv`; `PlaceInv` ties the place
of a thread to its chunk and its local result; `ChunkInv` says that an iteration in
a chunk is not judged yet and chunks are disjoint, so that each judgement adds one
pair to exactly one of the sets the budget is compared with. `EvidenceCorrect` adds
`EvidenceInv`: what a thread holds between screening and judging is already
evident if it is going to be cleared. `SweepTypeCorrect` and `ReportCorrect` are
about the merge, a fold over the threads' statistics: its partial results are, for
each statistic, the sums and unions over the threads merged so far, and since the
sets the threads hold are disjoint (`ChunkInv`) the total counts every pair once.

**BroadPhase_proofs**, from `BroadPhaseAssumption` and `StoresAssumption`:
`BroadTypeCorrect`, `BroadPhaseIsExact`, `FunnelCorrect`. The core is
`NarrowOrbitsAreNear`: two orbits that do not fail open have spans of at most
`Neighbors * BinWidth - 2 * ShellMargin`, so if their widened shells overlap,
their semi-major axes differ by at most `Neighbors * BinWidth`, and by
`DivisionBound` their bins by at most `Neighbors`. Both margins are needed:
the mutant without them loses pairs. `LoopInv` ties the two lists and the
candidates to the satellites visited; `PairsAdd` counts.

`FunnelCorrect` (the counters of the funnel add up) is proved and not in a run.

**FoldTheorems** is what the next two modules stand on. The library's induction
theorems take an operator as a parameter, which no installed prover can
instantiate. Here a property of numbers is the *set* of the numbers that have it:
`LeastNatural` (a nonempty set of naturals has a least element, from the
well-foundedness of inclusion among finite sets) gives `UpTo` (a set with 0 that is
closed under +1 up to n holds 0..n). `FoldLeft` is, underneath, a recursive function on
sets of indices: `FoldTable` shows that such a function exists and `FoldRun` reads
off it the run of partial results, one for each prefix. A proof about a fold picks
the run and shows by `UpTo` what holds along it. `AmongProperties` and
`FlattenElements` do that once for filtering and for concatenating; `AmongSuffix` and
`AmongPrefix` say when a filter keeps an end or a beginning.

**EventHistories_proofs**, from the assumptions of `EventHistories` (`All` is no
satellite; the satellites are finitely many, as sums over them are shown; there is room for a snapshot per executed burn, `KSnapshots >=
KExecuted`, as the limits of the code have it): any satellites, burns, steps and
limits.

| Theorem | Property |
|---|---|
| `HistoriesTypeCorrect` | `TypeOK` |
| `FiringsBooked` | `FiringsAreBooked` |
| `FuelAccounted` | `FuelIsAccounted` |
| `CounterfactualFaithful` | `CounterfactualIsFaithful` |
| `EndpointsAgreement` | `EndpointsAgree` |

`TypeOK` gives every variable its type, the published view with its sums included (they
are numbers by `SumTable` and `SumIsNatural` of `FoldTheorems`).

They share the inductive invariant `IInv` (`HistoriesInvariant`): `StoreInv` (types),
`NumberInv` (numbers of burns are given once), `QueueInv` (what is queued and what
has left the queue are apart), `TickInv` (planned ids carry the tick of their
planning, so a later plan cannot repeat one), `RecordInv` (what a record or a
snapshot says of a burn is what happened to it), `ViewInv` (published views are of
the present state between commands), and the two properties about firings and fuel.
The executor, the inference of executed burns and the charging of fuel are folds
over the queue. Why a listed burn still has its snapshot although both lists are
cut: each entry has an *age*, the number of entries after it; every record's
snapshot is no older than the record, so with `KSnapshots >= KExecuted` it is cut
no earlier.

**Algorithms_proofs**, from `PairAssumption` (a candidate pair is listed once and its
present distance needs no propagation), `AvoidanceAssumption` (the types of records and
outcomes), `RequestAssumption` (no page has the origin `*`) and the assumptions
of the three modules, with `StepAssumption` (a step moves the clock forward: the
parser and the handler refuse others): any lists of pairs, distances, records,
contacts, burn sizes, recordings, bodies and environments.

| Theorem | Property | The argument |
|---|---|---|
| `RequestsAnswered` | `RequestsAreAnswered` | the first check that fails names a fault the body has, and the checks miss none (`EveryFaultIsNamed`, for sequences of any number of burns); a status in 200..299 is reached on one path only |
| `AvoidanceBurnBest` | `ColaPlanIsBest` | the four loops visit exactly the possible choices (`CandidatesElements`); along the fold the best so far is a candidate no worse, by class and first merit, than any before it (`ColaPlanChooses`) |
| `PredictiveScanSound` | `CdmScanIsSound` | along the fold (`SoFar`) the list is sorted, within its limit, holds findings of visited pairs only, and each screened finding is in it or outdone by a full list of better ones; `LessOutranks` carries this from the comparison of the code to `Outranks` and `Grade`; a sorted list with a record of another pair inserted can be sorted again, because `ConjunctionLess` is a strict total order of records of different pairs |
| `TrajectoriesFaithful` | `TrajectoriesAreFaithful` | recorded epochs ascend up to now (`TrailAfterIs`, along the fold of the steps), and filters keep an end of them (`AmongSuffix`); what fills a segment is a *chain* from its one point that the other is linked to, where a link spans two intervals only around a burn (`InsideFills`, one lemma per way to fill it); chains concatenate along the fold over the segments (`UpToPoint`), and a chain cut to the window is one |

The behaviours of `Algorithms` answer one question, so their invariant `IInv`
only carries the form of the question to the answer; the substance is in the
lemmas. Two definitions of the models were changed for these proofs, with the same
meaning: filters are `Among` (a fold) instead of `SelectSeq`, and sorting is the choice
of a sorted arrangement instead of `SortSeq`; both of the old operators are opaque to
the provers. One guard was wrong before: `HttpApi` had a CASE whose arms overlapped.

**Only model-checked:** the temporal properties `EveryCallReturns`,
`AcceptedIsServed`, `StopCompletes` and `SweepEnds`, because liveness under fairness
(and ENABLED) is out of the prover's reach. The counterexamples of the findings are
TLC's.

## 6. Not modelled

* Orbit mathematics and propagation (`orbit_math.cpp`, `propagator.cpp`,
  `earth_frame.cpp`): floating-point numerics without discrete state. Their outcomes are choices or
  tables in the models.
* JSON formatting and parsing and ISO-8601 texts: a verdict in `HttpApi`; malformed
  JSON is what the parser notices before it is asked for a field, and simdjson's
  later errors are faults of the field or burn they are met in.
* Latency percentiles and wall-clock timing of the propagation counters.
* The trajectory of a satellite without recorded points is its present state
  propagated backwards (`engine_runtime.cpp` 2053). It knows no burns, and
  `TrajectoryIsFaithful` asks nothing of its arcs.
* Amounts of recovery debt: a request is "some" or "none" with its earliest epoch.
* A burn due inside a step is applied to the state at the end of the step
  (`maneuver_common.cpp` 795): an error of the orbit, not of the bookkeeping.
* The frontend (it displays the views), the tuner, the tools and the scripts
  (offline programs around the engine).

Partly modelled: the clock (without ISO-8601 parsing), the GET endpoints (without
texts and percentiles), the HTTP server (without sockets and texts).

## 7. Plan

Done: the boundary with its refinement and proofs; `BurnOps`, `ObjectStore`,
`ConjunctionSweep` and `BroadPhase` with runs and proofs; the histories, the scan
and the avoidance plan, the trajectories and the requests with runs; proofs of all
their invariants.

Left, most important first.

1. Recovery ledger: a module over the owed delta-v (requests accumulate at
   execution, are reduced at planning, lost on drops, erased by any executed
   recovery burn), with an abstract ledger that says what may be lost.
2. An abstract `BurnLedger` (a burn is queued, then executed, dropped or skipped,
   once), refined by `BurnOps` and by `EventHistories`; that composes the two
   without the arbitrary choices of `EventHistories!Step`.
3. A serial sweep refined by `ConjunctionSweep` up to the choice of refused pairs.
4. Composition: the candidates of `BroadPhase` feeding `ConjunctionSweep`, and the
   collision marks of the sweep feeding `BurnOps!PlanCola`.
