----------------------------- MODULE ObjectStore ----------------------------
(***************************************************************************)
(* The objects the engine knows (StateStore) and the clock (SimClock):     *)
(* what telemetry batches, the propagation of a step and executed burns    *)
(* write there. Every object has a type that never changes, a state vector *)
(* with the epoch it is valid at, and orbital elements cached from it;     *)
(* entries that contradict a type go to a ring buffer of conflicts.        *)
(*                                                                         *)
(* All of it happens on the command worker; an entry of a batch is one     *)
(* action, and nothing else runs between the entries.                      *)
(*                                                                         *)
(* A state vector is a point of an orbit: the orbit's number and the time  *)
(* the object is there. Telemetry and burns put an object on a new orbit,  *)
(* a propagation moves it along one; cached elements are those of the      *)
(* state vector they were computed from, and stay what they are when the   *)
(* vector is written.                                                      *)
(***************************************************************************)
EXTENDS Integers, FiniteSets, SequencesExt

CONSTANTS
  Objects,        \* object ids
  Sources,        \* source ids of the POST /api/telemetry calls
  RingCap,        \* CONFLICT_RING_CAP
  StepSizes,      \* step_seconds of the requests
  MaxBatch,       \* bound: entries of a batch
  MaxConflicts,   \* bound: no batch starts near this many conflicts
  MaxOrbits,      \* bound: orbits of one object
  MaxEpoch        \* bound: epochs of telemetry and steps

ASSUME StoreAssumption ==
  /\ RingCap \in Nat \ {0}
  /\ StepSizes \subseteq Nat \ {0}
  /\ MaxBatch \in Nat /\ MaxConflicts \in Nat
  /\ MaxOrbits \in Nat /\ MaxEpoch \in Nat

Types == {"SATELLITE", "DEBRIS"}
Entry == [id : Objects, type : Types]
Conflict == [id : Objects, source : Sources]
NoConflict == [id |-> "none", source |-> "none"]

Vector == [orbit : Nat, at : Nat]
Elements == [valid : BOOLEAN, orbit : Nat, at : Nat]
NoElements == [valid |-> FALSE, orbit |-> 0, at |-> 0]

\* eci_to_elements where it succeeds, and the way back, for orbits out of the
\* plane of the equator: of others the elements do not tell where the perigee is.
ElementsOf(v) == [valid |-> TRUE, orbit |-> v.orbit, at |-> v.at]
VectorOf(el) == [orbit |-> el.orbit, at |-> el.at]

VARIABLES
  clock,     \* clock_.epoch_s(); 0 while it is not initialized
  type,      \* type[o]; "unknown" before the first entry of o
  epoch,     \* telemetry_epoch_s
  vector,    \* position and velocity
  elems,     \* cached elements and elements_valid
  orbits,    \* history: how many orbits o has been put on
  slots,     \* ids in slot_reference_by_sat_
  failed,    \* objects the last step could not propagate (failed_last_tick)
  ring,      \* conflict_ring_, with its head and size
  total,     \* total_type_conflicts_
  bySource,  \* conflicts_by_source_
  batch,     \* the batch being applied; NoBatch outside the handler
  log        \* history: every conflict, oldest first

store == <<type, epoch, vector, elems, orbits>>
audit == <<ring, total, bySource, log>>
vars == <<clock, store, slots, failed, audit, batch>>

NoBatch == [epoch |-> 0, source |-> "none", entries |-> << >>, done |-> 0]

Init ==
  /\ clock = 0
  /\ type = [o \in Objects |-> "unknown"]
  /\ epoch = [o \in Objects |-> 0]
  /\ vector = [o \in Objects |-> [orbit |-> 0, at |-> 0]]
  /\ elems = [o \in Objects |-> NoElements]
  /\ orbits = [o \in Objects |-> 0]
  /\ slots = {}
  /\ failed = {}
  /\ ring = [cells |-> [k \in 0..(RingCap - 1) |-> NoConflict],
             head |-> 0, size |-> 0]
  /\ total = 0
  /\ bySource = [s \in Sources |-> 0]
  /\ batch = NoBatch
  /\ log = << >>

Known == {o \in Objects : type[o] # "unknown"}
Idle == batch = NoBatch

-----------------------------------------------------------------------------
(* apply_telemetry_batch.                                                  *)

Begins(ts, source, entries) ==
  /\ \A o \in Objects : orbits[o] + Len(entries) <= MaxOrbits
  /\ clock' = IF clock = 0 THEN ts ELSE clock
  /\ batch' = [epoch |-> ts, source |-> source, entries |-> entries, done |-> 0]
  /\ UNCHANGED <<store, slots, failed, audit>>

\* Mutant: old telemetry is not refused.
BeginBatchStale(ts, source, entries) ==
  /\ Idle
  /\ total + Len(entries) <= MaxConflicts
  /\ Begins(ts, source, entries)

\* A batch older than the clock is refused (STALE_TELEMETRY); the first one
\* sets the clock.
BeginBatch(ts, source, entries) ==
  /\ Idle
  /\ total + Len(entries) <= MaxConflicts
  /\ ts >= clock
  /\ Begins(ts, source, entries)

Contradicts(e) == type[e.id] \notin {"unknown", e.type}

\* Mutant: a full ring is overwritten at its head, which stays.
RecordConflictStuck(c) ==
  /\ ring' = IF ring.size < RingCap
             THEN [ring EXCEPT
                    !.cells[(ring.head + ring.size) % RingCap] = c, !.size = @ + 1]
             ELSE [ring EXCEPT !.cells[ring.head] = c]
  /\ total' = total + 1
  /\ bySource' = [bySource EXCEPT ![c.source] = @ + 1]
  /\ log' = Append(log, c)

\* Mutant: the ring is taken for full one record too late.
RecordConflictLate(c) ==
  /\ ring' = IF ring.size <= RingCap
             THEN [ring EXCEPT
                    !.cells[(ring.head + ring.size) % RingCap] = c, !.size = @ + 1]
             ELSE [ring EXCEPT
                    !.cells[ring.head] = c, !.head = (@ + 1) % RingCap]
  /\ total' = total + 1
  /\ bySource' = [bySource EXCEPT ![c.source] = @ + 1]
  /\ log' = Append(log, c)

\* record_type_conflict: the ring keeps the newest RingCap records.
RecordConflict(c) ==
  /\ ring' = IF ring.size < RingCap
             THEN [ring EXCEPT
                    !.cells[(ring.head + ring.size) % RingCap] = c, !.size = @ + 1]
             ELSE [ring EXCEPT
                    !.cells[ring.head] = c, !.head = (@ + 1) % RingCap]
  /\ total' = total + 1
  /\ bySource' = [bySource EXCEPT ![c.source] = @ + 1]
  /\ log' = Append(log, c)

\* upsert and set_elements: the first type is canonical, the state vector is
\* replaced, and the elements are computed from it when they can be.
Upsert(e) ==
  LET o == e.id
      v == [orbit |-> orbits[o] + 1, at |-> batch.epoch]
  IN /\ type' = [type EXCEPT ![o] = e.type]
     /\ epoch' = [epoch EXCEPT ![o] = batch.epoch]
     /\ vector' = [vector EXCEPT ![o] = v]
     /\ orbits' = [orbits EXCEPT ![o] = @ + 1]
     /\ \E el \in {ElementsOf(v), NoElements} :
          elems' = [elems EXCEPT ![o] = el]

IngestObject ==
  /\ batch.done < Len(batch.entries)
  /\ batch' = [batch EXCEPT !.done = @ + 1]
  /\ LET e == batch.entries[batch.done + 1] IN
       \/ /\ Contradicts(e)
          /\ RecordConflict([id |-> e.id, source |-> batch.source])
          /\ UNCHANGED store
       \/ /\ ~Contradicts(e)
          /\ Upsert(e)
          /\ UNCHANGED audit
  /\ UNCHANGED <<clock, slots, failed>>

\* The second loop of execute_ingest_telemetry: an entry sent as a satellite
\* opens a slot reference for its id, even when the id is stored as debris,
\* unless no elements can be computed for the object.
EndBatch ==
  /\ ~Idle
  /\ batch.done = Len(batch.entries)
  /\ slots' = slots \cup
       {e.id : e \in {f \in ToSet(batch.entries) :
                        f.type = "SATELLITE" /\ elems[f.id].valid}}
  /\ batch' = NoBatch
  /\ UNCHANGED <<clock, store, failed, audit>>

-----------------------------------------------------------------------------
(* The propagation of a step, and a burn.                                  *)

Newer(t, u) == IF t < u THEN u ELSE t

\* The elements of an object cannot be computed, or it cannot be propagated;
\* one with valid elements at or past the target is not propagated at all.
MayFail(o, target) == ~elems[o].valid \/ epoch[o] < target

\* The elements a propagation starts from: the cached ones while they are
\* valid, whatever they were computed from.
StartElements(o) == IF elems[o].valid THEN elems[o] ELSE ElementsOf(vector[o])

\* propagate_adaptive to the target epoch: the fast path computes the new
\* state vector from the elements, RK4 from the old state vector. An object
\* whose telemetry is at or past the target stays.
MovedVector(o, target, fast) ==
  LET from == IF fast THEN VectorOf(StartElements(o)) ELSE vector[o]
  IN IF epoch[o] < target
     THEN [from EXCEPT !.at = @ + (target - epoch[o])]
     ELSE vector[o]

MovedElements(o, target, fast) ==
  IF epoch[o] < target THEN ElementsOf(MovedVector(o, target, fast))
                       ELSE StartElements(o)

\* run_simulation_step: every object is brought to the target epoch; one that
\* cannot be propagated keeps its old state, epoch and elements.
Propagate(dt) ==
  /\ Idle
  /\ clock > 0
  /\ clock + dt <= MaxEpoch
  /\ clock' = clock + dt
  /\ \E bad \in SUBSET {o \in Known : MayFail(o, clock')},
        fast \in SUBSET Known :
       LET moved == Known \ bad
       IN /\ failed' = bad
          /\ epoch' = [o \in Objects |->
               IF o \in moved THEN Newer(epoch[o], clock') ELSE epoch[o]]
          /\ vector' = [o \in Objects |->
               IF o \in moved THEN MovedVector(o, clock', o \in fast)
                              ELSE vector[o]]
          /\ elems' = [o \in Objects |->
               IF o \in moved THEN MovedElements(o, clock', o \in fast)
                              ELSE elems[o]]
  /\ UNCHANGED <<type, orbits, slots, audit, batch>>

\* The velocity changes where the object is.
Kicks(o) ==
  /\ Idle
  /\ type[o] = "SATELLITE"
  /\ orbits[o] < MaxOrbits
  /\ orbits' = [orbits EXCEPT ![o] = @ + 1]
  /\ vector' = [vector EXCEPT ![o].orbit = orbits[o] + 1]

\* Mutant: the cached elements survive the impulse.
ApplyBurnKeepsElements(o) ==
  /\ Kicks(o)
  /\ UNCHANGED <<clock, type, epoch, elems, slots, failed, audit, batch>>

\* execute_due_maneuvers changes a velocity and invalidates the elements.
ApplyBurn(o) ==
  /\ Kicks(o)
  /\ elems' = [elems EXCEPT ![o] = NoElements]
  /\ UNCHANGED <<clock, type, epoch, slots, failed, audit, batch>>

-----------------------------------------------------------------------------
Batches == UNION {[1..n -> Entry] : n \in 0..MaxBatch}

Next ==
  \/ \E ts \in 1..MaxEpoch, source \in Sources, entries \in Batches :
       BeginBatch(ts, source, entries)
  \/ IngestObject
  \/ EndBatch
  \/ \E dt \in StepSizes : Propagate(dt)
  \/ \E o \in Objects : ApplyBurn(o)

Spec == Init /\ [][Next]_vars

-----------------------------------------------------------------------------
(* Properties.                                                             *)

\* Every variable has its type.
TypeOK ==
  /\ clock \in Nat
  /\ type \in [Objects -> Types \cup {"unknown"}]
  /\ epoch \in [Objects -> Nat]
  /\ vector \in [Objects -> Vector]
  /\ elems \in [Objects -> Elements]
  /\ orbits \in [Objects -> Nat]
  /\ slots \subseteq Objects
  /\ failed \subseteq Known
  /\ ring \in [cells : [0..(RingCap - 1) -> Conflict \cup {NoConflict}],
               head : 0..(RingCap - 1), size : 0..RingCap]
  /\ total \in Nat
  /\ bySource \in [Sources -> Nat]
  /\ batch.source \in Sources \cup {"none"}
  /\ batch.entries \in Seq(Entry) /\ batch.done \in 0..Len(batch.entries)
  /\ log \in Seq(Conflict)

\* The newest k records of the history.
Newest(k) == SubSeq(log, Len(log) - k + 1, Len(log))

\* conflict_history_snapshot: size records from the head on.
Snapshot ==
  [k \in 1..ring.size |-> ring.cells[(ring.head + k - 1) % RingCap]]

\* The conflict endpoint shows the newest conflicts, oldest first, however
\* often the ring has wrapped, and its counters count all there ever were.
ConflictsAreShown ==
  /\ Snapshot = Newest(IF total < RingCap THEN total ELSE RingCap)
  /\ total = Len(log)
  /\ \A s \in Sources :
       bySource[s] = Cardinality({i \in DOMAIN log : log[i].source = s})

\* No object lags the clock unless the last step failed to propagate it:
\* neither telemetry nor a step moves an object to the past.
EpochsKeepUp ==
  Idle => \A o \in Known \ failed : epoch[o] >= clock

\* Whatever the order of telemetry, steps and burns, an object is on the orbit
\* it was last put on, at the time the store gives as its epoch: no impulse and
\* no telemetry is undone by a propagation that starts from older elements.
\* Valid elements, by which the broad phase places it, say the same.
StateIsNewest ==
  \A o \in Known :
    /\ vector[o] = [orbit |-> orbits[o], at |-> epoch[o]]
    /\ elems[o].valid => VectorOf(elems[o]) = vector[o]
=============================================================================
