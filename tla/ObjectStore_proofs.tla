------------------------- MODULE ObjectStore_proofs -------------------------
(***************************************************************************)
(* Proofs about ObjectStore, for any objects, sources and ring size: the   *)
(* ring shows the newest conflicts, no object falls behind the clock       *)
(* unnoticed, and no propagation undoes an impulse.                        *)
(***************************************************************************)
EXTENDS ObjectStore, FiniteSetTheorems, SequenceTheorems, TLAPS

-----------------------------------------------------------------------------
(* Types.                                                                  *)

(* A batch is a record of its own, and a whole one while it is applied.    *)
BatchRecord ==
  [epoch : Nat, source : Sources \cup {"none"}, entries : Seq(Entry), done : Nat]

BatchInv ==
  /\ batch \in BatchRecord
  /\ batch # NoBatch => batch.source \in Sources

TypeInv == TypeOK /\ BatchInv

(* The conflict of an entry is recorded in a cell of the ring.             *)
LEMMA RingTypes ==
  ASSUME TypeOK, NEW c \in Conflict, RecordConflict(c)
  PROVE  /\ ring' \in [cells : [0..(RingCap - 1) -> Conflict \cup {NoConflict}],
                       head : 0..(RingCap - 1), size : 0..RingCap]
         /\ total' \in Nat
         /\ bySource' \in [Sources -> Nat]
         /\ log' \in Seq(Conflict)
<1> USE StoreAssumption
<1>1. RingCap \in Nat /\ RingCap > 0
  OBVIOUS
<1>2. /\ ring.head \in 0..(RingCap - 1) /\ ring.size \in 0..RingCap
      /\ ring.cells \in [0..(RingCap - 1) -> Conflict \cup {NoConflict}]
      /\ ring = [cells |-> ring.cells, head |-> ring.head, size |-> ring.size]
  BY DEF TypeOK
<1>3. /\ (ring.head + ring.size) % RingCap \in 0..(RingCap - 1)
      /\ (ring.head + 1) % RingCap \in 0..(RingCap - 1)
  BY <1>1, <1>2, SMT
<1>4. total' \in Nat /\ bySource' \in [Sources -> Nat] /\ log' \in Seq(Conflict)
  <2>1. /\ total' = total + 1 /\ log' = Append(log, c)
        /\ bySource' = [bySource EXCEPT ![c.source] = @ + 1]
    BY DEF RecordConflict
  <2>2. total \in Nat /\ bySource \in [Sources -> Nat] /\ log \in Seq(Conflict)
    BY DEF TypeOK
  <2>3. c.source \in Sources
    BY DEF Conflict
  <2> QED
    BY <2>1, <2>2, <2>3
<1>5. CASE ring.size < RingCap
  <2>1. ring' = [ring EXCEPT
                   !.cells[(ring.head + ring.size) % RingCap] = c, !.size = @ + 1]
    BY <1>5 DEF RecordConflict
  <2>2. ring.size + 1 \in 0..RingCap
    BY <1>1, <1>2, <1>5
  <2> DEFINE cells == [ring.cells EXCEPT ![(ring.head + ring.size) % RingCap] = c]
  <2>3. ring' = [cells |-> cells, head |-> ring.head, size |-> ring.size + 1]
    BY <1>2, <2>1
  <2>4. cells \in [0..(RingCap - 1) -> Conflict \cup {NoConflict}]
    BY <1>2
  <2> QED
    BY <1>2, <1>4, <2>2, <2>3, <2>4
<1>6. CASE ~(ring.size < RingCap)
  <2>1. ring' = [ring EXCEPT
                   !.cells[ring.head] = c, !.head = (@ + 1) % RingCap]
    BY <1>6 DEF RecordConflict
  <2> DEFINE cells == [ring.cells EXCEPT ![ring.head] = c]
  <2>2. ring' = [cells |-> cells, head |-> (ring.head + 1) % RingCap,
                 size |-> ring.size]
    BY <1>2, <2>1
  <2>3. cells \in [0..(RingCap - 1) -> Conflict \cup {NoConflict}]
    BY <1>2
  <2> QED
    BY <1>2, <1>3, <1>4, <2>2, <2>3
<1> QED
  BY <1>5, <1>6

(* What a propagation does to the objects.                                 *)
Moves(bad, fast) ==
  /\ failed' = bad
  /\ epoch' = [o \in Objects |->
       IF o \in Known \ bad THEN Newer(epoch[o], clock') ELSE epoch[o]]
  /\ vector' = [o \in Objects |->
       IF o \in Known \ bad THEN MovedVector(o, clock', o \in fast)
                            ELSE vector[o]]
  /\ elems' = [o \in Objects |->
       IF o \in Known \ bad THEN MovedElements(o, clock', o \in fast)
                            ELSE elems[o]]

(* Both paths of a propagation yield a state vector and its elements.      *)
LEMMA MovedTypes ==
  ASSUME TypeOK, NEW o \in Objects, NEW target \in Nat, NEW fast \in BOOLEAN
  PROVE  /\ MovedVector(o, target, fast) \in Vector
         /\ MovedElements(o, target, fast) \in Elements
<1>1. vector[o] \in Vector /\ elems[o] \in Elements /\ epoch[o] \in Nat
  BY DEF TypeOK
<1>2. StartElements(o) \in Elements
  BY <1>1 DEF StartElements, ElementsOf, Vector, Elements
<1>3. VectorOf(StartElements(o)) \in Vector
  BY <1>2 DEF VectorOf, Vector, Elements
<1>4. MovedVector(o, target, fast) \in Vector
  <2>1. epoch[o] < target => target - epoch[o] \in Nat
    BY <1>1
  <2>2. \A v \in Vector, n \in Nat : [v EXCEPT !.at = @ + n] \in Vector
    BY DEF Vector
  <2> QED
    BY <1>1, <1>3, <2>1, <2>2 DEF MovedVector
<1> QED
  BY <1>2, <1>4 DEF MovedElements, ElementsOf, Vector, Elements

(* Every variable has its type.                                            *)
LEMMA TypeInvHolds == Spec => []TypeInv
<1> USE StoreAssumption
<1>1. Init => TypeInv
  <2> SUFFICES ASSUME Init PROVE TypeInv
    OBVIOUS
  <2>1. /\ batch = NoBatch
        /\ batch.source = "none" /\ batch.entries = << >> /\ batch.done = 0
    BY DEF Init, NoBatch
  <2>2. BatchInv
    BY <2>1 DEF BatchInv, BatchRecord, NoBatch
  <2>3. TypeOK
    BY <2>1 DEF Init, TypeOK, Known, Vector, Elements, NoElements
  <2> QED
    BY <2>2, <2>3 DEF TypeInv
<1>2. TypeInv /\ [Next]_vars => TypeInv'
  <2> SUFFICES ASSUME TypeInv, [Next]_vars PROVE TypeInv'
    OBVIOUS
  <2> USE DEF TypeInv
  <2>1. ASSUME NEW ts \in 1..MaxEpoch, NEW source \in Sources,
               NEW entries \in Batches, BeginBatch(ts, source, entries)
        PROVE  TypeInv'
    <3>1. entries \in Seq(Entry)
      BY DEF Batches
    <3>2. ts \in Nat
      OBVIOUS
    <3>3. batch' = [epoch |-> ts, source |-> source, entries |-> entries, done |-> 0]
      BY <2>1 DEF BeginBatch, Begins
    <3>4. BatchInv'
      BY <3>1, <3>2, <3>3 DEF BatchInv, BatchRecord
    <3>5. /\ clock' \in Nat
          /\ UNCHANGED <<store, slots, failed, audit>>
      BY <2>1, <3>2 DEF BeginBatch, Begins, TypeOK
    <3>6. TypeOK'
      BY <3>1, <3>3, <3>5 DEF TypeOK, store, audit, Known
    <3> QED
      BY <3>4, <3>6
  <2>2. CASE IngestObject
    <3> DEFINE e == batch.entries[batch.done + 1]
    <3>1. /\ batch.done < Len(batch.entries)
          /\ batch' = [batch EXCEPT !.done = @ + 1]
          /\ UNCHANGED <<clock, slots, failed>>
      BY <2>2 DEF IngestObject
    <3>2. e \in Entry
      BY <3>1 DEF TypeOK, BatchInv, BatchRecord
    <3>3. batch.source \in Sources
      BY <3>1 DEF BatchInv, NoBatch, TypeOK
    <3>4. BatchInv'
      BY <3>1, <3>3 DEF BatchInv, BatchRecord
    <3>5. /\ batch'.source \in Sources \cup {"none"}
          /\ batch'.entries \in Seq(Entry)
          /\ batch'.done \in 0..Len(batch'.entries)
      <4>1. /\ batch'.entries = batch.entries /\ batch'.done = batch.done + 1
            /\ batch'.source = batch.source
        BY <3>1 DEF BatchInv, BatchRecord
      <4>2. /\ batch.entries \in Seq(Entry) /\ batch.done \in Nat
            /\ Len(batch.entries) \in Nat
        BY DEF BatchInv, BatchRecord
      <4> QED
        BY <3>1, <3>3, <4>1, <4>2
    <3>6. CASE Contradicts(e)
      <4>1. /\ RecordConflict([id |-> e.id, source |-> batch.source])
            /\ UNCHANGED store
        BY <2>2, <3>6 DEF IngestObject
      <4>2. [id |-> e.id, source |-> batch.source] \in Conflict
        BY <3>2, <3>3 DEF Conflict, Entry
      <4>3. /\ ring' \in [cells : [0..(RingCap - 1) -> Conflict \cup {NoConflict}],
                            head : 0..(RingCap - 1), size : 0..RingCap]
            /\ total' \in Nat
            /\ bySource' \in [Sources -> Nat]
            /\ log' \in Seq(Conflict)
        BY <4>1, <4>2, RingTypes
      <4> QED
        BY <3>1, <3>4, <3>5, <4>1, <4>3 DEF TypeOK, store, Known
    <3>7. CASE ~Contradicts(e)
      <4>1. Upsert(e) /\ UNCHANGED audit
        BY <2>2, <3>7 DEF IngestObject
      <4>2. /\ e.id \in Objects /\ e.type \in Types
            /\ batch.epoch \in Nat
        BY <3>2 DEF Entry, BatchInv, BatchRecord
      <4>3. /\ type' \in [Objects -> Types \cup {"unknown"}]
            /\ epoch' \in [Objects -> Nat]
            /\ orbits' \in [Objects -> Nat]
            /\ vector' \in [Objects -> Vector]
            /\ elems' \in [Objects -> Elements]
        <5> DEFINE o == e.id
                   v == [orbit |-> orbits[o] + 1, at |-> batch.epoch]
        <5>1. /\ vector' = [vector EXCEPT ![o] = v]
              /\ orbits' = [orbits EXCEPT ![o] = @ + 1]
              /\ epoch' = [epoch EXCEPT ![o] = batch.epoch]
              /\ type' = [type EXCEPT ![o] = e.type]
              /\ \E el \in {ElementsOf(v), NoElements} :
                   elems' = [elems EXCEPT ![o] = el]
          BY <4>1 DEF Upsert
        <5>2. /\ orbits \in [Objects -> Nat] /\ vector \in [Objects -> Vector]
              /\ elems \in [Objects -> Elements] /\ o \in Objects
          BY <4>2 DEF TypeOK
        <5>3. orbits[o] + 1 \in Nat
          BY <5>2
        <5>4. v \in Vector /\ ElementsOf(v) \in Elements /\ NoElements \in Elements
          BY <4>2, <5>3 DEF Vector, Elements, ElementsOf, NoElements
        <5> HIDE DEF v
        <5>5. vector' \in [Objects -> Vector] /\ elems' \in [Objects -> Elements]
          BY <5>1, <5>4, <5>2
        <5> QED
          BY <4>2, <5>1, <5>3, <5>5 DEF TypeOK
      <4>4. failed' \subseteq Known'
        BY <3>1, <4>1, <4>2 DEF Upsert, TypeOK, Known, Types
      <4> QED
        BY <3>1, <3>4, <3>5, <4>1, <4>3, <4>4 DEF TypeOK, audit
    <3> QED
      BY <3>6, <3>7
  <2>3. CASE EndBatch
    <3>1. batch' = NoBatch /\ UNCHANGED <<clock, store, failed, audit>>
      BY <2>3 DEF EndBatch
    <3>2. ToSet(batch.entries) \subseteq Entry
      BY DEF ToSet, TypeOK
    <3>3. slots' \subseteq Objects
      BY <2>3, <3>2 DEF EndBatch, TypeOK, Entry
    <3>4. BatchInv' /\ batch'.source = "none" /\ batch'.entries = << >>
                    /\ batch'.done = 0
      BY <3>1 DEF BatchInv, BatchRecord, NoBatch
    <3> QED
      BY <3>1, <3>3, <3>4 DEF TypeOK, store, audit, Known
  <2>4. ASSUME NEW dt \in StepSizes, Propagate(dt)
        PROVE  TypeInv'
    <3>1. PICK bad \in SUBSET {o \in Known : MayFail(o, clock')},
               fast \in SUBSET Known : Moves(bad, fast)
      BY <2>4 DEF Propagate, Moves
    <3>2. clock' \in Nat /\ UNCHANGED <<type, orbits, slots, audit, batch>>
      BY <2>4 DEF Propagate, TypeOK
    <3>3. /\ epoch' \in [Objects -> Nat]
          /\ vector' \in [Objects -> Vector]
          /\ elems' \in [Objects -> Elements]
      <4>1. ASSUME NEW o \in Objects
            PROVE  /\ MovedVector(o, clock', o \in fast) \in Vector
                   /\ MovedElements(o, clock', o \in fast) \in Elements
        <5>1. (o \in fast) \in BOOLEAN
          OBVIOUS
        <5> QED
          BY <3>2, <5>1, MovedTypes
      <4>2. epoch' \in [Objects -> Nat]
        BY <3>1, <3>2 DEF Moves, TypeOK, Newer
      <4> QED
        BY <3>1, <4>1, <4>2 DEF Moves, TypeOK
    <3>4. failed' \subseteq Known'
      BY <3>1, <3>2 DEF Moves, Known
    <3> QED
      BY <3>2, <3>3, <3>4 DEF TypeOK, BatchInv, audit
  <2>5. ASSUME NEW o \in Objects, ApplyBurn(o)
        PROVE  TypeInv'
    <3>1. /\ orbits' \in [Objects -> Nat]
          /\ vector' \in [Objects -> Vector]
          /\ elems' \in [Objects -> Elements]
      <4>1. /\ orbits' = [orbits EXCEPT ![o] = @ + 1]
            /\ vector' = [vector EXCEPT ![o].orbit = orbits[o] + 1]
            /\ elems' = [elems EXCEPT ![o] = NoElements]
        BY <2>5 DEF ApplyBurn, Kicks
      <4>2. NoElements \in Elements /\ orbits[o] + 1 \in Nat /\ vector[o] \in Vector
        BY DEF Elements, NoElements, TypeOK
      <4>3. [vector[o] EXCEPT !.orbit = orbits[o] + 1] \in Vector
        BY <4>2 DEF Vector
      <4> QED
        BY <4>1, <4>2, <4>3 DEF TypeOK
    <3> QED
      BY <2>5, <3>1 DEF ApplyBurn, Kicks, TypeOK, BatchInv, audit, Known
  <2>6. CASE UNCHANGED vars
    BY <2>6 DEF vars, store, audit, TypeOK, BatchInv, Known
  <2> QED
    BY <2>1, <2>2, <2>3, <2>4, <2>5, <2>6 DEF Next
<1> QED
  BY <1>1, <1>2, PTL DEF Spec

(* Every variable keeps its type, failed objects are known, and the ring   *)
(* stays within its cells.                                                 *)
THEOREM StoreTypeCorrect == Spec => []TypeOK
  BY TypeInvHolds, PTL DEF TypeInv

-----------------------------------------------------------------------------
(* Elements and epochs.                                                    *)

(* An object whose state is the newest is moved along its newest orbit, by *)
(* either path: the elements it starts from are those of its vector.       *)
LEMMA MovedState ==
  ASSUME TypeOK, StateIsNewest, NEW o \in Known, NEW target \in Nat,
         NEW fast \in BOOLEAN
  PROVE  /\ MovedVector(o, target, fast) =
              [orbit |-> orbits[o], at |-> Newer(epoch[o], target)]
         /\ VectorOf(MovedElements(o, target, fast)) =
              MovedVector(o, target, fast)
<1>1. /\ o \in Objects
      /\ vector[o] = [orbit |-> orbits[o], at |-> epoch[o]]
      /\ elems[o].valid => VectorOf(elems[o]) = vector[o]
      /\ epoch[o] \in Nat
  BY DEF StateIsNewest, Known, TypeOK
<1>2. \A v : v = [orbit |-> v.orbit, at |-> v.at] => VectorOf(ElementsOf(v)) = v
  BY DEF VectorOf, ElementsOf
<1>3. VectorOf(StartElements(o)) = vector[o]
  BY <1>1, <1>2 DEF StartElements
<1>4. CASE epoch[o] < target
  <2>1. MovedVector(o, target, fast) =
          [vector[o] EXCEPT !.at = @ + (target - epoch[o])]
    BY <1>3, <1>4 DEF MovedVector
  <2>2. epoch[o] + (target - epoch[o]) = target /\ Newer(epoch[o], target) = target
    BY <1>1, <1>4 DEF Newer
  <2>3. MovedVector(o, target, fast) = [orbit |-> orbits[o], at |-> target]
    BY <1>1, <2>1, <2>2
  <2> QED
    BY <1>2, <1>4, <2>2, <2>3 DEF MovedElements
<1>5. CASE ~(epoch[o] < target)
  <2>1. Newer(epoch[o], target) = epoch[o]
    BY <1>5 DEF Newer
  <2> QED
    BY <1>1, <1>3, <1>5, <2>1 DEF MovedVector, MovedElements
<1> QED
  BY <1>4, <1>5

(* No impulse and no telemetry is undone by a propagation from older       *)
(* elements, whichever of telemetry, a step and a burn wrote last.         *)
THEOREM StateCorrect == Spec => []StateIsNewest
<1>1. Init => StateIsNewest
  BY DEF Init, StateIsNewest, Known
<1>2. TypeInv /\ StateIsNewest /\ [Next]_vars => StateIsNewest'
  <2> SUFFICES ASSUME TypeInv, StateIsNewest, [Next]_vars
               PROVE  StateIsNewest'
    OBVIOUS
  <2>0. TypeOK
    BY DEF TypeInv
  <2>1. CASE UNCHANGED store
    BY <2>1 DEF store, StateIsNewest, Known
  <2>2. ASSUME NEW e \in Entry, Upsert(e)
        PROVE  StateIsNewest'
    <3> DEFINE o == e.id
               v == [orbit |-> orbits[o] + 1, at |-> batch.epoch]
    <3>1. o \in Objects
      BY DEF Entry
    <3>2. /\ vector' = [vector EXCEPT ![o] = v]
          /\ orbits' = [orbits EXCEPT ![o] = @ + 1]
          /\ epoch' = [epoch EXCEPT ![o] = batch.epoch]
          /\ type' = [type EXCEPT ![o] = e.type]
          /\ \E el \in {ElementsOf(v), NoElements} :
               elems' = [elems EXCEPT ![o] = el]
      BY <2>2 DEF Upsert
    <3>3. /\ vector'[o] = v /\ orbits'[o] = orbits[o] + 1
          /\ epoch'[o] = batch.epoch
          /\ elems'[o] \in {ElementsOf(v), NoElements}
      BY <2>0, <3>1, <3>2 DEF TypeOK
    <3>4. elems'[o].valid => VectorOf(elems'[o]) = vector'[o]
      BY <3>3 DEF ElementsOf, NoElements, VectorOf
    <3>5. \A p \in Known' \ {o} :
            /\ p \in Known /\ vector'[p] = vector[p] /\ orbits'[p] = orbits[p]
            /\ epoch'[p] = epoch[p] /\ elems'[p] = elems[p]
      BY <2>0, <3>2 DEF TypeOK, Known
    <3> QED
      BY <3>3, <3>4, <3>5 DEF StateIsNewest
  <2>3. CASE IngestObject
    <3>1. \/ UNCHANGED store
          \/ Upsert(batch.entries[batch.done + 1])
      BY <2>3 DEF IngestObject
    <3>2. batch.entries[batch.done + 1] \in Entry
      <4>1. /\ batch.entries \in Seq(Entry) /\ batch.done \in Nat
            /\ batch.done < Len(batch.entries)
        BY <2>3 DEF IngestObject, TypeInv, BatchInv, BatchRecord
      <4> QED
        BY <4>1
    <3> QED
      BY <2>1, <2>2, <3>1, <3>2
  <2>4. ASSUME NEW dt \in StepSizes, Propagate(dt)
        PROVE  StateIsNewest'
    <3>1. PICK bad \in SUBSET Known, fast \in SUBSET Known : Moves(bad, fast)
      BY <2>4 DEF Propagate, Moves
    <3>2. /\ clock' \in Nat /\ Known' = Known /\ orbits' = orbits
          /\ Known \subseteq Objects
      BY <2>0, <2>4, StoreAssumption DEF Propagate, TypeOK, Known
    <3>3. ASSUME NEW o \in Known
          PROVE  /\ vector'[o] = [orbit |-> orbits'[o], at |-> epoch'[o]]
                 /\ elems'[o].valid => VectorOf(elems'[o]) = vector'[o]
      <4>1. CASE o \in bad
        BY <3>1, <3>2, <4>1 DEF Moves, StateIsNewest
      <4>2. CASE o \notin bad
        <5>1. /\ vector'[o] = MovedVector(o, clock', o \in fast)
              /\ elems'[o] = MovedElements(o, clock', o \in fast)
              /\ epoch'[o] = Newer(epoch[o], clock')
          BY <3>1, <3>2, <4>2 DEF Moves
        <5>2. (o \in fast) \in BOOLEAN
          OBVIOUS
        <5> QED
          BY <2>0, <3>2, <5>1, <5>2, MovedState
      <4> QED
        BY <4>1, <4>2
    <3> QED
      BY <3>2, <3>3 DEF StateIsNewest
  <2>5. ASSUME NEW o \in Objects, ApplyBurn(o)
        PROVE  StateIsNewest'
    <3>1. /\ vector' = [vector EXCEPT ![o].orbit = orbits[o] + 1]
          /\ orbits' = [orbits EXCEPT ![o] = @ + 1]
          /\ elems' = [elems EXCEPT ![o] = NoElements]
          /\ UNCHANGED <<epoch, type>>
          /\ type[o] = "SATELLITE"
      BY <2>5 DEF ApplyBurn, Kicks
    <3>2. o \in Known /\ Known' = Known
      BY <3>1 DEF Known
    <3>3. vector[o] = [orbit |-> orbits[o], at |-> epoch[o]]
      BY <3>2 DEF StateIsNewest
    <3>4. /\ vector'[o] = [orbit |-> orbits[o] + 1, at |-> epoch[o]]
          /\ orbits'[o] = orbits[o] + 1
          /\ ~elems'[o].valid
      BY <2>0, <3>1, <3>3 DEF TypeOK, NoElements
    <3>5. \A p \in Known \ {o} :
            /\ vector'[p] = vector[p] /\ orbits'[p] = orbits[p]
            /\ elems'[p] = elems[p]
      BY <2>0, <3>1 DEF TypeOK, Known
    <3> QED
      BY <3>1, <3>2, <3>4, <3>5 DEF StateIsNewest
  <2>6. ASSUME ~IngestObject, ~(\E dt \in StepSizes : Propagate(dt)),
               ~(\E o \in Objects : ApplyBurn(o))
        PROVE  UNCHANGED store
    BY <2>6 DEF Next, BeginBatch, Begins, EndBatch, vars
  <2> QED
    BY <2>1, <2>3, <2>4, <2>5, <2>6
<1> QED
  BY <1>1, <1>2, TypeInvHolds, PTL DEF Spec

(* Nothing is known before the clock runs, and the batch being applied is  *)
(* not older than the clock.                                               *)
EpochInv ==
  /\ \A o \in Known \ failed : epoch[o] >= clock
  /\ clock = 0 => Known = {} /\ batch = NoBatch
  /\ batch # NoBatch => batch.epoch >= clock

(* No known object lags the clock, but for those the last step could not   *)
(* propagate.                                                              *)
THEOREM EpochsCorrect == Spec => []EpochsKeepUp
<1> USE StoreAssumption
<1>1. Init => EpochInv
  BY DEF Init, EpochInv, Known
<1>2. TypeInv /\ EpochInv /\ [Next]_vars => EpochInv'
  <2> SUFFICES ASSUME TypeInv, EpochInv, [Next]_vars PROVE EpochInv'
    OBVIOUS
  <2>0. /\ clock \in Nat /\ epoch \in [Objects -> Nat]
        /\ type \in [Objects -> Types \cup {"unknown"}]
        /\ batch \in BatchRecord
    BY DEF TypeInv, TypeOK, BatchInv
  <2>1. ASSUME NEW ts \in 1..MaxEpoch, NEW source \in Sources,
               NEW entries \in Batches, BeginBatch(ts, source, entries)
        PROVE  EpochInv'
    <3>1. /\ UNCHANGED <<store, failed>> /\ ts >= clock /\ ts > 0
          /\ clock' = IF clock = 0 THEN ts ELSE clock
          /\ batch' = [epoch |-> ts, source |-> source, entries |-> entries,
                       done |-> 0]
      BY <2>1 DEF BeginBatch, Begins
    <3>2. Known' = Known /\ batch'.epoch = ts
      BY <3>1 DEF store, Known
    <3> QED
      BY <2>0, <3>1, <3>2 DEF EpochInv, store
  <2>2. CASE IngestObject
    <3> DEFINE e == batch.entries[batch.done + 1]
    <3>1. /\ batch.done < Len(batch.entries)
          /\ batch' = [batch EXCEPT !.done = @ + 1]
          /\ UNCHANGED <<clock, failed>>
      BY <2>2 DEF IngestObject
    <3>2. /\ batch # NoBatch /\ batch'.epoch = batch.epoch /\ batch'.done > 0
      BY <2>0, <3>1 DEF NoBatch, BatchRecord
    <3>3. clock > 0 /\ batch.epoch >= clock
      BY <2>0, <3>2 DEF EpochInv
    <3>4. CASE UNCHANGED store
      BY <3>1, <3>2, <3>3, <3>4 DEF EpochInv, store, Known
    <3>5. CASE Upsert(e)
      <4>1. e.id \in Objects
        <5>1. batch.entries \in Seq(Entry) /\ batch.done \in Nat
          BY <2>0 DEF BatchRecord
        <5>2. e \in Entry
          BY <3>1, <5>1
        <5> QED
          BY <5>2 DEF Entry
      <4>2. \A o \in Objects \ {e.id} : type'[o] = type[o] /\ epoch'[o] = epoch[o]
        BY <2>0, <3>5 DEF Upsert
      <4>3. epoch'[e.id] = batch.epoch
        BY <2>0, <3>5, <4>1 DEF Upsert
      <4> QED
        BY <2>0, <3>1, <3>2, <3>3, <4>2, <4>3 DEF EpochInv, Known
    <3> QED
      BY <2>2, <3>4, <3>5 DEF IngestObject
  <2>3. CASE EndBatch
    BY <2>3 DEF EndBatch, EpochInv, store, Known
  <2>4. ASSUME NEW dt \in StepSizes, Propagate(dt)
        PROVE  EpochInv'
    <3>1. PICK bad \in SUBSET Known, fast \in SUBSET Known :
            /\ failed' = bad
            /\ epoch' = [o \in Objects |->
                 IF o \in Known \ bad THEN Newer(epoch[o], clock') ELSE epoch[o]]
      BY <2>4 DEF Propagate
    <3>2. /\ clock' = clock + dt /\ batch = NoBatch /\ batch' = batch
          /\ clock > 0 /\ type' = type
      BY <2>4 DEF Propagate, Idle
    <3>3. Known' = Known /\ Known \subseteq Objects
      BY <3>2 DEF Known
    <3>4. \A o \in Known \ bad : epoch'[o] >= clock'
      BY <2>0, <3>1, <3>2, <3>3 DEF Newer
    <3> QED
      BY <2>0, <3>1, <3>2, <3>3, <3>4 DEF EpochInv
  <2>5. ASSUME NEW o \in Objects, ApplyBurn(o)
        PROVE  EpochInv'
    BY <2>5 DEF ApplyBurn, Kicks, EpochInv, Known
  <2>6. CASE UNCHANGED vars
    BY <2>6 DEF vars, store, EpochInv, Known
  <2> QED
    BY <2>1, <2>2, <2>3, <2>4, <2>5, <2>6 DEF Next
<1>3. EpochInv => EpochsKeepUp
  BY DEF EpochInv, EpochsKeepUp
<1> QED
  BY <1>1, <1>2, <1>3, TypeInvHolds, PTL DEF Spec

-----------------------------------------------------------------------------
(* The ring.                                                               *)

(* Going once around the ring.                                             *)
LEMMA Wrap ==
  ASSUME NEW n \in Nat
  PROVE  /\ n < RingCap => n % RingCap = n
         /\ RingCap <= n /\ n < 2 * RingCap => n % RingCap = n - RingCap
<1>1. RingCap \in Nat /\ RingCap > 0
  BY StoreAssumption
<1> QED
  BY <1>1, SMT

(* The cells from the head on hold the newest records of the history; the  *)
(* head moves only when the ring is full.                                  *)
RingInv ==
  /\ total = Len(log)
  /\ ring.size = IF total < RingCap THEN total ELSE RingCap
  /\ ring.size < RingCap => ring.head = 0
  /\ \A k \in 1..ring.size :
       ring.cells[(ring.head + k - 1) % RingCap] = log[total - ring.size + k]

CountInv ==
  \A s \in Sources :
    bySource[s] = Cardinality({i \in DOMAIN log : log[i].source = s})

LEMMA RingStep ==
  ASSUME TypeOK, RingInv, NEW c \in Conflict, RecordConflict(c)
  PROVE  RingInv'
<1>1. /\ RingCap \in Nat /\ RingCap > 0
      /\ ring.head \in 0..(RingCap - 1) /\ ring.size \in 0..RingCap
      /\ ring.cells \in [0..(RingCap - 1) -> Conflict \cup {NoConflict}]
      /\ ring = [cells |-> ring.cells, head |-> ring.head, size |-> ring.size]
      /\ total \in Nat /\ log \in Seq(Conflict)
  BY StoreAssumption DEF TypeOK
<1>2. /\ total' = total + 1 /\ log' = Append(log, c)
  BY DEF RecordConflict
<1>3. /\ total' = Len(log') /\ log'[total'] = c
      /\ \A k \in 1..total : log'[k] = log[k]
  BY <1>1, <1>2 DEF RingInv
<1>4. CASE ring.size < RingCap
  <2>1. ring.head = 0 /\ ring.size = total /\ total < RingCap
    BY <1>1, <1>4 DEF RingInv
  <2>2. (ring.head + ring.size) % RingCap = total
    BY <1>1, <2>1, Wrap
  <2> DEFINE cells == [ring.cells EXCEPT ![total] = c]
  <2>3. ring' = [cells |-> cells, head |-> 0, size |-> total + 1]
    BY <1>1, <1>4, <2>1, <2>2 DEF RecordConflict
  <2>4. \A k \in 1..total : ring.cells[k - 1] = log[k]
    <3> TAKE k \in 1..total
    <3>1. k - 1 \in Nat /\ k - 1 < RingCap
      BY <1>1, <2>1
    <3>2. (ring.head + k - 1) % RingCap = k - 1
      BY <1>1, <2>1, <3>1, Wrap
    <3> QED
      BY <1>1, <2>1, <3>2 DEF RingInv
  <2>5. \A k \in 1..(total + 1) : cells[k - 1] = log'[k]
    BY <1>1, <1>2, <1>3, <2>1, <2>4
  <2>6. \A k \in 1..(total + 1) : (0 + k - 1) % RingCap = k - 1
    <3> TAKE k \in 1..(total + 1)
    <3>1. k - 1 \in Nat /\ k - 1 < RingCap /\ 0 + k - 1 = k - 1
      BY <1>1, <2>1
    <3> QED
      BY <3>1, Wrap
  <2>7. /\ ring'.cells = cells /\ ring'.head = 0 /\ ring'.size = total + 1
    BY <2>3
  <2> HIDE DEF cells
  <2>8. \A k \in 1..ring'.size :
          ring'.cells[(ring'.head + k - 1) % RingCap] =
            log'[total' - ring'.size + k]
    <3> SUFFICES ASSUME NEW k \in 1..(total + 1)
                 PROVE  cells[(0 + k - 1) % RingCap] =
                          log'[(total + 1) - (total + 1) + k]
      BY <1>2, <2>7
    <3>1. (total + 1) - (total + 1) + k = k
      BY <1>1
    <3> QED
      BY <2>5, <2>6, <3>1
  <2> QED
    BY <1>1, <1>2, <1>3, <2>1, <2>7, <2>8 DEF RingInv
<1>5. CASE ~(ring.size < RingCap)
  <2>1. ring.size = RingCap /\ total >= RingCap
    BY <1>1, <1>5 DEF RingInv
  <2> DEFINE cells == [ring.cells EXCEPT ![ring.head] = c]
             head == (ring.head + 1) % RingCap
  <2>3x. ring' = [cells |-> cells, head |-> head, size |-> ring.size]
    BY <1>1, <1>5 DEF RecordConflict
  <2>2. /\ ring'.cells = cells /\ ring'.head = head /\ ring'.size = RingCap
    BY <2>1, <2>3x
  <2>3. head = IF ring.head + 1 = RingCap THEN 0 ELSE ring.head + 1
    <3>1. ring.head + 1 \in Nat /\ ring.head + 1 < 2 * RingCap + 1
      BY <1>1
    <3>2. CASE ring.head + 1 < RingCap
      BY <1>1, <3>1, <3>2, Wrap
    <3>3. CASE ring.head + 1 = RingCap
      <4>1. RingCap <= RingCap /\ RingCap < 2 * RingCap /\ RingCap - RingCap = 0
        BY <1>1
      <4> QED
        BY <1>1, <3>3, <4>1, Wrap
    <3> QED
      BY <1>1, <3>2, <3>3
  <2> HIDE DEF head
  <2>4. \A k \in 1..RingCap :
          cells[(head + k - 1) % RingCap] = log'[total' - RingCap + k]
    <3> TAKE k \in 1..RingCap
    <3>1. CASE k < RingCap
      <4>1. (head + k - 1) % RingCap = (ring.head + (k + 1) - 1) % RingCap
        <5>1. CASE ring.head + 1 = RingCap
          <6>1. head + k - 1 = k - 1 /\ k - 1 \in Nat /\ k - 1 < RingCap
            BY <1>1, <2>3, <5>1
          <6>2. ring.head + (k + 1) - 1 = RingCap + (k - 1)
            BY <1>1, <5>1
          <6>3. /\ RingCap + (k - 1) \in Nat /\ RingCap <= RingCap + (k - 1)
                /\ RingCap + (k - 1) < 2 * RingCap
                /\ RingCap + (k - 1) - RingCap = k - 1
            BY <1>1, <6>1
          <6>4. /\ (k - 1) % RingCap = k - 1
                /\ (RingCap + (k - 1)) % RingCap = k - 1
            BY <1>1, <6>1, <6>3, Wrap
          <6> QED
            BY <6>1, <6>2, <6>4
        <5>2. CASE ring.head + 1 # RingCap
          BY <1>1, <2>3, <5>2
        <5> QED
          BY <5>1, <5>2
      <4>2. (ring.head + (k + 1) - 1) % RingCap \in 0..(RingCap - 1) \ {ring.head}
        <5>1. /\ ring.head + (k + 1) - 1 = ring.head + k
              /\ ring.head + k \in Nat /\ ring.head + k < 2 * RingCap
          BY <1>1, <3>1
        <5>2. CASE ring.head + k < RingCap
          BY <1>1, <5>1, <5>2, Wrap
        <5>3. CASE RingCap <= ring.head + k
          BY <1>1, <3>1, <5>1, <5>3, Wrap
        <5> QED
          BY <1>1, <5>2, <5>3
      <4>3. cells[(ring.head + (k + 1) - 1) % RingCap] =
              ring.cells[(ring.head + (k + 1) - 1) % RingCap]
        BY <1>1, <4>2
      <4>4. k + 1 \in 1..ring.size
        BY <1>1, <2>1, <3>1
      <4>5. ring.cells[(ring.head + (k + 1) - 1) % RingCap] =
              log[total - ring.size + (k + 1)]
        BY <4>4 DEF RingInv
      <4>6. /\ total - ring.size + (k + 1) = total' - RingCap + k
            /\ total' - RingCap + k \in 1..total
        BY <1>1, <1>2, <2>1, <3>1
      <4> QED
        BY <1>3, <4>1, <4>3, <4>5, <4>6
    <3>2. CASE k = RingCap
      <4>1. (head + k - 1) % RingCap = ring.head
        <5>1. CASE ring.head + 1 = RingCap
          <6>1. head + k - 1 = ring.head /\ ring.head \in Nat /\ ring.head < RingCap
            BY <1>1, <2>3, <3>2, <5>1
          <6> QED
            BY <6>1, Wrap
        <5>2. CASE ring.head + 1 # RingCap
          <6>1. /\ head + k - 1 = RingCap + ring.head
                /\ ring.head \in Nat /\ ring.head < RingCap
                /\ RingCap + ring.head \in Nat
                /\ RingCap <= RingCap + ring.head
                /\ RingCap + ring.head < 2 * RingCap
            BY <1>1, <2>3, <3>2, <5>2
          <6> QED
            BY <1>1, <6>1, Wrap
        <5> QED
          BY <5>1, <5>2
      <4>2. cells[ring.head] = c
        BY <1>1
      <4>3. total' - RingCap + k = total'
        BY <1>1, <1>2, <3>2
      <4> QED
        BY <1>3, <4>1, <4>2, <4>3
    <3> QED
      BY <1>1, <3>1, <3>2
  <2> HIDE DEF cells
  <2>5. total' >= RingCap
    BY <1>1, <1>2, <2>1
  <2> QED
    BY <1>1, <1>2, <1>3, <2>2, <2>4, <2>5 DEF RingInv
<1> QED
  BY <1>4, <1>5

(* Counting by source.                                                     *)
LEMMA CountStep ==
  ASSUME TypeOK, CountInv, NEW c \in Conflict, RecordConflict(c)
  PROVE  CountInv'
<1>1. /\ log' = Append(log, c)
      /\ bySource' = [bySource EXCEPT ![c.source] = @ + 1]
  BY DEF RecordConflict
<1>2. /\ log \in Seq(Conflict) /\ bySource \in [Sources -> Nat]
      /\ c.source \in Sources /\ Len(log) \in Nat
  BY DEF TypeOK, Conflict
<1>3. /\ DOMAIN log = 1..Len(log) /\ DOMAIN log' = 1..(Len(log) + 1)
      /\ log'[Len(log) + 1] = c
      /\ \A i \in 1..Len(log) : log'[i] = log[i]
  BY <1>1, <1>2
<1> SUFFICES ASSUME NEW s \in Sources
             PROVE  bySource'[s] =
                      Cardinality({i \in DOMAIN log' : log'[i].source = s})
  BY DEF CountInv
<1> DEFINE old == {i \in DOMAIN log : log[i].source = s}
           new == {i \in DOMAIN log' : log'[i].source = s}
<1>4. IsFiniteSet(old) /\ Len(log) + 1 \notin old
  <2>1. IsFiniteSet(1..Len(log))
    BY <1>2, FS_Interval
  <2>2. old \subseteq 1..Len(log)
    BY <1>3
  <2> QED
    BY <1>2, <2>1, <2>2, FS_Subset
<1>5. bySource[s] = Cardinality(old)
  BY DEF CountInv
<1>6. CASE c.source = s
  <2>1. new = old \cup {Len(log) + 1}
    BY <1>2, <1>3, <1>6
  <2>2. Cardinality(new) = Cardinality(old) + 1
    BY <1>4, <2>1, FS_AddElement
  <2> QED
    BY <1>1, <1>2, <1>5, <1>6, <2>2
<1>7. CASE c.source # s
  <2>1. new = old
    BY <1>2, <1>3, <1>7
  <2> QED
    BY <1>1, <1>2, <1>5, <1>7, <2>1
<1> QED
  BY <1>6, <1>7

(* The conflict endpoint shows the newest records, oldest first, and the   *)
(* counters count all there ever were, for any size of the ring.           *)
THEOREM ConflictsCorrect == Spec => []ConflictsAreShown
<1> DEFINE Inv == RingInv /\ CountInv
<1>1. Init => Inv
  <2> SUFFICES ASSUME Init PROVE Inv
    OBVIOUS
  <2>1. /\ total = 0 /\ log = << >> /\ ring.size = 0 /\ ring.head = 0
        /\ bySource = [s \in Sources |-> 0]
    BY DEF Init
  <2>2. RingInv
    BY <2>1, StoreAssumption DEF RingInv
  <2>3. \A s \in Sources : {i \in DOMAIN log : log[i].source = s} = {}
    BY <2>1
  <2> QED
    BY <2>1, <2>2, <2>3, FS_EmptySet DEF CountInv
<1>2. TypeInv /\ Inv /\ [Next]_vars => Inv'
  <2> SUFFICES ASSUME TypeInv, Inv, [Next]_vars PROVE Inv'
    OBVIOUS
  <2>1. CASE UNCHANGED audit
    BY <2>1 DEF audit, RingInv, CountInv
  <2>2. ASSUME NEW c \in Conflict, RecordConflict(c) PROVE Inv'
    BY <2>2, RingStep, CountStep DEF TypeInv
  <2>3. CASE IngestObject /\ ~UNCHANGED audit
    <3> DEFINE e == batch.entries[batch.done + 1]
               c == [id |-> e.id, source |-> batch.source]
    <3>1. RecordConflict(c)
      BY <2>3 DEF IngestObject
    <3>2. /\ batch.done < Len(batch.entries) /\ batch # NoBatch
          /\ batch.entries \in Seq(Entry) /\ batch.done \in Nat
      BY <2>3 DEF IngestObject, TypeInv, BatchInv, BatchRecord, NoBatch
    <3>3. e \in Entry
      BY <3>2
    <3>4. c \in Conflict
      BY <3>2, <3>3 DEF TypeInv, BatchInv, Conflict, Entry
    <3> QED
      BY <2>2, <3>1, <3>4
  <2>4. CASE ~IngestObject
    <3>1. UNCHANGED audit
      BY <2>4 DEF Next, BeginBatch, Begins, EndBatch, Propagate, ApplyBurn,
                  vars, audit
    <3> QED
      BY <2>1, <3>1
  <2> QED
    BY <2>1, <2>3, <2>4
<1>3. TypeInv /\ Inv => ConflictsAreShown
  <2> SUFFICES ASSUME TypeInv, Inv PROVE ConflictsAreShown
    OBVIOUS
  <2>1. /\ total \in Nat /\ RingCap \in Nat /\ log \in Seq(Conflict)
        /\ ring.size \in Nat
    BY StoreAssumption DEF TypeInv, TypeOK
  <2> DEFINE n == IF total < RingCap THEN total ELSE RingCap
  <2>2. /\ ring.size = n /\ total = Len(log) /\ n \in Nat /\ n <= total
    BY <2>1 DEF RingInv
  <2> HIDE DEF n
  <2>3. Newest(n) = [k \in 1..n |-> log[total - n + k]]
    <3>1. Len(log) - (Len(log) - n + 1) + 1 = n
      BY <2>1, <2>2
    <3> DEFINE m == Len(log) - n + 1
    <3>2. /\ m \in Int /\ Len(log) \in Int /\ m >= 1
          /\ n > 0 => m <= Len(log)
          /\ n = 0 => m > Len(log)
      BY <2>1, <2>2
    <3>2x. \A i \in m..Len(log) : log[i] \in Conflict
      BY <2>1, <3>2
    <3> HIDE DEF m
    <3>2y. /\ SubSeq(log, m, Len(log)) \in Seq(Conflict)
           /\ Len(SubSeq(log, m, Len(log))) =
                IF m <= Len(log) THEN Len(log) - m + 1 ELSE 0
           /\ \A i \in 1..(Len(log) - m + 1) :
                SubSeq(log, m, Len(log))[i] = log[m + i - 1]
      BY <3>2, <3>2x, SubSeqProperties
    <3>3. /\ Newest(n) \in Seq(Conflict)
          /\ Len(Newest(n)) = n
          /\ \A k \in 1..n : Newest(n)[k] = log[Len(log) - n + 1 + k - 1]
      BY <2>1, <2>2, <3>1, <3>2, <3>2y DEF Newest, m
    <3>4. \A k \in 1..n : Len(log) - n + 1 + k - 1 = total - n + k
      BY <2>1, <2>2
    <3> QED
      BY <2>2, <3>3, <3>4
  <2>4. Snapshot = [k \in 1..n |-> log[total - n + k]]
    BY <2>2 DEF Snapshot, RingInv
  <2> QED
    BY <2>2, <2>3, <2>4 DEF ConflictsAreShown, CountInv, n
<1> QED
  BY <1>1, <1>2, <1>3, TypeInvHolds, PTL DEF Spec
=============================================================================
