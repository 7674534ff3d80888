------------------------------ MODULE BurnOps -------------------------------
(***************************************************************************)
(* The life of a maneuver inside the engine: burns are queued by an        *)
(* operator (POST /api/maneuver/schedule) or by the four planners of a     *)
(* simulation step (collision avoidance, station keeping, recovery,        *)
(* graveyard), their upload windows are revalidated, and the due ones are  *)
(* executed, all by the command worker holding the engine lock.            *)
(*                                                                         *)
(* A simulation step is a sequence of passes, in the order of              *)
(* execute_simulate_step; phase says which pass runs, and every iteration  *)
(* of a pass is one action. Nothing else can run while phase # "idle".     *)
(*                                                                         *)
(* Orbits are abstracted: what the physics decides (is a critical          *)
(* conjunction predicted, which impulse is best, is the satellite outside  *)
(* its slot box) is a nondeterministic choice; station visibility is the   *)
(* constant Contact; a delta-v is the fuel it costs. Epochs are integers,  *)
(* so the code's EPS_NUM margins vanish.                                   *)
(***************************************************************************)
EXTENDS Integers, Sequences, SequencesExt

CONSTANTS
  NumSats,        \* satellites 1..NumSats, in store order
  Contact,        \* Contact[s]: the epochs at which s sees a ground station
  Latency,        \* ops_signal_latency_s
  Cooldown,       \* SAT_COOLDOWN_S
  ScanStep,       \* ops_upload_scan_step_s
  Horizon,        \* ops_auto_upload_horizon_s
  FullTank,       \* SAT_INITIAL_FUEL_KG
  Eol,            \* SAT_FUEL_EOL_KG
  GraveyardCost,  \* propellant of ops_graveyard_target_dv_km_s
  Costs,          \* propellant of the other burns
  StepSizes,      \* step_seconds of the requests
  MaxEpoch        \* bound: no step ends, no order burns after this epoch

Sats == 1..NumSats

ASSUME OpsAssumption ==
  /\ NumSats \in Nat \ {0}
  /\ Contact \in [Sats -> SUBSET (Nat \ {0})]
  /\ Latency \in Nat \ {0} /\ Cooldown \in Nat \ {0}
  /\ Latency <= Cooldown
  /\ ScanStep \in Nat \ {0} /\ Horizon \in Nat
  /\ FullTank \in Nat /\ Eol \in Nat /\ Eol < FullTank
  /\ GraveyardCost \in Nat \ {0}
  /\ Costs \subseteq Nat \ {0}
  /\ StepSizes \subseteq Nat \ {0}
  /\ MaxEpoch \in Nat

VARIABLES
  clock,      \* clock_.epoch_s(); 0 until telemetry initialises it
  known,      \* satellites in the store
  status,     \* sat_status
  fuel,       \* fuel_kg
  pending,    \* burn_queue_ (in a loop over it: what the loop has retained)
  lastBurn,   \* last_burn_epoch_by_sat_; 0 is no entry
  request,    \* recovery_requests_by_sat_: earliest_epoch_s; NoRequest is no entry
  graveReq,   \* graveyard_requested_by_sat_
  graveDone,  \* graveyard_completed_by_sat_
  phase,      \* the pass of execute_simulate_step that runs
  sat,        \* the satellite the pass is at
  todo,       \* in a loop over the burn queue: the burns not yet visited
  before,     \* burns_before
  fired,      \* executed_captures: the burns this step really executed
  dropped,    \* dropped_burns_tick
  recorded,   \* what this step appends to executed_burn_history_
  newest,     \* history: newest[s] is the latest epoch s ever burned at
  owed        \* history: satellites an executed evasion moved off their slot

engine ==
  <<known, status, fuel, lastBurn, request, graveReq, graveDone, newest>>
fleet == <<engine, owed>>
tick == <<before, fired, dropped, recorded>>
loop == <<phase, sat, todo>>
vars == <<clock, fleet, pending, loop, tick>>

NoRequest == -1
Kinds == {"manual", "evasion", "recovery", "graveyard"}
Burn == [sat : Sats, kind : Kinds, epoch : Nat, upload : Nat, cost : Nat]

-----------------------------------------------------------------------------
Init ==
  /\ clock = 0
  /\ known = {}
  /\ status = [s \in Sats |-> "NOMINAL"]
  /\ fuel = [s \in Sats |-> FullTank]
  /\ pending = << >>
  /\ lastBurn = [s \in Sats |-> 0]
  /\ request = [s \in Sats |-> NoRequest]
  /\ graveReq = {}
  /\ graveDone = {}
  /\ phase = "idle"
  /\ sat = 1
  /\ todo = << >>
  /\ before = {}
  /\ fired = {}
  /\ dropped = {}
  /\ recorded = {}
  /\ newest = [s \in Sats |-> 0]
  /\ owed = {}

-----------------------------------------------------------------------------
(* Cooldown and upload checks.                                             *)

Apart(t, u) == IF t < u THEN u - t ELSE t - u
Later(t, u) == IF t < u THEN u ELSE t

\* The cooldown since the last executed burn of s has passed at epoch t.
Rested(s, t) == lastBurn[s] = 0 \/ t - lastBurn[s] >= Cooldown

HasPending(s) == \E i \in DOMAIN pending : pending[i].sat = s

NearPending(s, t) ==
  \E i \in DOMAIN pending :
    pending[i].sat = s /\ Apart(pending[i].epoch, t) < Cooldown

LastOf(epochs) == {t \in epochs : \A u \in epochs : u <= t}
FirstOf(epochs) == {t \in epochs : \A u \in epochs : t <= u}

\* The scan of find_latest_upload_slot_epoch: nothing when the last admissible
\* instant is not ahead of now; else from now in steps, and that instant itself
\* only when no sample had contact.
SlotsUntil(s, now, last) ==
  LET sampled == {t \in now..last : (t - now) % ScanStep = 0} \cap Contact[s]
  IN  IF last <= now THEN {}
      ELSE IF sampled # {} THEN LastOf(sampled)
      ELSE {last} \cap Contact[s]

\* Mutant: the signal latency is forgotten.
UploadSlotsNoLatency(s, now, epoch) == SlotsUntil(s, now, epoch)

\* At most one epoch: where a burn at epoch would be uploaded, seen from now.
UploadSlots(s, now, epoch) == SlotsUntil(s, now, epoch - Latency)

CanUpload(s, epoch) == UploadSlots(s, clock, epoch) # {}
UploadEpoch(s, epoch) == CHOOSE u \in UploadSlots(s, clock, epoch) : TRUE

NewBurn(s, kind, epoch, cost) ==
  [sat |-> s, kind |-> kind, epoch |-> epoch,
   upload |-> UploadEpoch(s, epoch), cost |-> cost]

CanSchedule(s, t) ==
  status[s] # "OFFLINE" /\ Rested(s, t) /\ ~NearPending(s, t)

\* The instants choose_burn_epoch_with_upload accepts; it returns the first.
BurnEpochs(s, from) ==
  LET start == Later(from, clock + Latency)
  IN  {t \in start..(from + Horizon) :
         /\ (t - start) % ScanStep = 0
         /\ CanSchedule(s, t)
         /\ CanUpload(s, t)}

-----------------------------------------------------------------------------
(* Commands between steps.                                                 *)

\* execute_ingest_telemetry for a satellite: the first batch sets the clock,
\* a new satellite gets a full tank, an empty one is reserved for graveyard.
IngestTelemetry(s) ==
  /\ phase = "idle"
  /\ clock' = IF clock = 0 THEN 1 ELSE clock
  /\ known' = known \cup {s}
  /\ graveReq' = IF fuel[s] <= Eol THEN graveReq \cup {s} ELSE graveReq
  /\ UNCHANGED <<status, fuel, lastBurn, request, graveDone, newest, owed,
                 pending, loop, tick>>

\* A sequence an operator may submit, after the handler has sorted it.
Orders ==
  LET Order == [epoch : 1..MaxEpoch, cost : Costs]
  IN  {<<o>> : o \in Order} \cup {<<o, p>> : o \in Order, p \in Order}

OrderCost(orders) == FoldLeft(LAMBDA sum, o : sum + o.cost, 0, orders)

\* Mutant: queued burns are not looked at.
OrdersRestedLastOnly(s, orders) ==
  /\ \A i \in 1..(Len(orders) - 1) :
       orders[i + 1].epoch - orders[i].epoch >= Cooldown
  /\ Rested(s, orders[1].epoch)

\* The cooldown inside a sequence, against the last burn (of its first burn
\* only) and against every queued burn of the satellite.
OrdersRested(s, orders) ==
  /\ \A i \in 1..(Len(orders) - 1) :
       orders[i + 1].epoch - orders[i].epoch >= Cooldown
  /\ Rested(s, orders[1].epoch)
  /\ \A i \in DOMAIN orders : ~NearPending(s, orders[i].epoch)

OrdersUploadable(s, orders) ==
  \A i \in DOMAIN orders :
    /\ orders[i].epoch > clock + Latency
    /\ CanUpload(s, orders[i].epoch)

\* execute_schedule_maneuver, accepted: all burns are queued, the recovery
\* request is forgotten. A refusal changes nothing.
ScheduleManeuver(s, orders) ==
  /\ phase = "idle"
  /\ s \in known
  /\ status[s] # "OFFLINE"
  /\ s \notin graveReq
  /\ OrdersUploadable(s, orders)
  /\ OrdersRested(s, orders)
  /\ fuel[s] - OrderCost(orders) > Eol
  /\ pending' = pending \o
       [i \in DOMAIN orders |->
          NewBurn(s, "manual", orders[i].epoch, orders[i].cost)]
  /\ request' = [request EXCEPT ![s] = NoRequest]
  /\ owed' = owed \ {s}
  /\ UNCHANGED <<clock, known, status, fuel, lastBurn, graveReq, graveDone,
                 newest, loop, tick>>

-----------------------------------------------------------------------------
(* A simulation step: the clock, then the passes.                          *)

BeginStep(dt) ==
  /\ phase = "idle"
  /\ clock > 0
  /\ clock + dt <= MaxEpoch
  /\ clock' = clock + dt
  /\ phase' = "cola"
  /\ sat' = 1
  /\ UNCHANGED <<fleet, pending, todo, tick>>

\* A pass over the satellites is at satellite s.
Visits(pass, s) ==
  /\ phase = pass
  /\ sat = s
  /\ sat' = s + 1
  /\ UNCHANGED <<clock, phase, todo, tick>>

\* The EOL fuel guard of the three planners.
Reserve(s) ==
  /\ status' = [status EXCEPT ![s] = "FUEL_LOW"]
  /\ graveReq' = graveReq \cup {s}

(* plan_collision_avoidance_burns                                          *)

ColaEligible(s) ==
  /\ s \in known
  /\ status[s] # "OFFLINE"
  /\ s \notin graveReq \cup graveDone
  /\ Rested(s, clock)
  /\ ~NearPending(s, clock)

\* build_auto_cola_plan, without its scores: four fractions of the time between
\* the latency (the cooldown has passed) and a bound set by the horizon and the
\* trigger's TCA, over all triggers any epoch up to the horizon; then the best
\* of a set of impulses.
ColaPlans(s) ==
  [epoch : {t \in (clock + Latency)..(clock + Latency + Horizon) :
              CanUpload(s, t) /\ ~NearPending(s, t)},
   cost : Costs]

PlanCola(s) ==
  /\ Visits("cola", s)
  /\ ColaEligible(s)
  /\ \E plan \in ColaPlans(s) :
       IF fuel[s] - plan.cost <= Eol
       THEN Reserve(s) /\ UNCHANGED pending
       ELSE /\ pending' =
                 Append(pending, NewBurn(s, "evasion", plan.epoch, plan.cost))
            /\ UNCHANGED <<status, graveReq>>
  /\ UNCHANGED <<known, fuel, lastBurn, request, graveDone, newest, owed>>

\* No critical conjunction for s, not eligible, or no acceptable impulse.
NoCola(s) ==
  /\ Visits("cola", s)
  /\ UNCHANGED <<fleet, pending>>

(* validate_pending_upload_windows                                         *)

BeginUploads ==
  /\ phase = "cola"
  /\ sat > NumSats
  /\ phase' = "uploads"
  /\ todo' = pending
  /\ pending' = << >>
  /\ UNCHANGED <<clock, fleet, sat, tick>>

\* Mutant: a window is looked for, and the old one kept.
ValidateKeepsUpload ==
  /\ phase = "uploads"
  /\ todo # << >>
  /\ todo' = Tail(todo)
  /\ LET b == Head(todo) IN
       IF b.epoch <= clock \/ (b.upload > 0 /\ CanUpload(b.sat, b.epoch))
       THEN pending' = Append(pending, b) /\ UNCHANGED dropped
       ELSE dropped' = dropped \cup {b} /\ UNCHANGED pending
  /\ UNCHANGED <<clock, fleet, phase, sat, before, fired, recorded>>

\* A burn that is not due is planned again from now, or dropped.
ValidateBurn ==
  /\ phase = "uploads"
  /\ todo # << >>
  /\ todo' = Tail(todo)
  /\ LET b == Head(todo) IN
       IF b.epoch <= clock
       THEN pending' = Append(pending, b) /\ UNCHANGED dropped
       ELSE IF b.upload > 0 /\ CanUpload(b.sat, b.epoch)
       THEN /\ pending' =
                 Append(pending, [b EXCEPT !.upload = UploadEpoch(b.sat, b.epoch)])
            /\ UNCHANGED dropped
       ELSE dropped' = dropped \cup {b} /\ UNCHANGED pending
  /\ UNCHANGED <<clock, fleet, phase, sat, before, fired, recorded>>

(* enforce_stationkeeping_recovery and plan_recovery_burns                 *)

\* What the solvers make of the distance to the slot: an impulse, or a null one.
Corrections == Costs \cup {0}

\* Mutant: a request that finds no burn epoch is not kept for the next step.
CorrectForgetful(s, req, cost) ==
  LET epochs == BurnEpochs(s, Later(clock + Cooldown, req)) IN
    IF fuel[s] - cost <= Eol
    THEN /\ Reserve(s)
         /\ request' = [request EXCEPT ![s] = req]
         /\ UNCHANGED pending
    ELSE IF epochs = {}
    THEN /\ request' = [request EXCEPT ![s] = NoRequest]
         /\ UNCHANGED <<status, graveReq, pending>>
    ELSE \E epoch \in FirstOf(epochs) :
         \E left \in {NoRequest, epoch + Cooldown} :
           /\ pending' = Append(pending, NewBurn(s, "recovery", epoch, cost))
           /\ request' = [request EXCEPT ![s] = left]
           /\ UNCHANGED <<status, graveReq>>

\* The common end of both planners: fuel guard, choice of the epoch, push,
\* and what is left of the request (the planned delta-v is subtracted now).
Correct(s, req, cost) ==
  LET epochs == BurnEpochs(s, Later(clock + Cooldown, req)) IN
    IF fuel[s] - cost <= Eol
    THEN /\ Reserve(s)
         /\ request' = [request EXCEPT ![s] = req]
         /\ UNCHANGED pending
    ELSE IF epochs = {}
    THEN /\ request' = [request EXCEPT ![s] = req]
         /\ UNCHANGED <<status, graveReq, pending>>
    ELSE \E epoch \in FirstOf(epochs) :
         \E left \in {NoRequest, epoch + Cooldown} :
           /\ pending' = Append(pending, NewBurn(s, "recovery", epoch, cost))
           /\ request' = [request EXCEPT ![s] = left]
           /\ UNCHANGED <<status, graveReq>>

BeginStation ==
  /\ phase = "uploads"
  /\ todo = << >>
  /\ phase' = "station"
  /\ sat' = 1
  /\ UNCHANGED <<clock, fleet, pending, todo, tick>>

StationEligible(s) ==
  /\ s \in known
  /\ status[s] # "OFFLINE"
  /\ s \notin graveReq \cup graveDone
  /\ ~HasPending(s)
  /\ Rested(s, clock)

\* Outside the slot box: a request is opened, and served unless the
\* computed correction is null.
KeepStation(s) ==
  /\ Visits("station", s)
  /\ StationEligible(s)
  /\ LET req == Later(request[s], clock) IN
       \E cost \in Corrections :
         \/ cost > 0 /\ Correct(s, req, cost)
         \/ /\ cost = 0
            /\ request' = [request EXCEPT ![s] = req]
            /\ UNCHANGED <<status, graveReq, pending>>
  /\ UNCHANGED <<known, fuel, lastBurn, graveDone, newest, owed>>

\* Inside the box, no slot reference, or not eligible.
InSlot(s) ==
  /\ Visits("station", s)
  /\ UNCHANGED <<fleet, pending>>

(* execute_due_maneuvers                                                   *)

BeginExecute ==
  /\ phase = "station"
  /\ sat > NumSats
  /\ phase' = "execute"
  /\ before' = ToSet(pending)
  /\ todo' = pending
  /\ pending' = << >>
  /\ UNCHANGED <<clock, fleet, sat, fired, dropped, recorded>>

UploadReady(b) ==
  b.upload > 0 /\ b.upload <= b.epoch - Latency /\ b.upload <= clock

\* Mutant: only a recovery burn erases the request.
RequestAfterAnyAuto(b) ==
  CASE b.kind = "manual" -> request[b.sat]
    [] b.kind = "recovery" -> NoRequest
    [] OTHER -> Later(request[b.sat], b.epoch + Cooldown)

\* accumulate_recovery_request, or its erasure.
RequestAfter(b) ==
  LET earliest == b.epoch + Cooldown IN
    CASE b.kind = "manual" -> request[b.sat]
      [] b.kind = "evasion" ->
           IF request[b.sat] < clock THEN earliest
           ELSE Later(request[b.sat], earliest)
      [] OTHER -> NoRequest

Fire(b) ==
  /\ fired' = fired \cup {b}
  /\ fuel' = [fuel EXCEPT ![b.sat] = @ - b.cost]
  /\ lastBurn' = [lastBurn EXCEPT ![b.sat] = b.epoch]
  /\ newest' = [newest EXCEPT ![b.sat] = Later(@, b.epoch)]
  /\ request' = [request EXCEPT ![b.sat] = RequestAfter(b)]
  /\ owed' = CASE b.kind = "manual" -> owed
              [] b.kind = "evasion" -> owed \cup {b.sat}
              [] OTHER -> owed \ {b.sat}
  /\ graveReq' = IF b.kind \in {"recovery", "graveyard"}
                 THEN graveReq \ {b.sat} ELSE graveReq
  /\ graveDone' = IF b.kind = "graveyard"
                  THEN graveDone \cup {b.sat} ELSE graveDone
  /\ status' = [status EXCEPT ![b.sat] =
       IF b.kind = "graveyard" THEN "OFFLINE"
       ELSE IF fuel'[b.sat] <= Eol \/ b.sat \in graveReq' THEN "FUEL_LOW"
       ELSE "MANEUVERING"]
  /\ UNCHANGED <<known, dropped, pending>>

\* Mutant: the tank is not looked at.
ExecuteUnfuelled ==
  /\ phase = "execute"
  /\ todo # << >>
  /\ todo' = Tail(todo)
  /\ LET b == Head(todo) IN
       IF b.epoch > clock
       THEN /\ pending' = Append(pending, b)
            /\ UNCHANGED <<fleet, fired, dropped>>
       ELSE IF ~UploadReady(b)
       THEN dropped' = dropped \cup {b} /\ UNCHANGED <<fleet, fired, pending>>
       ELSE Fire(b)
  /\ UNCHANGED <<clock, phase, sat, before, recorded>>

\* A due burn is dropped when it was not uploaded in time, forgotten when the
\* tank does not hold its propellant, and executed otherwise.
ExecuteBurn ==
  /\ phase = "execute"
  /\ todo # << >>
  /\ todo' = Tail(todo)
  /\ LET b == Head(todo) IN
       IF b.epoch > clock
       THEN /\ pending' = Append(pending, b)
            /\ UNCHANGED <<fleet, fired, dropped>>
       ELSE IF ~UploadReady(b)
       THEN dropped' = dropped \cup {b} /\ UNCHANGED <<fleet, fired, pending>>
       ELSE IF b.cost > fuel[b.sat]
       THEN UNCHANGED <<fleet, fired, dropped, pending>>
       ELSE Fire(b)
  /\ UNCHANGED <<clock, phase, sat, before, recorded>>

\* What goes to the executed history, once something was executed: the burns
\* of the snapshot that are no longer queued.
RecordExecuted ==
  /\ phase = "execute"
  /\ todo = << >>
  /\ phase' = "recovery"
  /\ sat' = 1
  /\ recorded' = IF fired = {} THEN {} ELSE before \ ToSet(pending)
  /\ UNCHANGED <<clock, fleet, pending, todo, before, fired, dropped>>

RecoveryReady(s) ==
  /\ request[s] # NoRequest
  /\ request[s] <= clock
  /\ s \notin graveReq
  /\ ~HasPending(s)
  /\ Rested(s, clock)

\* The request is served, or erased when the correction is null.
Recover(s) ==
  /\ Visits("recovery", s)
  /\ RecoveryReady(s)
  /\ \E cost \in Corrections :
       \/ /\ cost > 0
          /\ Correct(s, request[s], cost)
          /\ UNCHANGED owed
       \/ /\ cost = 0
          /\ request' = [request EXCEPT ![s] = NoRequest]
          /\ owed' = owed \ {s}
          /\ UNCHANGED <<status, graveReq, pending>>
  /\ UNCHANGED <<known, fuel, lastBurn, graveDone, newest>>

DeferRecovery(s) ==
  /\ Visits("recovery", s)
  /\ ~RecoveryReady(s)
  /\ UNCHANGED <<fleet, pending>>

(* plan_graveyard_burns                                                    *)

BeginGraveyard ==
  /\ phase = "recovery"
  /\ sat > NumSats
  /\ phase' = "graveyard"
  /\ sat' = 1
  /\ UNCHANGED <<clock, fleet, pending, todo, tick>>

GraveyardDue(s) ==
  s \in known /\ status[s] # "OFFLINE" /\ s \notin graveDone /\ fuel[s] <= Eol

\* The transfer burns one cooldown from now, if it can be uploaded by then.
QueueGraveyard(s) ==
  IF fuel[s] < GraveyardCost
  THEN status' = [status EXCEPT ![s] = "FUEL_LOW"] /\ UNCHANGED pending
  ELSE /\ pending' =
            IF CanUpload(s, clock + Cooldown)
            THEN Append(pending, NewBurn(s, "graveyard", clock + Cooldown,
                                         GraveyardCost))
            ELSE pending
       /\ UNCHANGED status

\* Mutant: only burns near now defer the transfer.
PlanGraveyardNearOnly(s) ==
  /\ Visits("graveyard", s)
  /\ GraveyardDue(s)
  /\ graveReq' = graveReq \cup {s}
  /\ IF NearPending(s, clock) THEN UNCHANGED <<status, pending>>
     ELSE QueueGraveyard(s)
  /\ UNCHANGED <<known, fuel, lastBurn, request, graveDone, newest, owed>>

\* Mutant: a satellite is reserved when its transfer is considered, no earlier.
PlanGraveyardReservesLate(s) ==
  /\ Visits("graveyard", s)
  /\ GraveyardDue(s)
  /\ IF HasPending(s) THEN UNCHANGED <<status, graveReq, pending>>
     ELSE QueueGraveyard(s) /\ graveReq' = graveReq \cup {s}
  /\ UNCHANGED <<known, fuel, lastBurn, request, graveDone, newest, owed>>

\* Reserved at once; the transfer waits until no burn is queued.
PlanGraveyard(s) ==
  /\ Visits("graveyard", s)
  /\ GraveyardDue(s)
  /\ graveReq' = graveReq \cup {s}
  /\ IF HasPending(s) THEN UNCHANGED <<status, pending>>
     ELSE QueueGraveyard(s)
  /\ UNCHANGED <<known, fuel, lastBurn, request, graveDone, newest, owed>>

NoGraveyard(s) ==
  /\ Visits("graveyard", s)
  /\ ~GraveyardDue(s)
  /\ UNCHANGED <<fleet, pending>>

\* Burns this step has dropped, or forgotten for want of propellant.
Lost == dropped \cup (before \ (fired \cup ToSet(pending)))

EndStep ==
  /\ phase = "graveyard"
  /\ sat > NumSats
  /\ phase' = "idle"
  /\ sat' = 1
  /\ owed' = owed \ {b.sat : b \in {c \in Lost : c.kind = "recovery"}}
  /\ before' = {} /\ fired' = {} /\ dropped' = {} /\ recorded' = {}
  /\ UNCHANGED <<clock, engine, pending, todo>>

-----------------------------------------------------------------------------
Commands ==
  \/ \E s \in Sats : IngestTelemetry(s)
  \/ \E s \in Sats, orders \in Orders : ScheduleManeuver(s, orders)
  \/ \E dt \in StepSizes : BeginStep(dt)

SatPass(s) ==
  \/ PlanCola(s) \/ NoCola(s) \/ KeepStation(s) \/ InSlot(s)
  \/ Recover(s) \/ DeferRecovery(s) \/ PlanGraveyard(s) \/ NoGraveyard(s)

QueuePass ==
  \/ BeginUploads \/ ValidateBurn \/ BeginStation \/ BeginExecute
  \/ ExecuteBurn \/ RecordExecuted \/ BeginGraveyard \/ EndStep

Next == Commands \/ (\E s \in Sats : SatPass(s)) \/ QueuePass

Spec == Init /\ [][Next]_vars

-----------------------------------------------------------------------------
(* Properties.                                                             *)

Phases == {"idle", "cola", "uploads", "station", "execute", "recovery",
           "graveyard"}
Statuses == {"NOMINAL", "MANEUVERING", "FUEL_LOW", "OFFLINE"}

\* Every variable has its type; fuel never goes negative.
TypeOK ==
  /\ clock \in Nat
  /\ known \subseteq Sats
  /\ status \in [Sats -> Statuses]
  /\ fuel \in [Sats -> Nat]
  /\ pending \in Seq(Burn)
  /\ lastBurn \in [Sats -> Nat]
  /\ request \in [Sats -> Nat \cup {NoRequest}]
  /\ graveReq \subseteq Sats
  /\ graveDone \subseteq Sats
  /\ phase \in Phases
  /\ sat \in 1..(NumSats + 1)
  /\ todo \in Seq(Burn)
  /\ before \subseteq Burn /\ fired \subseteq Burn
  /\ dropped \subseteq Burn /\ recorded \subseteq Burn
  /\ newest \in [Sats -> Nat]
  /\ owed \subseteq Sats

\* Between commands, the queued burns of a satellite are a cooldown apart from
\* each other and from the last burn the engine remembers, whichever of the
\* operator and the four planners queued them, in whatever order.
QueueKeepsCooldown ==
  phase = "idle" =>
    /\ \A i, j \in DOMAIN pending :
         i # j /\ pending[i].sat = pending[j].sat =>
           Apart(pending[i].epoch, pending[j].epoch) >= Cooldown
    /\ \A i \in DOMAIN pending : Rested(pending[i].sat, pending[i].epoch)

\* Between commands, every queued burn still has its upload ahead of it (or at
\* this very epoch), at an instant of contact and a latency before the burn.
UploadsAreAhead ==
  phase = "idle" =>
    \A i \in DOMAIN pending :
      LET b == pending[i] IN
        /\ clock <= b.upload /\ b.upload + Latency <= b.epoch
        /\ b.upload \in Contact[b.sat]

\* A burn that comes due inside a step was uploaded in time, through contact:
\* the upload_missed branch of the executor is a safety net nothing reaches.
DueBurnsAreUploaded ==
  phase = "execute" =>
    \A i \in DOMAIN todo :
      todo[i].epoch <= clock =>
        UploadReady(todo[i]) /\ todo[i].upload \in Contact[todo[i].sat]

\* A graveyard burn is alone: its satellite is reserved, has no other burn
\* queued and is not retired yet.
GraveyardIsAlone ==
  phase = "idle" =>
    \A i \in DOMAIN pending : pending[i].kind = "graveyard" =>
      /\ pending[i].sat \in graveReq \ graveDone
      /\ \A j \in DOMAIN pending : pending[j].sat = pending[i].sat => j = i

\* A retired satellite is out of every loop: no burn is queued for it, and no
\* recovery is owed to it.
OfflineIsFinal ==
  \A s \in Sats :
    /\ status[s] = "OFFLINE" <=> s \in graveDone
    /\ s \in graveDone /\ phase = "idle" => ~HasPending(s) /\ request[s] = NoRequest

\* Between commands, a satellite at or below the end-of-life fuel is reserved
\* for its graveyard transfer or has made it: no operator can use it.
EolIsReserved ==
  phase = "idle" =>
    \A s \in known : fuel[s] <= Eol => s \in graveReq \cup graveDone

\* An evasion that was executed is not forgotten: its satellite has a recovery
\* request or a recovery burn in the queue until a recovery burn leaves the queue
\* (executed, dropped or skipped), an operator takes over, the satellite is
\* found to need no correction, or it retires. Station keeping, the fuel guards,
\* the graveyard reservation and later evasions only defer it.
EvasionsAreOwed ==
  phase = "idle" =>
    \A s \in owed :
      \/ request[s] # NoRequest
      \/ \E i \in DOMAIN pending :
           pending[i].sat = s /\ pending[i].kind = "recovery"

(* Claims of the repository that the code does not keep.                   *)

\* The 600 s rest holds between any two burns a satellite executes.
BurnsKeepCooldown ==
  [][\A s \in Sats :
       newest'[s] # newest[s] /\ newest[s] # 0 =>
         newest'[s] - newest[s] >= Cooldown]_vars

\* A burn that was uploaded executes at its time, whatever the contact then:
\* it is not dropped for want of a window.
UploadedBurnsAreKept == \A b \in dropped : b.upload > clock

\* A satellite reserved for graveyard transfer is at the end of its fuel.
ReservedMeansEol ==
  phase = "idle" => \A s \in graveReq : fuel[s] <= Eol

\* A burn in the executed history was executed.
RecordedWereExecuted == recorded \subseteq fired
=============================================================================
