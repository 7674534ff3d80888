--------------------------- MODULE BurnOps_proofs ---------------------------
(***************************************************************************)
(* Proofs about BurnOps, for any fleet, timetable, costs and horizons: the *)
(* queue keeps the cooldown and its uploads, the graveyard transfer is     *)
(* alone and final, reserves are respected, and evasions stay owed.        *)
(***************************************************************************)
EXTENDS BurnOps, SequenceTheorems, TLAPS

-----------------------------------------------------------------------------
(* The queue, as two sequences: in a loop, what it has retained (p) and    *)
(* what it has not visited (q).                                            *)

SpacedIn(p, q) ==
  /\ \A i, j \in DOMAIN p :
       i # j /\ p[i].sat = p[j].sat => Apart(p[i].epoch, p[j].epoch) >= Cooldown
  /\ \A i, j \in DOMAIN q :
       i # j /\ q[i].sat = q[j].sat => Apart(q[i].epoch, q[j].epoch) >= Cooldown
  /\ \A i \in DOMAIN p, j \in DOMAIN q :
       p[i].sat = q[j].sat => Apart(p[i].epoch, q[j].epoch) >= Cooldown

(* A burn may join burns it keeps the cooldown to.                         *)
Fits(n, p) ==
  \A i \in DOMAIN p :
    p[i].sat = n.sat => Apart(p[i].epoch, n.epoch) >= Cooldown

LEMMA ApartSymmetric ==
  ASSUME NEW b \in Burn, NEW c \in Burn
  PROVE  Apart(b.epoch, c.epoch) = Apart(c.epoch, b.epoch)
BY DEF Apart, Burn

(* A fitting burn at the end of the queue keeps it spaced.                 *)
LEMMA AppendSpaced ==
  ASSUME NEW p \in Seq(Burn), NEW n \in Burn, SpacedIn(p, << >>), Fits(n, p)
  PROVE  /\ Append(p, n) \in Seq(Burn)
         /\ SpacedIn(Append(p, n), << >>)
         /\ ToSet(Append(p, n)) = ToSet(p) \cup {n}
<1> DEFINE r == Append(p, n)
<1>1. /\ r \in Seq(Burn)
      /\ Len(p) \in Nat /\ DOMAIN p = 1..Len(p) /\ DOMAIN r = 1..(Len(p) + 1)
      /\ r[Len(p) + 1] = n
      /\ \A i \in 1..Len(p) : r[i] = p[i]
  OBVIOUS
<1>2. ToSet(r) = ToSet(p) \cup {n}
  BY <1>1 DEF ToSet
<1>3. ASSUME NEW i \in DOMAIN r, NEW j \in DOMAIN r, i # j, r[i].sat = r[j].sat
      PROVE  Apart(r[i].epoch, r[j].epoch) >= Cooldown
  <2>1. /\ i \in DOMAIN p \/ i = Len(p) + 1
        /\ j \in DOMAIN p \/ j = Len(p) + 1
    BY <1>1
  <2>2. CASE i \in DOMAIN p /\ j \in DOMAIN p
    BY <1>1, <1>3, <2>2 DEF SpacedIn
  <2>3. CASE i \in DOMAIN p /\ j = Len(p) + 1
    BY <1>1, <1>3, <2>3 DEF Fits
  <2>4. CASE i = Len(p) + 1 /\ j \in DOMAIN p
    <3>1. Apart(p[j].epoch, n.epoch) >= Cooldown
      BY <1>1, <1>3, <2>4 DEF Fits
    <3>2. p[j] \in Burn
      BY <1>1, <2>4
    <3>3. Apart(n.epoch, p[j].epoch) = Apart(p[j].epoch, n.epoch)
      BY <3>2, ApartSymmetric
    <3> QED
      BY <1>1, <2>4, <3>1, <3>3
  <2> QED
    BY <1>3, <2>1, <2>2, <2>3, <2>4
<1>4. DOMAIN << >> = {}
  OBVIOUS
<1> QED
  BY <1>1, <1>2, <1>3, <1>4 DEF SpacedIn

(* A loop starts: everything is unvisited.                                 *)
LEMMA StartSpaced ==
  ASSUME NEW p \in Seq(Burn), SpacedIn(p, << >>)
  PROVE  SpacedIn(<< >>, p) /\ ToSet(<< >>) = {}
BY DEF SpacedIn, ToSet

(* The parts of a queue whose loop is at h.                                *)
LEMMA HeadApart ==
  ASSUME NEW p \in Seq(Burn), NEW q \in Seq(Burn), q # << >>, SpacedIn(p, q)
  PROVE  /\ Head(q) \in Burn /\ Tail(q) \in Seq(Burn)
         /\ ToSet(q) = {Head(q)} \cup ToSet(Tail(q))
         /\ SpacedIn(p, Tail(q))
         /\ Fits(Head(q), p)
         /\ Fits(Head(q), Tail(q))
<1> DEFINE h == Head(q)
           t == Tail(q)
<1>1. /\ Len(q) \in Nat /\ Len(q) > 0 /\ DOMAIN q = 1..Len(q)
      /\ h = q[1] /\ h \in Burn /\ 1 \in DOMAIN q
      /\ t \in Seq(Burn) /\ DOMAIN t = 1..(Len(q) - 1)
      /\ \A i \in DOMAIN t : t[i] = q[i + 1] /\ i + 1 \in DOMAIN q
  OBVIOUS
<1>2. ToSet(q) = {h} \cup ToSet(t)
  <2>1. ASSUME NEW i \in DOMAIN q, i # 1
        PROVE  i - 1 \in DOMAIN t /\ t[i - 1] = q[i]
    BY <1>1, <2>1
  <2>2. ToSet(q) \subseteq {h} \cup ToSet(t)
    BY <1>1, <2>1 DEF ToSet
  <2>3. {h} \cup ToSet(t) \subseteq ToSet(q)
    BY <1>1 DEF ToSet
  <2> QED
    BY <2>2, <2>3
<1>3. SpacedIn(p, t)
  BY <1>1 DEF SpacedIn
<1>4. Fits(h, p)
  BY <1>1 DEF SpacedIn, Fits
<1>5. Fits(h, t)
  <2>1. ASSUME NEW i \in DOMAIN t, t[i].sat = h.sat
        PROVE  Apart(t[i].epoch, h.epoch) >= Cooldown
    <3>1. i + 1 \in DOMAIN q /\ i + 1 # 1 /\ t[i] = q[i + 1] /\ h = q[1]
      BY <1>1
    <3> QED
      BY <1>1, <2>1, <3>1 DEF SpacedIn
  <2> QED
    BY <2>1 DEF Fits
<1> QED
  BY <1>1, <1>2, <1>3, <1>4, <1>5

(* The loop retains the burn it is at, perhaps with another upload.        *)
LEMMA KeepSpaced ==
  ASSUME NEW p \in Seq(Burn), NEW q \in Seq(Burn), q # << >>, SpacedIn(p, q),
         NEW n \in Burn, n.sat = Head(q).sat, n.epoch = Head(q).epoch
  PROVE  /\ Append(p, n) \in Seq(Burn)
         /\ SpacedIn(Append(p, n), Tail(q))
         /\ ToSet(Append(p, n)) = ToSet(p) \cup {n}
<1> DEFINE r == Append(p, n)
           t == Tail(q)
<1>1. /\ SpacedIn(p, t) /\ Fits(n, p) /\ Fits(n, t) /\ t \in Seq(Burn)
  BY HeadApart DEF Fits
<1>2. SpacedIn(p, << >>)
  BY <1>1 DEF SpacedIn
<1>3. /\ r \in Seq(Burn) /\ SpacedIn(r, << >>) /\ ToSet(r) = ToSet(p) \cup {n}
  BY <1>1, <1>2, AppendSpaced
<1>4. ASSUME NEW i \in DOMAIN r, NEW j \in DOMAIN t, r[i].sat = t[j].sat
      PROVE  Apart(r[i].epoch, t[j].epoch) >= Cooldown
  <2>1. (i \in DOMAIN p /\ r[i] = p[i]) \/ r[i] = n
    OBVIOUS
  <2>2. CASE i \in DOMAIN p /\ r[i] = p[i]
    BY <1>1, <1>4, <2>2 DEF SpacedIn
  <2>3. CASE r[i] = n
    <3>1. Apart(t[j].epoch, n.epoch) >= Cooldown
      BY <1>1, <1>4, <2>3 DEF Fits
    <3>2. t[j] \in Burn
      BY <1>1
    <3>3. Apart(n.epoch, t[j].epoch) = Apart(t[j].epoch, n.epoch)
      BY <3>2, ApartSymmetric
    <3> QED
      BY <2>3, <3>1, <3>3
  <2> QED
    BY <2>1, <2>2, <2>3
<1> QED
  BY <1>1, <1>3, <1>4 DEF SpacedIn

(* The loop drops the burn it is at: no other queued burn is that one.     *)
LEMMA FitsApart ==
  ASSUME NEW p \in Seq(Burn), NEW n \in Burn, Fits(n, p)
  PROVE  /\ n \notin ToSet(p)
         /\ \A c \in ToSet(p) : c.sat = n.sat => Apart(c.epoch, n.epoch) >= Cooldown
<1>1. Len(p) \in Nat /\ DOMAIN p = 1..Len(p) /\ \A i \in DOMAIN p : p[i] \in Burn
  OBVIOUS
<1>2. n.epoch \in Nat /\ Cooldown \in Nat /\ Cooldown > 0
  BY OpsAssumption DEF Burn
<1>3. Apart(n.epoch, n.epoch) = 0
  BY <1>2 DEF Apart
<1>4. \A c \in ToSet(p) : c.sat = n.sat => Apart(c.epoch, n.epoch) >= Cooldown
  BY DEF Fits, ToSet
<1>5. n \notin ToSet(p)
  BY <1>2, <1>3, <1>4
<1> QED
  BY <1>4, <1>5

(* Fitting sequences can be concatenated.                                  *)
LEMMA ConcatSpaced ==
  ASSUME NEW p \in Seq(Burn), NEW r \in Seq(Burn),
         SpacedIn(p, << >>), SpacedIn(r, << >>), \A i \in DOMAIN r : Fits(r[i], p)
  PROVE  /\ p \o r \in Seq(Burn)
         /\ SpacedIn(p \o r, << >>)
         /\ ToSet(p \o r) = ToSet(p) \cup ToSet(r)
<1> DEFINE c == p \o r
<1>1. /\ c \in Seq(Burn) /\ Len(p) \in Nat /\ Len(r) \in Nat
      /\ DOMAIN p = 1..Len(p) /\ DOMAIN r = 1..Len(r)
      /\ DOMAIN c = 1..(Len(p) + Len(r))
      /\ \A i \in DOMAIN p : c[i] = p[i] /\ i \in DOMAIN c
      /\ \A i \in DOMAIN c : i \notin DOMAIN p =>
           i - Len(p) \in DOMAIN r /\ c[i] = r[i - Len(p)]
      /\ \A i \in DOMAIN r : c[Len(p) + i] = r[i] /\ Len(p) + i \in DOMAIN c
  BY ConcatProperties
<1>2. ToSet(c) = ToSet(p) \cup ToSet(r)
  <2>1. ASSUME NEW i \in DOMAIN c
        PROVE  c[i] \in ToSet(p) \cup ToSet(r)
    <3>1. CASE i \in DOMAIN p
      BY <1>1, <3>1 DEF ToSet
    <3>2. CASE i \notin DOMAIN p
      BY <1>1, <3>2 DEF ToSet
    <3> QED
      BY <3>1, <3>2
  <2>2. ToSet(p) \subseteq ToSet(c)
    BY <1>1 DEF ToSet
  <2>3. ASSUME NEW i \in DOMAIN r
        PROVE  r[i] \in ToSet(c)
    <3>1. Len(p) + i \in DOMAIN c /\ c[Len(p) + i] = r[i]
      BY <1>1
    <3> QED
      BY <3>1 DEF ToSet
  <2>4. /\ ToSet(c) \subseteq ToSet(p) \cup ToSet(r)
        /\ ToSet(r) \subseteq ToSet(c)
    BY <2>1, <2>3 DEF ToSet
  <2> QED
    BY <2>2, <2>4
<1>3. ASSUME NEW i \in DOMAIN c, NEW j \in DOMAIN c, i # j, c[i].sat = c[j].sat
      PROVE  Apart(c[i].epoch, c[j].epoch) >= Cooldown
  <2>1. CASE i \in DOMAIN p /\ j \in DOMAIN p
    BY <1>1, <1>3, <2>1 DEF SpacedIn
  <2>2. CASE i \notin DOMAIN p /\ j \notin DOMAIN p
    <3>1. i - Len(p) # j - Len(p)
      BY <1>1, <1>3
    <3> QED
      BY <1>1, <1>3, <2>2, <3>1 DEF SpacedIn
  <2>3. CASE i \in DOMAIN p /\ j \notin DOMAIN p
    BY <1>1, <1>3, <2>3 DEF Fits
  <2>4. CASE i \notin DOMAIN p /\ j \in DOMAIN p
    <3>1. Apart(c[j].epoch, c[i].epoch) >= Cooldown
      BY <1>1, <1>3, <2>4 DEF Fits
    <3>2. c[i] \in Burn /\ c[j] \in Burn
      BY <1>1
    <3>3. Apart(c[i].epoch, c[j].epoch) = Apart(c[j].epoch, c[i].epoch)
      BY <3>2, ApartSymmetric
    <3> QED
      BY <3>1, <3>3
  <2> QED
    BY <2>1, <2>2, <2>3, <2>4
<1>4. DOMAIN << >> = {}
  OBVIOUS
<1> QED
  BY <1>1, <1>2, <1>3, <1>4 DEF SpacedIn

-----------------------------------------------------------------------------
(* What a planner pushes.                                                  *)

(* No satellite burned after the clock.                                    *)
PastInv == \A s \in Sats : lastBurn[s] <= clock
TypeInv == TypeOK /\ PastInv

(* The upload of b is in contact and a latency before the burn.            *)
Uploaded(b) == b.upload \in Contact[b.sat] /\ b.upload + Latency <= b.epoch

(* The upload chosen for an epoch is ahead of the clock and in time.       *)
LEMMA UploadInTime ==
  ASSUME TypeOK, NEW s \in Sats, NEW t \in Nat, CanUpload(s, t)
  PROVE  LET u == UploadEpoch(s, t) IN
           /\ u \in Nat /\ u > 0 /\ u \in Contact[s]
           /\ clock <= u /\ u + Latency <= t
<1> USE OpsAssumption
<1> DEFINE u == UploadEpoch(s, t)
<1>1. u \in SlotsUntil(s, clock, t - Latency)
  BY DEF CanUpload, UploadEpoch, UploadSlots
<1>2. /\ u \in Contact[s]
      /\ u \in clock..(t - Latency) \/ (u = t - Latency /\ clock < t - Latency)
  <2> DEFINE last == t - Latency
             sampled == {e \in clock..last : (e - clock) % ScanStep = 0} \cap Contact[s]
  <2>1. SlotsUntil(s, clock, last) =
          IF last <= clock THEN {}
          ELSE IF sampled # {} THEN LastOf(sampled)
          ELSE {last} \cap Contact[s]
    BY DEF SlotsUntil
  <2>2. LastOf(sampled) \subseteq sampled
    BY DEF LastOf
  <2>3. /\ ~(last <= clock)
        /\ u \in sampled \/ u \in {last} \cap Contact[s]
    BY <1>1, <2>1, <2>2
  <2> QED
    BY <2>3 DEF TypeOK
<1>3. clock \in Nat /\ Contact[s] \subseteq Nat \ {0} /\ Latency \in Nat
  BY DEF TypeOK
<1>4. u \in Nat /\ u > 0
  BY <1>2, <1>3
<1> HIDE DEF u
<1>5. clock <= u /\ u + Latency <= t
  BY <1>2, <1>3, <1>4
<1> QED
  BY <1>2, <1>4, <1>5 DEF u

LEMMA NewBurnUploaded ==
  ASSUME TypeOK, NEW s \in Sats, NEW kind \in Kinds, NEW t \in Nat,
         NEW cost \in Nat, CanUpload(s, t)
  PROVE  LET n == NewBurn(s, kind, t, cost) IN
           /\ n \in Burn
           /\ n.sat = s /\ n.kind = kind /\ n.epoch = t
           /\ Uploaded(n) /\ clock <= n.upload /\ clock < n.epoch
<1> DEFINE u == UploadEpoch(s, t)
           n == NewBurn(s, kind, t, cost)
<1>1. /\ u \in Nat /\ u > 0 /\ u \in Contact[s] /\ clock <= u /\ u + Latency <= t
  BY UploadInTime
<1> HIDE DEF u
<1>2. n = [sat |-> s, kind |-> kind, epoch |-> t, upload |-> u, cost |-> cost]
  BY DEF NewBurn, u
<1>3. clock \in Nat /\ Latency \in Nat /\ Latency > 0
  BY OpsAssumption DEF TypeOK
<1>4. clock < t
  BY <1>1, <1>3
<1> QED
  BY <1>1, <1>2, <1>4 DEF Burn, Uploaded

(* A planner pushes a burn of s: uploadable, rested, and fitting.          *)
PlansBurn(s, kind) ==
  \E t \in Nat, cost \in Nat :
    /\ CanUpload(s, t) /\ Rested(s, t) /\ ~NearPending(s, t)
    /\ pending' = Append(pending, NewBurn(s, kind, t, cost))

(* Rested now is rested later.                                             *)
LEMMA RestedLater ==
  ASSUME TypeOK, NEW s \in Sats, NEW t \in Nat, clock <= t, Rested(s, clock)
  PROVE  Rested(s, t)
<1>1. clock \in Nat /\ lastBurn[s] \in Nat /\ Cooldown \in Nat
  BY OpsAssumption DEF TypeOK
<1> QED
  BY <1>1 DEF Rested

LEMMA ColaPushes ==
  ASSUME TypeOK, NEW s \in Sats, PlanCola(s)
  PROVE  UNCHANGED pending \/ PlansBurn(s, "evasion")
<1> USE OpsAssumption
<1>1. PICK plan \in ColaPlans(s) :
        UNCHANGED pending
        \/ pending' = Append(pending, NewBurn(s, "evasion", plan.epoch, plan.cost))
  BY DEF PlanCola
<1>2. /\ plan.epoch \in (clock + Latency)..(clock + Latency + Horizon)
      /\ CanUpload(s, plan.epoch) /\ ~NearPending(s, plan.epoch)
      /\ plan.cost \in Nat
  BY DEF ColaPlans
<1>3. plan.epoch \in Nat /\ clock <= plan.epoch
  BY <1>2 DEF TypeOK
<1>4. Rested(s, clock)
  BY DEF PlanCola, ColaEligible
<1>5. Rested(s, plan.epoch)
  BY <1>3, <1>4, RestedLater
<1> QED
  BY <1>1, <1>2, <1>3, <1>5 DEF PlansBurn

(* A correction pushes a burn or keeps the request.                        *)
LEMMA CorrectPushes ==
  ASSUME TypeOK, NEW s \in Sats, NEW req \in Nat, NEW cost \in Nat,
         Correct(s, req, cost)
  PROVE  /\ \/ UNCHANGED pending /\ request' = [request EXCEPT ![s] = req]
            \/ /\ PlansBurn(s, "recovery")
               /\ \E left \in Nat \cup {NoRequest} :
                    request' = [request EXCEPT ![s] = left]
         /\ UNCHANGED <<status, graveReq>> \/ Reserve(s)
<1> USE OpsAssumption
<1> DEFINE epochs == BurnEpochs(s, Later(clock + Cooldown, req))
<1>1. CASE fuel[s] - cost <= Eol
  BY <1>1 DEF Correct
<1>2. CASE ~(fuel[s] - cost <= Eol) /\ epochs = {}
  BY <1>2 DEF Correct
<1>3. CASE ~(fuel[s] - cost <= Eol) /\ epochs # {}
  <2>1. PICK epoch \in FirstOf(epochs) :
          \E left \in {NoRequest, epoch + Cooldown} :
            /\ pending' = Append(pending, NewBurn(s, "recovery", epoch, cost))
            /\ request' = [request EXCEPT ![s] = left]
            /\ UNCHANGED <<status, graveReq>>
    BY <1>3 DEF Correct
  <2>2. epoch \in epochs
    BY DEF FirstOf
  <2>3. Later(clock + Cooldown, req) \in Nat
    BY DEF Later, TypeOK
  <2>4. Later(Later(clock + Cooldown, req), clock + Latency) \in Nat
    BY <2>3 DEF Later, TypeOK
  <2>5. epoch \in Nat /\ CanSchedule(s, epoch) /\ CanUpload(s, epoch)
    BY <2>2, <2>3, <2>4 DEF BurnEpochs
  <2>6. PlansBurn(s, "recovery")
    BY <2>1, <2>5 DEF PlansBurn, CanSchedule
  <2>7. epoch + Cooldown \in Nat
    BY <2>5
  <2> QED
    BY <2>1, <2>6, <2>7
<1> QED
  BY <1>1, <1>2, <1>3

LEMMA StationPushes ==
  ASSUME TypeOK, NEW s \in Sats, KeepStation(s)
  PROVE  /\ \/ /\ UNCHANGED pending
               /\ \E req \in Nat : request' = [request EXCEPT ![s] = req]
            \/ /\ PlansBurn(s, "recovery")
               /\ \E left \in Nat \cup {NoRequest} :
                    request' = [request EXCEPT ![s] = left]
         /\ UNCHANGED <<status, graveReq>> \/ Reserve(s)
<1> USE OpsAssumption
<1> DEFINE req == Later(request[s], clock)
<1>1. req \in Nat
  BY DEF Later, TypeOK, NoRequest
<1>2. PICK cost \in Corrections :
        \/ cost > 0 /\ Correct(s, req, cost)
        \/ /\ cost = 0
           /\ request' = [request EXCEPT ![s] = req]
           /\ UNCHANGED <<status, graveReq, pending>>
  BY DEF KeepStation
<1>3. cost \in Nat
  BY DEF Corrections
<1> HIDE DEF req
<1> QED
  BY <1>1, <1>2, <1>3, CorrectPushes

LEMMA RecoverPushes ==
  ASSUME TypeOK, NEW s \in Sats, Recover(s)
  PROVE  /\ \/ UNCHANGED <<pending, request, owed>>
            \/ /\ UNCHANGED <<pending, status, graveReq>>
               /\ request' = [request EXCEPT ![s] = NoRequest]
               /\ owed' = owed \ {s}
            \/ /\ PlansBurn(s, "recovery")
               /\ \E left \in Nat \cup {NoRequest} :
                    request' = [request EXCEPT ![s] = left]
               /\ UNCHANGED owed
         /\ UNCHANGED <<status, graveReq>> \/ Reserve(s)
<1> USE OpsAssumption
<1>1. PICK cost \in Corrections :
        \/ cost > 0 /\ Correct(s, request[s], cost) /\ UNCHANGED owed
        \/ /\ cost = 0
           /\ request' = [request EXCEPT ![s] = NoRequest]
           /\ owed' = owed \ {s}
           /\ UNCHANGED <<status, graveReq, pending>>
  BY DEF Recover
<1>2. cost \in Nat
  BY DEF Corrections
<1>3. request[s] \in Nat /\ request = [request EXCEPT ![s] = request[s]]
  BY DEF Recover, RecoveryReady, TypeOK
<1> QED
  BY <1>1, <1>2, <1>3, CorrectPushes

LEMMA GraveyardPushes ==
  ASSUME TypeInv, NEW s \in Sats, PlanGraveyard(s)
  PROVE  UNCHANGED pending \/ (PlansBurn(s, "graveyard") /\ ~HasPending(s))
<1> USE OpsAssumption
<1>1. CASE UNCHANGED pending
  BY <1>1
<1>2. CASE ~UNCHANGED pending
  <2>1. /\ ~HasPending(s) /\ CanUpload(s, clock + Cooldown)
        /\ pending' = Append(pending, NewBurn(s, "graveyard", clock + Cooldown,
                                              GraveyardCost))
    BY <1>2 DEF PlanGraveyard, QueueGraveyard
  <2>2. clock + Cooldown \in Nat /\ GraveyardCost \in Nat
    BY DEF TypeInv, TypeOK
  <2>3. Rested(s, clock + Cooldown)
    <3>1. lastBurn[s] \in Nat /\ lastBurn[s] <= clock /\ clock \in Nat
      BY DEF TypeInv, TypeOK, PastInv
    <3> QED
      BY <3>1 DEF Rested
  <2>4. ~NearPending(s, clock + Cooldown)
    BY <2>1 DEF NearPending, HasPending
  <2> QED
    BY <2>1, <2>2, <2>3, <2>4 DEF PlansBurn
<1> QED
  BY <1>1, <1>2

(* One visit of a pass: at most one burn is pushed.                        *)
LEMMA VisitPushes ==
  ASSUME TypeInv, NEW s \in Sats, SatPass(s)
  PROVE  /\ UNCHANGED <<clock, phase, todo, tick, known, fuel, lastBurn,
                        graveDone, newest>>
         /\ phase \in {"cola", "station", "recovery", "graveyard"}
         /\ sat = s /\ sat' = s + 1
         /\ UNCHANGED pending \/ \E kind \in Kinds : PlansBurn(s, kind)
<1>1. ASSUME PlanCola(s) PROVE UNCHANGED pending \/ PlansBurn(s, "evasion")
  BY <1>1, ColaPushes DEF TypeInv
<1>2. ASSUME KeepStation(s) PROVE UNCHANGED pending \/ PlansBurn(s, "recovery")
  BY <1>2, StationPushes DEF TypeInv
<1>3. ASSUME Recover(s) PROVE UNCHANGED pending \/ PlansBurn(s, "recovery")
  BY <1>3, RecoverPushes DEF TypeInv
<1>4. ASSUME PlanGraveyard(s) PROVE UNCHANGED pending \/ PlansBurn(s, "graveyard")
  BY <1>4, GraveyardPushes
<1>5. UNCHANGED pending \/ \E kind \in Kinds : PlansBurn(s, kind)
  BY <1>1, <1>2, <1>3, <1>4
     DEF SatPass, NoCola, InSlot, DeferRecovery, NoGraveyard, Kinds
<1>6. /\ UNCHANGED <<clock, phase, todo, tick>>
      /\ phase \in {"cola", "station", "recovery", "graveyard"}
      /\ sat = s /\ sat' = s + 1
  BY DEF SatPass, PlanCola, KeepStation, Recover, PlanGraveyard, NoCola, InSlot,
         DeferRecovery, NoGraveyard, Visits
<1>7. UNCHANGED <<known, fuel, lastBurn, graveDone, newest>>
  BY DEF SatPass, PlanCola, KeepStation, Recover, PlanGraveyard, NoCola, InSlot,
         DeferRecovery, NoGraveyard, fleet, engine
<1> QED
  BY <1>5, <1>6, <1>7

-----------------------------------------------------------------------------
(* Types.                                                                  *)

(* What the executor does with the due burn it is at.                      *)
LEMMA FireTypes ==
  ASSUME TypeInv, NEW b \in Burn, b.epoch <= clock, b.cost <= fuel[b.sat], Fire(b)
  PROVE  /\ fuel' \in [Sats -> Nat] /\ lastBurn' \in [Sats -> Nat]
         /\ newest' \in [Sats -> Nat]
         /\ request' \in [Sats -> Nat \cup {NoRequest}]
         /\ status' \in [Sats -> Statuses]
         /\ graveReq' \subseteq Sats /\ graveDone' \subseteq Sats
         /\ owed' \subseteq Sats /\ fired' \subseteq Burn
         /\ \A s \in Sats : lastBurn'[s] <= clock
<1> USE OpsAssumption DEF TypeInv, TypeOK
<1>1. b.sat \in Sats /\ b.epoch \in Nat /\ b.cost \in Nat
  BY DEF Burn
<1>2. fuel' \in [Sats -> Nat]
  <2>1. fuel[b.sat] \in Nat /\ fuel[b.sat] - b.cost \in Nat
    BY <1>1
  <2>2. fuel' = [fuel EXCEPT ![b.sat] = fuel[b.sat] - b.cost]
    BY DEF Fire
  <2> QED
    BY <2>1, <2>2
<1>3. lastBurn' \in [Sats -> Nat] /\ \A s \in Sats : lastBurn'[s] <= clock
  BY <1>1 DEF Fire, PastInv
<1>4. newest' \in [Sats -> Nat]
  <2>1. Later(newest[b.sat], b.epoch) \in Nat
    BY <1>1 DEF Later
  <2> QED
    BY <2>1 DEF Fire
<1>5. request' \in [Sats -> Nat \cup {NoRequest}]
  <2>1. RequestAfter(b) \in Nat \cup {NoRequest}
    <3>1. /\ request[b.sat] \in Nat \cup {NoRequest} /\ NoRequest \in Int
          /\ b.epoch + Cooldown \in Nat
      BY <1>1 DEF NoRequest
    <3>2. Later(request[b.sat], b.epoch + Cooldown) \in Nat
      BY <3>1 DEF Later, NoRequest
    <3> QED
      BY <3>1, <3>2 DEF RequestAfter
  <2> QED
    BY <2>1 DEF Fire
<1>6. status' \in [Sats -> Statuses]
  BY DEF Fire, Statuses
<1>7. graveReq' \subseteq Sats /\ graveDone' \subseteq Sats
  BY <1>1 DEF Fire
<1>8. owed' \subseteq Sats
  BY <1>1 DEF Fire
<1>9. fired' \subseteq Burn
  BY DEF Fire
<1> QED
  BY <1>2, <1>3, <1>4, <1>5, <1>6, <1>7, <1>8, <1>9

(* The burns an accepted sequence adds to the queue.                       *)
Ordered(s, orders) ==
  [i \in DOMAIN orders |->
     NewBurn(s, "manual", orders[i].epoch, orders[i].cost)]

LEMMA OrderedBurns ==
  ASSUME TypeOK, NEW s \in Sats, NEW orders \in Orders, ScheduleManeuver(s, orders)
  PROVE  /\ orders \in Seq([epoch : Nat, cost : Nat])
         /\ Len(orders) \in {1, 2}
         /\ Ordered(s, orders) \in Seq(Burn)
         /\ DOMAIN Ordered(s, orders) = DOMAIN orders
         /\ \A i \in DOMAIN orders :
              LET n == Ordered(s, orders)[i] IN
                /\ n \in Burn
                /\ n.sat = s /\ n.kind = "manual" /\ n.epoch = orders[i].epoch
                /\ Uploaded(n) /\ clock <= n.upload /\ clock < n.epoch
<1> USE OpsAssumption
<1>1. orders \in Seq([epoch : Nat, cost : Nat]) /\ Len(orders) \in {1, 2}
  <2> DEFINE Order == [epoch : 1..MaxEpoch, cost : Costs]
  <2>1. Order \subseteq [epoch : Nat, cost : Nat]
    <3>1. 1..MaxEpoch \subseteq Nat /\ Costs \subseteq Nat
      OBVIOUS
    <3> QED
      BY <3>1
  <2>2. \/ \E o \in Order : orders = <<o>>
        \/ \E o \in Order, p \in Order : orders = <<o, p>>
    BY DEF Orders
  <2> HIDE DEF Order
  <2>3. ASSUME NEW o \in Order, orders = <<o>>
        PROVE  orders \in Seq([epoch : Nat, cost : Nat]) /\ Len(orders) = 1
    BY <2>1, <2>3
  <2>4. ASSUME NEW o \in Order, NEW p \in Order, orders = <<o, p>>
        PROVE  orders \in Seq([epoch : Nat, cost : Nat]) /\ Len(orders) = 2
    BY <2>1, <2>4
  <2> QED
    BY <2>2, <2>3, <2>4
<1>2. Len(orders) \in Nat /\ DOMAIN orders = 1..Len(orders)
  BY <1>1
<1>3. ASSUME NEW i \in DOMAIN orders
      PROVE  LET n == NewBurn(s, "manual", orders[i].epoch, orders[i].cost) IN
               /\ n \in Burn
               /\ n.sat = s /\ n.kind = "manual" /\ n.epoch = orders[i].epoch
               /\ Uploaded(n) /\ clock <= n.upload /\ clock < n.epoch
  <2>1. orders[i].epoch \in Nat /\ orders[i].cost \in Nat
    <3>1. orders[i] \in [epoch : Nat, cost : Nat]
      BY <1>1, <1>2, <1>3, ElementOfSeq
    <3> QED
      BY <3>1
  <2>2. CanUpload(s, orders[i].epoch)
    BY <1>3 DEF ScheduleManeuver, OrdersUploadable
  <2>3. "manual" \in Kinds
    BY DEF Kinds
  <2> QED
    BY <2>1, <2>2, <2>3, NewBurnUploaded
<1>4. Ordered(s, orders) \in Seq(Burn)
  BY <1>1, <1>2, <1>3 DEF Ordered
<1>5. DOMAIN Ordered(s, orders) = DOMAIN orders
  BY DEF Ordered
<1> QED
  BY <1>1, <1>3, <1>4, <1>5 DEF Ordered

LEMMA PlansTypes ==
  ASSUME TypeOK, NEW s \in Sats, NEW kind \in Kinds, PlansBurn(s, kind)
  PROVE  pending' \in Seq(Burn)
BY NewBurnUploaded DEF PlansBurn, TypeOK

(* What ends inside a pass may change of the bookkeeping.                  *)
LEMMA VisitTypes ==
  ASSUME TypeInv, NEW s \in Sats, SatPass(s)
  PROVE  /\ status' \in [Sats -> Statuses]
         /\ request' \in [Sats -> Nat \cup {NoRequest}]
         /\ graveReq' \subseteq Sats /\ owed' \subseteq Sats
<1> USE DEF TypeInv, TypeOK
<1>1. ASSUME Reserve(s)
      PROVE  status' \in [Sats -> Statuses] /\ graveReq' \subseteq Sats
  BY <1>1 DEF Reserve, Statuses
<1>2. CASE PlanCola(s)
  <2>1. UNCHANGED <<request, owed>>
    BY <1>2 DEF PlanCola
  <2>2. UNCHANGED <<status, graveReq>> \/ Reserve(s)
    BY <1>2 DEF PlanCola
  <2> QED
    BY <1>1, <2>1, <2>2
<1>3. CASE KeepStation(s)
  <2>1. /\ \E left \in Nat \cup {NoRequest} : request' = [request EXCEPT ![s] = left]
        /\ UNCHANGED <<status, graveReq>> \/ Reserve(s)
    BY <1>3, StationPushes
  <2>2. UNCHANGED owed
    BY <1>3 DEF KeepStation
  <2> QED
    BY <1>1, <2>1, <2>2
<1>4. CASE Recover(s)
  <2>1. /\ \/ UNCHANGED request
           \/ \E left \in Nat \cup {NoRequest} : request' = [request EXCEPT ![s] = left]
        /\ UNCHANGED <<status, graveReq>> \/ Reserve(s)
        /\ UNCHANGED owed \/ owed' = owed \ {s}
    BY <1>4, RecoverPushes
  <2> QED
    BY <1>1, <2>1
<1>5. CASE PlanGraveyard(s)
  BY <1>5 DEF PlanGraveyard, QueueGraveyard, Statuses
<1>6. CASE NoCola(s) \/ InSlot(s) \/ DeferRecovery(s) \/ NoGraveyard(s)
  BY <1>6 DEF NoCola, InSlot, DeferRecovery, NoGraveyard, fleet, engine
<1> QED
  BY <1>2, <1>3, <1>4, <1>5, <1>6 DEF SatPass

LEMMA TypeStep == TypeInv /\ [Next]_vars => TypeInv'
<1> USE OpsAssumption
<1> SUFFICES ASSUME TypeInv, [Next]_vars PROVE TypeInv'
  OBVIOUS
<1> USE DEF TypeInv
<1>1. ASSUME NEW s \in Sats, IngestTelemetry(s) PROVE TypeInv'
  BY <1>1 DEF IngestTelemetry, TypeOK, PastInv, loop, tick
<1>2. ASSUME NEW s \in Sats, NEW orders \in Orders, ScheduleManeuver(s, orders)
      PROVE  TypeInv'
  <2>1. pending' = pending \o Ordered(s, orders)
    BY <1>2 DEF ScheduleManeuver, Ordered
  <2>2. pending' \in Seq(Burn)
    BY <1>2, <2>1, OrderedBurns DEF TypeOK
  <2>3. request' \in [Sats -> Nat \cup {NoRequest}] /\ owed' \subseteq Sats
    BY <1>2 DEF ScheduleManeuver, TypeOK
  <2>4. UNCHANGED <<clock, known, status, fuel, lastBurn, graveReq, graveDone,
                    newest, phase, sat, todo, before, fired, dropped, recorded>>
    BY <1>2 DEF ScheduleManeuver, loop, tick
  <2> QED
    BY <2>2, <2>3, <2>4 DEF TypeOK, PastInv
<1>3. ASSUME NEW dt \in StepSizes, BeginStep(dt) PROVE TypeInv'
  BY <1>3 DEF BeginStep, TypeOK, PastInv, fleet, engine, tick, Phases
<1>4. ASSUME NEW s \in Sats, SatPass(s) PROVE TypeInv'
  <2>1. /\ UNCHANGED <<clock, phase, todo, tick, known, fuel, lastBurn,
                       graveDone, newest>>
        /\ sat' = s + 1
        /\ UNCHANGED pending \/ \E kind \in Kinds : PlansBurn(s, kind)
    BY <1>4, VisitPushes
  <2>2. pending' \in Seq(Burn)
    BY <2>1, PlansTypes DEF TypeOK
  <2>3. sat' \in 1..(NumSats + 1)
    BY <2>1 DEF Sats
  <2> QED
    BY <1>4, <2>1, <2>2, <2>3, VisitTypes DEF TypeOK, PastInv, tick
<1>5. CASE BeginUploads \/ BeginStation \/ BeginGraveyard
  <2>1. 1 \in 1..(NumSats + 1) /\ << >> \in Seq(Burn)
    OBVIOUS
  <2>2. CASE BeginUploads
    BY <2>1, <2>2 DEF BeginUploads, TypeOK, PastInv, fleet, engine, tick, Phases
  <2>3. CASE BeginStation
    BY <2>1, <2>3 DEF BeginStation, TypeOK, PastInv, fleet, engine, tick, Phases
  <2>4. CASE BeginGraveyard
    BY <2>1, <2>4 DEF BeginGraveyard, TypeOK, PastInv, fleet, engine, tick, Phases
  <2> QED
    BY <1>5, <2>2, <2>3, <2>4
<1>6. CASE ValidateBurn
  <2> DEFINE b == Head(todo)
  <2>1. b \in Burn /\ todo' \in Seq(Burn)
    BY <1>6 DEF ValidateBurn, TypeOK
  <2>2. CanUpload(b.sat, b.epoch) =>
          [b EXCEPT !.upload = UploadEpoch(b.sat, b.epoch)] \in Burn
    BY <2>1, UploadInTime DEF Burn
  <2>3. pending' \in Seq(Burn) /\ dropped' \subseteq Burn
    <3>1. \/ pending' = pending
          \/ \E n \in Burn : pending' = Append(pending, n)
      BY <1>6, <2>1, <2>2 DEF ValidateBurn
    <3>2. dropped' \in {dropped, dropped \cup {b}}
      BY <1>6 DEF ValidateBurn
    <3>3. pending' \in Seq(Burn)
      <4>1. pending \in Seq(Burn) /\ \A n \in Burn : Append(pending, n) \in Seq(Burn)
        BY DEF TypeOK
      <4> QED
        BY <3>1, <4>1
    <3>4. dropped' \subseteq Burn
      BY <2>1, <3>2 DEF TypeOK
    <3> QED
      BY <3>3, <3>4
  <2>4. UNCHANGED <<clock, fleet, phase, sat, before, fired, recorded>>
    BY <1>6 DEF ValidateBurn
  <2> QED
    BY <2>1, <2>3, <2>4 DEF TypeOK, PastInv, fleet, engine
<1>7. CASE BeginExecute
  BY <1>7 DEF BeginExecute, TypeOK, PastInv, fleet, engine, Phases, ToSet
<1>8. CASE ExecuteBurn
  <2> DEFINE b == Head(todo)
  <2>1. b \in Burn /\ todo' \in Seq(Burn)
    BY <1>8 DEF ExecuteBurn, TypeOK
  <2>2. UNCHANGED <<clock, phase, sat, before, recorded>>
    BY <1>8 DEF ExecuteBurn
  <2>3. CASE Fire(b) /\ b.epoch <= clock /\ b.cost <= fuel[b.sat]
    <3>1. UNCHANGED <<known, dropped, pending>>
      BY <2>3 DEF Fire
    <3> QED
      BY <2>1, <2>2, <2>3, <3>1, FireTypes DEF TypeOK, PastInv
  <2>4. CASE /\ UNCHANGED <<fleet, fired>>
             /\ pending' \in {pending, Append(pending, b)}
             /\ dropped' \in {dropped, dropped \cup {b}}
    <3>1. pending' \in Seq(Burn) /\ dropped' \subseteq Burn
      <4> HIDE DEF b
      <4>1. pending \in Seq(Burn) /\ Append(pending, b) \in Seq(Burn)
        BY <2>1 DEF TypeOK
      <4>2. dropped \subseteq Burn /\ dropped \cup {b} \subseteq Burn
        BY <2>1 DEF TypeOK
      <4> QED
        BY <2>4, <4>1, <4>2
    <3>2. UNCHANGED <<known, status, fuel, lastBurn, request, graveReq, graveDone,
                      newest, owed, fired>>
      BY <2>4 DEF fleet, engine
    <3> QED
      BY <2>1, <2>2, <3>1, <3>2 DEF TypeOK, PastInv
  <2>5. b.epoch \in Nat /\ b.cost \in Nat /\ clock \in Nat /\ fuel[b.sat] \in Nat
    BY <2>1 DEF TypeOK, Burn
  <2> QED
    BY <1>8, <2>3, <2>4, <2>5 DEF ExecuteBurn
<1>9. CASE RecordExecuted
  BY <1>9 DEF RecordExecuted, TypeOK, PastInv, fleet, engine, Phases
<1>10. CASE EndStep
  BY <1>10 DEF EndStep, TypeOK, PastInv, engine, Phases
<1>11. CASE UNCHANGED vars
  BY <1>11 DEF vars, TypeOK, PastInv, fleet, engine, loop, tick
<1> QED
  BY <1>1, <1>2, <1>3, <1>4, <1>5, <1>6, <1>7, <1>8, <1>9, <1>10, <1>11
     DEF Next, Commands, QueuePass

(* Every variable has its type, and no tank is ever overdrawn; no burn the *)
(* engine remembers lies in the future.                                    *)
LEMMA TypeInvHolds == Spec => []TypeInv
<1>1. Init => TypeInv
  BY OpsAssumption DEF Init, TypeInv, TypeOK, PastInv, Phases, Statuses, NoRequest
<1> QED
  BY <1>1, TypeStep, PTL DEF Spec

(* Types of all variables; in particular a burn is executed only with the  *)
(* propellant for it in the tank (the executor's fuel check).              *)
THEOREM OpsTypeCorrect == Spec => []TypeOK
BY TypeInvHolds, PTL DEF TypeInv

-----------------------------------------------------------------------------
(* The queue: spacing, uploads and rest.                                   *)

Queued == ToSet(pending) \cup ToSet(todo)

LoopInv == phase \notin {"uploads", "execute"} => todo = << >>
Spaced == SpacedIn(pending, todo)

(* A burn that is not due has its upload ahead: a validation establishes   *)
(* it after the clock has moved, and the executor leaves such burns only.  *)
Ahead(b) == clock <= b.upload
DueOrAhead(b) == b.epoch <= clock \/ Ahead(b)

UploadInv ==
  /\ \A b \in Queued : Uploaded(b)
  /\ phase \in {"idle", "recovery", "graveyard"} => \A b \in Queued : Ahead(b)
  /\ phase \in {"station", "execute"} => \A b \in Queued : DueOrAhead(b)
  /\ phase = "uploads" => \A b \in ToSet(pending) : DueOrAhead(b)
  /\ phase = "execute" => \A b \in ToSet(pending) : clock < b.epoch

(* Only burns that are about to leave the queue may be younger than the    *)
(* last one executed.                                                      *)
RestInv ==
  \A b \in Queued :
    Rested(b.sat, b.epoch) \/ (phase = "execute" /\ b.epoch <= clock)

QueueInv == LoopInv /\ Spaced /\ UploadInv /\ RestInv

(* A burn that is not near the queued ones is pushed.                      *)
LEMMA PushQueue ==
  ASSUME TypeOK, Spaced, todo = << >>, NEW n \in Burn,
         ~NearPending(n.sat, n.epoch), pending' = Append(pending, n), todo' = todo
  PROVE  Spaced' /\ Queued' = Queued \cup {n}
<1>1. pending \in Seq(Burn) /\ Len(pending) \in Nat /\ DOMAIN pending = 1..Len(pending)
      /\ \A i \in DOMAIN pending : pending[i] \in Burn
  BY DEF TypeOK
<1>2. Fits(n, pending)
  BY <1>1, OpsAssumption DEF Fits, NearPending, Apart, Burn
<1>3. SpacedIn(pending, << >>)
  BY DEF Spaced
<1>4. SpacedIn(pending', << >>) /\ ToSet(pending') = ToSet(pending) \cup {n}
  BY <1>1, <1>2, <1>3, AppendSpaced
<1>5. todo' = << >>
  OBVIOUS
<1> QED
  BY <1>4, <1>5 DEF Spaced, Queued

(* The burns of an accepted sequence join the queue.                       *)
LEMMA OrderQueue ==
  ASSUME TypeOK, Spaced, LoopInv, NEW s \in Sats, NEW orders \in Orders,
         ScheduleManeuver(s, orders)
  PROVE  /\ Spaced'
         /\ Queued' = Queued \cup ToSet(Ordered(s, orders))
         /\ \A n \in ToSet(Ordered(s, orders)) :
              /\ n \in Burn /\ n.sat = s /\ n.kind = "manual"
              /\ Uploaded(n) /\ Ahead(n) /\ Rested(s, n.epoch)
<1> USE OpsAssumption
<1> DEFINE new == Ordered(s, orders)
<1>1. /\ orders \in Seq([epoch : Nat, cost : Nat]) /\ Len(orders) \in {1, 2}
      /\ new \in Seq(Burn) /\ DOMAIN new = DOMAIN orders
      /\ \A i \in DOMAIN orders :
           /\ new[i] \in Burn
           /\ new[i].sat = s /\ new[i].kind = "manual"
           /\ new[i].epoch = orders[i].epoch
           /\ Uploaded(new[i]) /\ clock <= new[i].upload /\ clock < new[i].epoch
  BY OrderedBurns
<1>2. /\ DOMAIN orders = 1..Len(orders)
      /\ \/ Len(orders) = 1 /\ DOMAIN orders = {1}
         \/ Len(orders) = 2 /\ DOMAIN orders = {1, 2}
  <2>1. DOMAIN orders = 1..Len(orders)
    BY <1>1
  <2>2. 1..1 = {1} /\ 1..2 = {1, 2}
    OBVIOUS
  <2> QED
    BY <1>1, <2>1, <2>2
<1>3. todo = << >> /\ todo' = << >> /\ pending' = pending \o new
  BY DEF ScheduleManeuver, LoopInv, loop, Ordered
<1> HIDE DEF new
<1>4. \A i \in DOMAIN orders : orders[i].epoch \in Nat
  <2>1. ASSUME NEW i \in DOMAIN orders PROVE orders[i] \in [epoch : Nat, cost : Nat]
    BY <1>1, <1>2, ElementOfSeq
  <2> QED
    BY <2>1
<1>5. /\ Len(orders) = 2 => orders[2].epoch - orders[1].epoch >= Cooldown
      /\ Rested(s, orders[1].epoch)
      /\ \A i \in DOMAIN orders : ~NearPending(s, orders[i].epoch)
  BY DEF ScheduleManeuver, OrdersRested
<1>6. SpacedIn(new, << >>)
  <2>1. ASSUME NEW i \in DOMAIN new, NEW j \in DOMAIN new, i # j
        PROVE  Apart(new[i].epoch, new[j].epoch) >= Cooldown
    <3>1. Len(orders) = 2 /\ ((i = 1 /\ j = 2) \/ (i = 2 /\ j = 1))
      BY <1>1, <1>2, <2>1
    <3>2. /\ orders[1].epoch \in Nat /\ orders[2].epoch \in Nat
          /\ orders[2].epoch - orders[1].epoch >= Cooldown
      BY <1>2, <1>4, <1>5, <3>1
    <3>3. new[i].epoch = orders[i].epoch /\ new[j].epoch = orders[j].epoch
      BY <1>1, <2>1
    <3> QED
      BY <3>1, <3>2, <3>3 DEF Apart
  <2>2. DOMAIN << >> = {}
    OBVIOUS
  <2> QED
    BY <2>1, <2>2 DEF SpacedIn
<1>7. ASSUME NEW i \in DOMAIN new PROVE Fits(new[i], pending)
  <2>1. ~NearPending(s, new[i].epoch) /\ new[i].sat = s /\ new[i] \in Burn
    BY <1>1, <1>5, <1>7
  <2>2. \A j \in DOMAIN pending : pending[j] \in Burn
    BY DEF TypeOK
  <2> QED
    BY <2>1, <2>2 DEF Fits, NearPending, Apart, Burn
<1>8. pending \in Seq(Burn) /\ SpacedIn(pending, << >>)
  BY <1>3 DEF TypeOK, Spaced
<1>9. /\ SpacedIn(pending', << >>)
      /\ ToSet(pending') = ToSet(pending) \cup ToSet(new)
  BY <1>1, <1>3, <1>6, <1>7, <1>8, ConcatSpaced
<1>10. ASSUME NEW i \in DOMAIN new PROVE Rested(s, new[i].epoch)
  <2>1. i = 1 \/ (Len(orders) = 2 /\ i = 2)
    BY <1>1, <1>2
  <2>2. CASE i = 1
    BY <1>1, <1>5, <2>2
  <2>3. CASE Len(orders) = 2 /\ i = 2
    <3>1. /\ orders[1].epoch \in Nat /\ orders[2].epoch \in Nat
          /\ orders[1].epoch <= orders[2].epoch
      BY <1>2, <1>4, <1>5, <2>3
    <3>2. lastBurn[s] \in Nat
      BY DEF TypeOK
    <3>3. Rested(s, orders[2].epoch)
      BY <1>5, <3>1, <3>2 DEF Rested
    <3> QED
      BY <1>1, <2>3, <3>3
  <2> QED
    BY <2>1, <2>2, <2>3
<1>11. \A n \in ToSet(new) :
         /\ n \in Burn /\ n.sat = s /\ n.kind = "manual"
         /\ Uploaded(n) /\ Ahead(n) /\ Rested(s, n.epoch)
  BY <1>1, <1>10 DEF ToSet, Ahead
<1> QED
  BY <1>3, <1>9, <1>11 DEF Spaced, Queued, new

(* A visit of a pass: the queue stays, or one burn of the satellite joins. *)
LEMMA VisitQueue ==
  ASSUME TypeInv, Spaced, LoopInv, NEW s \in Sats, SatPass(s)
  PROVE  /\ Spaced'
         /\ \/ pending' = pending /\ todo' = todo
            \/ \E n \in Burn :
                 /\ Queued' = Queued \cup {n}
                 /\ n.sat = s /\ Uploaded(n) /\ Ahead(n) /\ Rested(s, n.epoch)
<1> USE DEF TypeInv
<1>1. /\ todo = << >> /\ todo' = todo
      /\ pending' = pending \/ \E kind \in Kinds : PlansBurn(s, kind)
  BY VisitPushes DEF LoopInv
<1>2. CASE pending' = pending
  BY <1>1, <1>2 DEF Spaced
<1>3. ASSUME NEW kind \in Kinds, PlansBurn(s, kind)
      PROVE  /\ Spaced'
             /\ \E n \in Burn :
                  /\ Queued' = Queued \cup {n}
                  /\ n.sat = s /\ Uploaded(n) /\ Ahead(n) /\ Rested(s, n.epoch)
  <2>1. PICK t \in Nat, cost \in Nat :
          /\ CanUpload(s, t) /\ Rested(s, t) /\ ~NearPending(s, t)
          /\ pending' = Append(pending, NewBurn(s, kind, t, cost))
    BY <1>3 DEF PlansBurn
  <2> DEFINE n == NewBurn(s, kind, t, cost)
  <2>2. /\ n \in Burn /\ n.sat = s /\ n.epoch = t
        /\ Uploaded(n) /\ clock <= n.upload
    BY <2>1, NewBurnUploaded
  <2> HIDE DEF n
  <2>3. Spaced' /\ Queued' = Queued \cup {n}
    BY <1>1, <2>1, <2>2, PushQueue DEF n
  <2> QED
    BY <2>1, <2>2, <2>3 DEF Ahead
<1> QED
  BY <1>1, <1>2, <1>3

(* A loop at its burn b: what it retains, if anything, has b's satellite,  *)
(* kind and epoch, and b is not queued any more.                           *)
LEMMA LoopQueue ==
  ASSUME TypeOK, Spaced, todo # << >>, todo' = Tail(todo),
         \/ pending' = pending
         \/ \E n \in Burn : /\ n.sat = Head(todo).sat /\ n.epoch = Head(todo).epoch
                            /\ pending' = Append(pending, n)
  PROVE  /\ Spaced'
         /\ Head(todo) \in Burn
         /\ ToSet(todo) = {Head(todo)} \cup ToSet(todo')
         /\ \A c \in ToSet(pending) \cup ToSet(todo') :
              /\ c # Head(todo)
              /\ c.sat = Head(todo).sat => Apart(c.epoch, Head(todo).epoch) >= Cooldown
         /\ \/ pending' = pending
            \/ \E n \in Burn : /\ n.sat = Head(todo).sat /\ n.epoch = Head(todo).epoch
                               /\ pending' = Append(pending, n)
                               /\ ToSet(pending') = ToSet(pending) \cup {n}
<1> DEFINE h == Head(todo)
<1>1. pending \in Seq(Burn) /\ todo \in Seq(Burn)
  BY DEF TypeOK
<1>2. /\ h \in Burn /\ todo' \in Seq(Burn)
      /\ ToSet(todo) = {h} \cup ToSet(todo')
      /\ SpacedIn(pending, todo') /\ Fits(h, pending) /\ Fits(h, todo')
  BY <1>1, HeadApart DEF Spaced
<1>3. \A c \in ToSet(pending) \cup ToSet(todo') :
        c # h /\ (c.sat = h.sat => Apart(c.epoch, h.epoch) >= Cooldown)
  BY <1>1, <1>2, FitsApart
<1>4. CASE pending' = pending
  BY <1>2, <1>3, <1>4 DEF Spaced
<1>5. ASSUME NEW n \in Burn, n.sat = h.sat, n.epoch = h.epoch,
             pending' = Append(pending, n)
      PROVE  SpacedIn(pending', todo') /\ ToSet(pending') = ToSet(pending) \cup {n}
  BY <1>1, <1>5, KeepSpaced DEF Spaced
<1> QED
  BY <1>2, <1>3, <1>4, <1>5 DEF Spaced

(* Steps that leave the queue, the clock and the phase alone.              *)
LEMMA QueueStays ==
  ASSUME QueueInv, UNCHANGED <<clock, pending, todo, phase, lastBurn>>
  PROVE  QueueInv'
<1>1. LoopInv' /\ Spaced'
  BY DEF QueueInv, LoopInv, Spaced
<1>2. UploadInv'
  BY DEF QueueInv, UploadInv, Queued, Ahead, DueOrAhead
<1>3. RestInv'
  BY DEF QueueInv, RestInv, Queued, Rested
<1> QED
  BY <1>1, <1>2, <1>3 DEF QueueInv

LEMMA ValidateKeepsQueue ==
  ASSUME TypeInv, QueueInv, ValidateBurn
  PROVE  QueueInv'
<1> USE OpsAssumption DEF TypeInv
<1> DEFINE b == Head(todo)
           planned == [b EXCEPT !.upload = UploadEpoch(b.sat, b.epoch)]
<1>1. /\ phase = "uploads" /\ todo # << >> /\ todo' = Tail(todo)
      /\ phase' = "uploads" /\ clock' = clock /\ lastBurn' = lastBurn
      /\ \/ pending' = Append(pending, b) /\ b.epoch <= clock
         \/ pending' = Append(pending, planned) /\ CanUpload(b.sat, b.epoch)
         \/ pending' = pending
  BY DEF ValidateBurn, fleet, engine
<1>2. b \in Burn /\ b \in Queued
  <2>1. todo \in Seq(Burn)
    BY DEF TypeOK
  <2> QED
    BY <1>1, <2>1, HeadApart DEF Queued, QueueInv, Spaced, TypeOK
<1>3. CanUpload(b.sat, b.epoch) =>
        /\ planned \in Burn /\ planned.sat = b.sat /\ planned.epoch = b.epoch
        /\ Uploaded(planned) /\ Ahead(planned)
  BY <1>2, UploadInTime DEF Burn, Uploaded, Ahead
<1> HIDE DEF planned
<1>4. /\ Uploaded(b) /\ Rested(b.sat, b.epoch)
  BY <1>1, <1>2 DEF QueueInv, UploadInv, RestInv
<1>5. \/ pending' = pending
      \/ \E n \in Burn :
           /\ n.sat = b.sat /\ n.epoch = b.epoch
           /\ Uploaded(n) /\ DueOrAhead(n)
           /\ pending' = Append(pending, n)
  BY <1>1, <1>2, <1>3, <1>4 DEF DueOrAhead
<1> HIDE DEF b
<1>6. /\ Spaced'
      /\ ToSet(todo) = {b} \cup ToSet(todo')
      /\ \/ pending' = pending
         \/ \E n \in Burn :
              /\ n.sat = b.sat /\ n.epoch = b.epoch
              /\ Uploaded(n) /\ DueOrAhead(n)
              /\ ToSet(pending') = ToSet(pending) \cup {n}
  <2>1. TypeOK /\ Spaced /\ todo # << >> /\ todo' = Tail(todo)
    BY <1>1 DEF QueueInv
  <2>2. CASE pending' = pending
    BY <2>1, <2>2, LoopQueue DEF b
  <2>3. ASSUME NEW n \in Burn, n.sat = b.sat, n.epoch = b.epoch,
               Uploaded(n), DueOrAhead(n), pending' = Append(pending, n)
        PROVE  /\ Spaced'
               /\ ToSet(todo) = {b} \cup ToSet(todo')
               /\ ToSet(pending') = ToSet(pending) \cup {n}
    <3>1. Spaced' /\ ToSet(todo) = {b} \cup ToSet(todo')
      BY <2>1, <2>3, LoopQueue DEF b
    <3>2. ToSet(pending') = ToSet(pending) \cup {n}
      BY <2>1, <2>3, KeepSpaced DEF b, TypeOK, Spaced
    <3> QED
      BY <3>1, <3>2
  <2> QED
    BY <1>5, <2>2, <2>3
<1>7. \A n \in Queued' :
        \/ n \in Queued
        \/ Uploaded(n) /\ Rested(n.sat, n.epoch)
  BY <1>4, <1>6 DEF Queued
<1>8. \A n \in ToSet(pending') : n \in ToSet(pending) \/ DueOrAhead(n)
  BY <1>6
<1>9. LoopInv'
  BY <1>1 DEF LoopInv
<1>10. UploadInv'
  BY <1>1, <1>7, <1>8 DEF QueueInv, UploadInv, Queued, Uploaded, DueOrAhead, Ahead
<1>11. RestInv'
  BY <1>1, <1>7 DEF QueueInv, RestInv, Rested
<1> QED
  BY <1>6, <1>9, <1>10, <1>11 DEF QueueInv

LEMMA ExecuteKeepsQueue ==
  ASSUME TypeInv, QueueInv, ExecuteBurn
  PROVE  QueueInv'
<1> USE OpsAssumption DEF TypeInv
<1> DEFINE b == Head(todo)
<1>1. /\ phase = "execute" /\ todo # << >> /\ todo' = Tail(todo)
      /\ phase' = "execute" /\ clock' = clock
      /\ \/ /\ b.epoch > clock /\ pending' = Append(pending, b)
            /\ lastBurn' = lastBurn
         \/ /\ ~(b.epoch > clock) /\ pending' = pending
            /\ lastBurn' = lastBurn \/ lastBurn' = [lastBurn EXCEPT ![b.sat] = b.epoch]
  BY DEF ExecuteBurn, fleet, engine, Fire
<1>2. b \in Burn /\ b \in Queued
  BY <1>1, HeadApart DEF Queued, QueueInv, Spaced, TypeOK
<1>3. b.epoch \in Nat /\ b.sat \in Sats /\ clock \in Nat
  BY <1>2 DEF Burn, TypeOK
<1>4. /\ Spaced'
      /\ ToSet(todo) = {b} \cup ToSet(todo')
      /\ \A c \in ToSet(pending) \cup ToSet(todo') :
           c # b /\ (c.sat = b.sat => Apart(c.epoch, b.epoch) >= Cooldown)
  BY <1>1, <1>2, LoopQueue DEF QueueInv
<1>5. b.epoch > clock => ToSet(pending') = ToSet(pending) \cup {b}
  BY <1>1, <1>2, KeepSpaced DEF QueueInv, Spaced, TypeOK
<1> HIDE DEF b
<1>6. Queued' \subseteq Queued /\ (~(b.epoch > clock) => b \notin Queued')
  BY <1>1, <1>4, <1>5 DEF Queued
<1>7. LoopInv'
  BY <1>1 DEF LoopInv
<1>8. UploadInv'
  <2>1. \A c \in ToSet(pending') : clock < c.epoch
    BY <1>1, <1>3, <1>5 DEF QueueInv, UploadInv
  <2> QED
    BY <1>1, <1>6, <2>1 DEF QueueInv, UploadInv, Uploaded, DueOrAhead, Ahead
<1>9. RestInv'
  <2> SUFFICES ASSUME NEW c \in Queued', ~(c.epoch <= clock)
               PROVE  Rested(c.sat, c.epoch)'
    BY <1>1 DEF RestInv
  <2>1. c \in Queued /\ Rested(c.sat, c.epoch)
    BY <1>6 DEF QueueInv, RestInv
  <2>2. CASE lastBurn' = lastBurn
    BY <2>1, <2>2 DEF Rested
  <2>3. CASE /\ ~(b.epoch > clock) /\ pending' = pending
             /\ lastBurn' = [lastBurn EXCEPT ![b.sat] = b.epoch]
    <3>1. CASE c.sat # b.sat
      BY <2>1, <2>3, <3>1 DEF Rested, TypeOK
    <3>2. CASE c.sat = b.sat
      <4>1. c \in ToSet(pending) \cup ToSet(todo')
        BY <2>3 DEF Queued
      <4>2. Apart(c.epoch, b.epoch) >= Cooldown
        BY <1>4, <3>2, <4>1
      <4>3. c \in Burn
        BY <2>1 DEF Queued, TypeOK, ToSet
      <4>4. c.epoch \in Nat /\ c.epoch - b.epoch >= Cooldown
        BY <1>3, <2>3, <4>2, <4>3 DEF Apart, Burn
      <4>5. lastBurn'[c.sat] = b.epoch
        BY <1>3, <2>3, <3>2 DEF TypeOK
      <4> QED
        BY <4>4, <4>5 DEF Rested
    <3> QED
      BY <3>1, <3>2
  <2> QED
    BY <1>1, <2>2, <2>3
<1> QED
  BY <1>4, <1>7, <1>8, <1>9 DEF QueueInv

LEMMA QueueStep == TypeInv /\ QueueInv /\ [Next]_vars => QueueInv'
<1> USE OpsAssumption DEF TypeInv
<1> SUFFICES ASSUME TypeInv, QueueInv, [Next]_vars PROVE QueueInv'
  OBVIOUS
<1>1. ASSUME NEW s \in Sats, IngestTelemetry(s) PROVE QueueInv'
  <2>1. UNCHANGED <<pending, todo, phase, lastBurn>> /\ phase = "idle"
    BY <1>1 DEF IngestTelemetry, loop
  <2>2. \A b \in Queued : Ahead(b)'
    <3>1. ASSUME NEW b \in Queued PROVE Ahead(b)'
      <4>1. Uploaded(b) /\ Ahead(b) /\ b \in Burn
        BY <2>1 DEF QueueInv, UploadInv, Queued, TypeOK, ToSet
      <4>2. b.upload \in Nat \ {0}
        BY <4>1 DEF Uploaded, Burn
      <4> QED
        BY <1>1, <4>1, <4>2 DEF Ahead, IngestTelemetry
    <3> QED
      BY <3>1
  <2>3. LoopInv' /\ Spaced'
    BY <2>1 DEF QueueInv, LoopInv, Spaced
  <2>4. UploadInv'
    BY <2>1, <2>2 DEF QueueInv, UploadInv, Queued, Uploaded, Ahead
  <2>5. RestInv'
    BY <2>1 DEF QueueInv, RestInv, Queued, Rested
  <2> QED
    BY <2>3, <2>4, <2>5 DEF QueueInv
<1>2. ASSUME NEW s \in Sats, NEW orders \in Orders, ScheduleManeuver(s, orders)
      PROVE  QueueInv'
  <2>1. UNCHANGED <<clock, todo, phase, lastBurn>> /\ phase = "idle"
    BY <1>2 DEF ScheduleManeuver, loop
  <2>2. /\ Spaced'
        /\ Queued' = Queued \cup ToSet(Ordered(s, orders))
        /\ \A n \in ToSet(Ordered(s, orders)) :
             n.sat = s /\ Uploaded(n) /\ Ahead(n) /\ Rested(s, n.epoch)
    BY <1>2, OrderQueue DEF QueueInv
  <2>3. LoopInv'
    BY <2>1 DEF QueueInv, LoopInv
  <2>4. UploadInv'
    BY <2>1, <2>2 DEF QueueInv, UploadInv, Uploaded, Ahead
  <2>5. RestInv'
    BY <2>1, <2>2 DEF QueueInv, RestInv, Rested
  <2> QED
    BY <2>2, <2>3, <2>4, <2>5 DEF QueueInv
<1>3. ASSUME NEW dt \in StepSizes, BeginStep(dt) PROVE QueueInv'
  <2>1. /\ UNCHANGED <<pending, todo, lastBurn>>
        /\ phase = "idle" /\ phase' = "cola"
    BY <1>3 DEF BeginStep, fleet, engine
  <2>2. LoopInv' /\ Spaced'
    BY <2>1 DEF QueueInv, LoopInv, Spaced
  <2>3. UploadInv'
    BY <2>1 DEF QueueInv, UploadInv, Queued, Uploaded
  <2>4. RestInv'
    BY <2>1 DEF QueueInv, RestInv, Queued, Rested
  <2> QED
    BY <2>2, <2>3, <2>4 DEF QueueInv
<1>4. ASSUME NEW s \in Sats, SatPass(s) PROVE QueueInv'
  <2>1. /\ UNCHANGED <<clock, phase, todo, lastBurn>>
        /\ phase \in {"cola", "station", "recovery", "graveyard"}
    BY <1>4, VisitPushes
  <2>2. /\ Spaced'
        /\ \/ pending' = pending /\ todo' = todo
           \/ \E n \in Burn :
                /\ Queued' = Queued \cup {n}
                /\ n.sat = s /\ Uploaded(n) /\ Ahead(n) /\ Rested(s, n.epoch)
    BY <1>4, VisitQueue DEF QueueInv
  <2>3. CASE pending' = pending /\ todo' = todo
    BY <2>1, <2>3, QueueStays
  <2>4. ASSUME NEW n \in Burn, Queued' = Queued \cup {n}, n.sat = s,
               Uploaded(n), Ahead(n), Rested(s, n.epoch)
        PROVE  QueueInv'
    <3>1. LoopInv'
      BY <2>1 DEF QueueInv, LoopInv
    <3>2. UploadInv'
      BY <2>1, <2>4 DEF QueueInv, UploadInv, Uploaded, Ahead, DueOrAhead
    <3>3. RestInv'
      BY <2>1, <2>4 DEF QueueInv, RestInv, Rested
    <3> QED
      BY <2>2, <3>1, <3>2, <3>3 DEF QueueInv
  <2> QED
    BY <2>2, <2>3, <2>4
<1>5. CASE BeginUploads \/ BeginExecute
  <2>1. /\ todo = << >> /\ todo' = pending /\ pending' = << >>
        /\ UNCHANGED <<clock, lastBurn>>
        /\ \/ phase = "cola" /\ phase' = "uploads"
           \/ phase = "station" /\ phase' = "execute"
    BY <1>5 DEF BeginUploads, BeginExecute, QueueInv, LoopInv, fleet, engine
  <2>2. Spaced' /\ ToSet(pending') = {}
    BY <2>1, StartSpaced DEF QueueInv, Spaced, TypeOK
  <2>3. Queued' = Queued
    <3>1. ToSet(todo) = {}
      BY <2>1 DEF ToSet
    <3>2. ToSet(todo') = ToSet(pending)
      BY <2>1
    <3> QED
      BY <2>2, <3>1, <3>2 DEF Queued
  <2>4. LoopInv'
    BY <2>1 DEF LoopInv
  <2>5. UploadInv'
    BY <2>1, <2>2, <2>3 DEF QueueInv, UploadInv, Uploaded, DueOrAhead, Ahead
  <2>6. RestInv'
    BY <2>1, <2>3 DEF QueueInv, RestInv, Rested
  <2> QED
    BY <2>2, <2>4, <2>5, <2>6 DEF QueueInv
<1>6. CASE BeginStation \/ RecordExecuted \/ BeginGraveyard \/ EndStep
  <2>1. /\ UNCHANGED <<clock, pending, todo, lastBurn>>
        /\ \/ phase = "uploads" /\ phase' = "station" /\ todo = << >>
           \/ phase = "execute" /\ phase' = "recovery" /\ todo = << >>
           \/ phase = "recovery" /\ phase' = "graveyard"
           \/ phase = "graveyard" /\ phase' = "idle"
    BY <1>6 DEF BeginStation, RecordExecuted, BeginGraveyard, EndStep, fleet, engine
  <2>2. Queued' = Queued /\ (todo = << >> => Queued = ToSet(pending))
    <3>1. todo = << >> => ToSet(todo) = {}
      BY DEF ToSet
    <3> QED
      BY <2>1, <3>1 DEF Queued
  <2>3. LoopInv' /\ Spaced'
    BY <2>1 DEF QueueInv, LoopInv, Spaced
  <2>4. ASSUME NEW b \in ToSet(pending)
        PROVE  b.epoch \in Nat /\ clock \in Nat
    <3>1. b \in Burn
      BY DEF TypeOK, ToSet
    <3> QED
      BY <3>1 DEF TypeOK, Burn
  <2>5. UploadInv'
    <3>1. \A b \in Queued : Uploaded(b)'
      BY DEF QueueInv, UploadInv, Uploaded
    <3>2. CASE phase = "uploads" /\ phase' = "station" /\ todo = << >>
      BY <2>1, <2>2, <3>1, <3>2 DEF QueueInv, UploadInv, DueOrAhead, Ahead
    <3>3. CASE phase = "execute" /\ phase' = "recovery" /\ todo = << >>
      <4>1. \A b \in ToSet(pending) : Ahead(b)
        BY <2>2, <2>4, <3>3 DEF QueueInv, UploadInv, DueOrAhead
      <4> QED
        BY <2>1, <2>2, <3>1, <3>3, <4>1 DEF UploadInv, Ahead
    <3>4. CASE phase \in {"recovery", "graveyard"} /\ phase' \in {"graveyard", "idle"}
      BY <2>1, <2>2, <3>1, <3>4 DEF QueueInv, UploadInv, DueOrAhead, Ahead
    <3> QED
      BY <2>1, <3>2, <3>3, <3>4
  <2>6. RestInv'
    <3>1. \A b \in Queued : Rested(b.sat, b.epoch)
      BY <2>1, <2>2, <2>4 DEF QueueInv, RestInv, UploadInv
    <3> QED
      BY <2>1, <2>2, <3>1 DEF RestInv, Rested
  <2> QED
    BY <2>3, <2>5, <2>6 DEF QueueInv
<1>7. CASE ValidateBurn
  BY <1>7, ValidateKeepsQueue
<1>8. CASE ExecuteBurn
  BY <1>8, ExecuteKeepsQueue
<1>9. CASE UNCHANGED vars
  BY <1>9, QueueStays DEF vars, fleet, engine, loop
<1> QED
  BY <1>1, <1>2, <1>3, <1>4, <1>5, <1>6, <1>7, <1>8, <1>9
     DEF Next, Commands, QueuePass

LEMMA QueueInvHolds == Spec => []QueueInv
<1>1. Init => QueueInv
  BY DEF Init, QueueInv, LoopInv, Spaced, SpacedIn, UploadInv, RestInv, Queued, ToSet
<1> QED
  BY <1>1, TypeInvHolds, QueueStep, PTL DEF Spec

(* Five places push on one queue, each with its own cooldown check: no two *)
(* burns of a satellite come closer than the cooldown, whatever is pushed, *)
(* planned again, dropped or executed in between.                          *)
THEOREM CooldownCorrect == Spec => []QueueKeepsCooldown
<1>1. TypeInv /\ QueueInv => QueueKeepsCooldown
  BY DEF QueueInv, Spaced, SpacedIn, RestInv, Queued, ToSet, QueueKeepsCooldown
<1> QED
  BY <1>1, TypeInvHolds, QueueInvHolds, PTL

(* Between commands no queued burn has missed its upload: a step validates *)
(* what its clock has overtaken, and pushes nothing behind it.             *)
THEOREM UploadsCorrect == Spec => []UploadsAreAhead
<1>1. QueueInv => UploadsAreAhead
  BY DEF QueueInv, UploadInv, Uploaded, Ahead, Queued, ToSet, UploadsAreAhead
<1> QED
  BY <1>1, QueueInvHolds, PTL

(* The executor never meets a due burn that was not uploaded in time: its  *)
(* upload_missed branch is dead code.                                      *)
THEOREM DueCorrect == Spec => []DueBurnsAreUploaded
<1>1. TypeInv /\ QueueInv => DueBurnsAreUploaded
  <2> SUFFICES ASSUME TypeInv, QueueInv, NEW i \in DOMAIN todo, todo[i].epoch <= clock
               PROVE  UploadReady(todo[i]) /\ todo[i].upload \in Contact[todo[i].sat]
    BY DEF DueBurnsAreUploaded
  <2>1. todo[i] \in Burn /\ clock \in Nat
    BY DEF TypeInv, TypeOK
  <2>2. Uploaded(todo[i])
    BY DEF QueueInv, UploadInv, Queued, ToSet
  <2>3. todo[i].upload \in Nat \ {0} /\ todo[i].epoch \in Nat /\ Latency \in Nat
    BY <2>1, <2>2, OpsAssumption DEF Uploaded, Burn
  <2> QED
    BY <2>1, <2>2, <2>3 DEF Uploaded, UploadReady
<1> QED
  BY <1>1, TypeInvHolds, QueueInvHolds, PTL

-----------------------------------------------------------------------------
(* Retirement and reserves.                                                *)

(* A graveyard burn is alone in the whole queue; a retired satellite has   *)
(* neither burns nor a recovery request.                                   *)
GraveInv ==
  /\ \A b \in Queued : b.kind = "graveyard" =>
       b.sat \in graveReq /\ \A c \in Queued : c.sat = b.sat => c = b
  /\ \A b \in Queued : b.sat \notin graveDone
  /\ \A s \in Sats : status[s] = "OFFLINE" <=> s \in graveDone
  /\ \A s \in graveDone : request[s] = NoRequest

(* Burns that join the queue in a visit.                                   *)
LEMMA VisitJoins ==
  ASSUME TypeInv, Spaced, LoopInv, NEW s \in Sats, NEW kind \in Kinds,
         SatPass(s), PlansBurn(s, kind)
  PROVE  \E n \in Burn : Queued' = Queued \cup {n} /\ n.sat = s /\ n.kind = kind
<1>1. PICK t \in Nat, cost \in Nat :
        /\ CanUpload(s, t) /\ ~NearPending(s, t)
        /\ pending' = Append(pending, NewBurn(s, kind, t, cost))
  BY DEF PlansBurn
<1> DEFINE n == NewBurn(s, kind, t, cost)
<1>2. n \in Burn /\ n.sat = s /\ n.kind = kind /\ n.epoch = t
  BY <1>1, NewBurnUploaded DEF TypeInv
<1>3. todo = << >> /\ todo' = todo
  BY VisitPushes DEF LoopInv
<1> HIDE DEF n
<1>4. Queued' = Queued \cup {n}
  BY <1>1, <1>2, <1>3, PushQueue DEF n, TypeInv
<1> QED
  BY <1>2, <1>4

LEMMA HasPendingQueued ==
  ASSUME todo = << >>, NEW s, ~HasPending(s)
  PROVE  \A c \in Queued : c.sat # s
BY DEF HasPending, Queued, ToSet

LEMMA VisitKeepsGrave ==
  ASSUME TypeInv, QueueInv, GraveInv, NEW s \in Sats, SatPass(s)
  PROVE  GraveInv'
<1> USE DEF TypeInv, QueueInv
<1>1. UNCHANGED <<todo, graveDone>> /\ todo = << >>
  BY VisitPushes DEF LoopInv
<1>2. UNCHANGED pending => Queued' = Queued
  BY <1>1 DEF Queued
<1>3. CASE PlanCola(s)
  <2>1. /\ status[s] # "OFFLINE" /\ s \notin graveReq /\ s \notin graveDone
        /\ UNCHANGED request
        /\ UNCHANGED <<status, graveReq>> \/ Reserve(s)
    BY <1>3 DEF PlanCola, ColaEligible
  <2>2. \/ Queued' = Queued
        \/ \E n \in Burn : /\ Queued' = Queued \cup {n}
                           /\ n.sat = s /\ n.kind = "evasion"
    BY <1>2, <1>3, ColaPushes, VisitJoins DEF SatPass, Kinds
  <2> QED
    BY <1>1, <2>1, <2>2 DEF GraveInv, Reserve, TypeOK
<1>4. CASE KeepStation(s)
  <2>1. status[s] # "OFFLINE" /\ s \notin graveReq /\ s \notin graveDone
    BY <1>4 DEF KeepStation, StationEligible
  <2>2. \/ Queued' = Queued
        \/ \E n \in Burn : /\ Queued' = Queued \cup {n}
                           /\ n.sat = s /\ n.kind = "recovery"
    BY <1>2, <1>4, StationPushes, VisitJoins DEF SatPass, Kinds
  <2>3. /\ UNCHANGED <<status, graveReq>> \/ Reserve(s)
        /\ \E left \in Nat \cup {NoRequest} : request' = [request EXCEPT ![s] = left]
    BY <1>4, StationPushes
  <2> QED
    BY <1>1, <2>1, <2>2, <2>3 DEF GraveInv, Reserve, TypeOK
<1>5. CASE Recover(s)
  <2>1. request[s] # NoRequest /\ s \notin graveReq /\ s \notin graveDone
    BY <1>5 DEF Recover, RecoveryReady, GraveInv
  <2>2. \/ Queued' = Queued
        \/ \E n \in Burn : /\ Queued' = Queued \cup {n}
                           /\ n.sat = s /\ n.kind = "recovery"
    BY <1>2, <1>5, RecoverPushes, VisitJoins DEF SatPass, Kinds
  <2>3. /\ UNCHANGED <<status, graveReq>> \/ Reserve(s)
        /\ \/ UNCHANGED request
           \/ \E left \in Nat \cup {NoRequest} : request' = [request EXCEPT ![s] = left]
    BY <1>5, RecoverPushes
  <2> QED
    BY <1>1, <2>1, <2>2, <2>3 DEF GraveInv, Reserve, TypeOK
<1>6. CASE PlanGraveyard(s)
  <2>1. /\ status[s] # "OFFLINE" /\ s \notin graveDone
        /\ graveReq' = graveReq \cup {s} /\ UNCHANGED request
        /\ status' \in {status, [status EXCEPT ![s] = "FUEL_LOW"]}
    BY <1>6 DEF PlanGraveyard, GraveyardDue, QueueGraveyard
  <2>2. \/ Queued' = Queued
        \/ /\ \A c \in Queued : c.sat # s
           /\ \E n \in Burn : /\ Queued' = Queued \cup {n}
                              /\ n.sat = s /\ n.kind = "graveyard"
    BY <1>1, <1>2, <1>6, GraveyardPushes, HasPendingQueued, VisitJoins
       DEF SatPass, Kinds
  <2> QED
    BY <1>1, <2>1, <2>2 DEF GraveInv, TypeOK
<1>7. CASE NoCola(s) \/ InSlot(s) \/ DeferRecovery(s) \/ NoGraveyard(s)
  BY <1>1, <1>2, <1>7
     DEF NoCola, InSlot, DeferRecovery, NoGraveyard, fleet, engine, GraveInv
<1> QED
  BY <1>3, <1>4, <1>5, <1>6, <1>7 DEF SatPass

LEMMA ExecuteKeepsGrave ==
  ASSUME TypeInv, QueueInv, GraveInv, ExecuteBurn
  PROVE  GraveInv'
<1> USE OpsAssumption DEF TypeInv
<1> DEFINE b == Head(todo)
<1>1. /\ todo # << >> /\ todo' = Tail(todo)
      /\ \/ UNCHANGED fleet /\ pending' \in {pending, Append(pending, b)}
         \/ Fire(b) /\ pending' = pending
  BY DEF ExecuteBurn, Fire
<1>2. b \in Burn
  BY <1>1, HeadApart DEF QueueInv, Spaced, TypeOK
<1>3. /\ ToSet(todo) = {b} \cup ToSet(todo')
      /\ \A c \in ToSet(pending) \cup ToSet(todo') : c # b
  BY <1>1, <1>2, LoopQueue DEF QueueInv
<1>4. pending' = Append(pending, b) => ToSet(pending') = ToSet(pending) \cup {b}
  BY <1>1, <1>2, KeepSpaced DEF QueueInv, Spaced, TypeOK
<1>5. b \in Queued /\ b.sat \in Sats /\ b.sat \notin graveDone
  BY <1>2, <1>3 DEF Queued, GraveInv, Burn
<1> HIDE DEF b
<1>6. CASE UNCHANGED fleet /\ pending' \in {pending, Append(pending, b)}
  <2>1. Queued' \subseteq Queued
    BY <1>3, <1>4, <1>6 DEF Queued
  <2> QED
    BY <1>6, <2>1 DEF GraveInv, fleet, engine
<1>7. CASE Fire(b) /\ pending' = pending
  <2>1. Queued' \subseteq Queued /\ b \notin Queued'
    BY <1>3, <1>7 DEF Queued
  <2>2. graveReq' = graveReq \/ graveReq' = graveReq \ {b.sat}
    BY <1>7 DEF Fire
  <2>3. ASSUME NEW c \in Queued', c.kind = "graveyard"
        PROVE  c.sat \in graveReq' /\ \A d \in Queued' : d.sat = c.sat => d = c
    <3>1. c.sat # b.sat
      BY <1>5, <2>1, <2>3 DEF GraveInv
    <3> QED
      BY <2>1, <2>2, <2>3, <3>1 DEF GraveInv
  <2>4. CASE b.kind = "graveyard"
    <3>1. /\ graveDone' = graveDone \cup {b.sat}
          /\ status' = [status EXCEPT ![b.sat] = "OFFLINE"]
          /\ request' = [request EXCEPT ![b.sat] = NoRequest]
      BY <1>7, <2>4 DEF Fire, RequestAfter
    <3>2. \A c \in Queued' : c.sat # b.sat
      BY <1>5, <2>1, <2>4 DEF GraveInv
    <3>3. \A c \in Queued' : c.sat \notin graveDone'
      BY <2>1, <3>1, <3>2 DEF GraveInv
    <3>4. /\ \A s \in Sats : status'[s] = "OFFLINE" <=> s \in graveDone'
          /\ \A s \in graveDone' : request'[s] = NoRequest
      BY <1>5, <3>1 DEF GraveInv, TypeOK
    <3> QED
      BY <2>3, <3>3, <3>4 DEF GraveInv
  <2>5. CASE b.kind # "graveyard"
    <3>1. /\ graveDone' = graveDone
          /\ \E st \in {"FUEL_LOW", "MANEUVERING"} :
               status' = [status EXCEPT ![b.sat] = st]
          /\ request' = [request EXCEPT ![b.sat] = RequestAfter(b)]
      BY <1>7, <2>5 DEF Fire
    <3>2. /\ \A s \in Sats : status'[s] = "OFFLINE" <=> s \in graveDone'
          /\ \A s \in graveDone' : request'[s] = NoRequest
      BY <1>5, <3>1 DEF GraveInv, TypeOK
    <3> QED
      BY <2>1, <2>3, <3>1, <3>2 DEF GraveInv
  <2> QED
    BY <2>4, <2>5
<1> QED
  BY <1>1, <1>6, <1>7

LEMMA GraveStep == TypeInv /\ QueueInv /\ GraveInv /\ [Next]_vars => GraveInv'
<1> USE OpsAssumption DEF TypeInv
<1> SUFFICES ASSUME TypeInv, QueueInv, GraveInv, [Next]_vars PROVE GraveInv'
  OBVIOUS
<1>1. ASSUME NEW s \in Sats, IngestTelemetry(s) PROVE GraveInv'
  BY <1>1 DEF IngestTelemetry, GraveInv, Queued, loop
<1>2. ASSUME NEW s \in Sats, NEW orders \in Orders, ScheduleManeuver(s, orders)
      PROVE  GraveInv'
  <2>1. /\ status[s] # "OFFLINE" /\ s \notin graveReq
        /\ UNCHANGED <<status, graveReq, graveDone>>
        /\ request' = [request EXCEPT ![s] = NoRequest]
    BY <1>2 DEF ScheduleManeuver
  <2>2. /\ Queued' = Queued \cup ToSet(Ordered(s, orders))
        /\ \A n \in ToSet(Ordered(s, orders)) : n.sat = s /\ n.kind = "manual"
    BY <1>2, OrderQueue DEF QueueInv
  <2> QED
    BY <2>1, <2>2 DEF GraveInv, TypeOK
<1>3. ASSUME NEW dt \in StepSizes, BeginStep(dt) PROVE GraveInv'
  BY <1>3 DEF BeginStep, GraveInv, Queued, fleet, engine
<1>4. ASSUME NEW s \in Sats, SatPass(s) PROVE GraveInv'
  BY <1>4, VisitKeepsGrave
<1>5. CASE BeginUploads \/ BeginExecute
  <2>1. todo = << >> /\ todo' = pending /\ pending' = << >> /\ UNCHANGED fleet
    BY <1>5 DEF BeginUploads, BeginExecute, QueueInv, LoopInv
  <2>2. Queued' = Queued
    BY <2>1 DEF Queued, ToSet
  <2> QED
    BY <2>1, <2>2 DEF GraveInv, fleet, engine
<1>6. CASE BeginStation \/ RecordExecuted \/ BeginGraveyard \/ EndStep
  <2>1. UNCHANGED <<engine, pending, todo>>
    BY <1>6 DEF BeginStation, RecordExecuted, BeginGraveyard, EndStep, fleet
  <2> QED
    BY <2>1 DEF GraveInv, engine, Queued
<1>7. CASE ValidateBurn
  <2> DEFINE b == Head(todo)
             planned == [b EXCEPT !.upload = UploadEpoch(b.sat, b.epoch)]
  <2>1. /\ todo # << >> /\ todo' = Tail(todo) /\ UNCHANGED fleet
        /\ \/ pending' = pending
           \/ pending' = Append(pending, b)
           \/ pending' = Append(pending, planned) /\ CanUpload(b.sat, b.epoch)
    BY <1>7 DEF ValidateBurn
  <2>2. b \in Burn
    BY <2>1, HeadApart DEF QueueInv, Spaced, TypeOK
  <2>3. CanUpload(b.sat, b.epoch) =>
          /\ planned \in Burn /\ planned.sat = b.sat /\ planned.epoch = b.epoch
          /\ planned.kind = b.kind
    BY <2>2, UploadInTime DEF Burn
  <2>4. \/ pending' = pending
        \/ \E n \in Burn : /\ n.sat = b.sat /\ n.epoch = b.epoch /\ n.kind = b.kind
                           /\ pending' = Append(pending, n)
    BY <2>1, <2>2, <2>3
  <2> HIDE DEF b, planned
  <2>5. /\ ToSet(todo) = {b} \cup ToSet(todo')
        /\ \A c \in ToSet(pending) \cup ToSet(todo') : c # b
    BY <2>1, <2>2, <2>4, LoopQueue DEF QueueInv, b
  <2>6. CASE pending' = pending
    <3>1. Queued' \subseteq Queued
      BY <2>5, <2>6 DEF Queued
    <3> QED
      BY <2>1, <3>1 DEF GraveInv, fleet, engine
  <2>7. ASSUME NEW n \in Burn, n.sat = b.sat, n.epoch = b.epoch, n.kind = b.kind,
               pending' = Append(pending, n)
        PROVE  GraveInv'
    <3>1. ToSet(pending') = ToSet(pending) \cup {n}
      BY <2>1, <2>7, KeepSpaced DEF QueueInv, Spaced, TypeOK, b
    <3>2. /\ Queued' = (Queued \ {b}) \cup {n}
          /\ b \in Queued
      BY <2>5, <3>1 DEF Queued
    <3> QED
      BY <2>1, <2>7, <3>2 DEF GraveInv, fleet, engine
  <2> QED
    BY <2>4, <2>6, <2>7
<1>8. CASE ExecuteBurn
  BY <1>8, ExecuteKeepsGrave
<1>9. CASE UNCHANGED vars
  BY <1>9 DEF vars, fleet, engine, loop, GraveInv, Queued
<1> QED
  BY <1>1, <1>2, <1>3, <1>4, <1>5, <1>6, <1>7, <1>8, <1>9
     DEF Next, Commands, QueuePass

LEMMA GraveInvHolds == Spec => []GraveInv
<1>1. Init => GraveInv
  BY DEF Init, GraveInv, Queued, ToSet
<1> QED
  BY <1>1, TypeInvHolds, QueueInvHolds, GraveStep, PTL DEF Spec

(* The transfer competes with burns of four other sources for one          *)
(* satellite, and is the last and only one: planners skip a reserved       *)
(* satellite, the graveyard pass waits until nothing is queued.            *)
THEOREM GraveyardCorrect == Spec => []GraveyardIsAlone
<1>1. TypeInv /\ QueueInv /\ GraveInv => GraveyardIsAlone
  <2> SUFFICES ASSUME TypeInv, QueueInv, GraveInv,
                      NEW i \in DOMAIN pending, pending[i].kind = "graveyard"
               PROVE  /\ pending[i].sat \in graveReq \ graveDone
                      /\ \A j \in DOMAIN pending :
                           pending[j].sat = pending[i].sat => j = i
    BY DEF GraveyardIsAlone
  <2>1. \A j \in DOMAIN pending : pending[j] \in Queued /\ pending[j] \in Burn
    BY DEF Queued, ToSet, TypeInv, TypeOK
  <2>2. pending[i].sat \in graveReq \ graveDone
    BY <2>1 DEF GraveInv
  <2>3. ASSUME NEW j \in DOMAIN pending, pending[j].sat = pending[i].sat, j # i
        PROVE  FALSE
    <3>1. pending[j] = pending[i]
      BY <2>1, <2>3 DEF GraveInv
    <3>2. Apart(pending[i].epoch, pending[i].epoch) >= Cooldown
      BY <2>3, <3>1 DEF QueueInv, Spaced, SpacedIn
    <3>3. Apart(pending[i].epoch, pending[i].epoch) = 0
      BY <2>1 DEF Apart, Burn
    <3> QED
      BY <3>2, <3>3, OpsAssumption
  <2> QED
    BY <2>2, <2>3
<1> QED
  BY <1>1, TypeInvHolds, QueueInvHolds, GraveInvHolds, PTL

(* Retirement is final: OFFLINE is exactly a completed transfer, and       *)
(* nothing is queued for, or owed to, a retired satellite.                 *)
THEOREM OfflineCorrect == Spec => []OfflineIsFinal
<1>1. TypeInv /\ GraveInv => OfflineIsFinal
  BY DEF GraveInv, OfflineIsFinal, HasPending, Queued, ToSet, TypeInv, TypeOK
<1> QED
  BY <1>1, TypeInvHolds, GraveInvHolds, PTL

(* The graveyard pass reserves every satellite at the end of its fuel that *)
(* it has visited; nothing else runs until the next step burns propellant. *)
EolInv ==
  \A s \in known :
    (phase = "idle" \/ (phase = "graveyard" /\ s < sat)) /\ fuel[s] <= Eol =>
      s \in graveReq \cup graveDone

LEMMA EolStep == TypeInv /\ GraveInv /\ EolInv /\ [Next]_vars => EolInv'
<1> USE OpsAssumption DEF TypeInv
<1> SUFFICES ASSUME TypeInv, GraveInv, EolInv, [Next]_vars PROVE EolInv'
  OBVIOUS
<1>1. ASSUME NEW s \in Sats, IngestTelemetry(s) PROVE EolInv'
  BY <1>1 DEF IngestTelemetry, EolInv, loop
<1>2. ASSUME NEW s \in Sats, NEW orders \in Orders, ScheduleManeuver(s, orders)
      PROVE  EolInv'
  BY <1>2 DEF ScheduleManeuver, EolInv, loop
<1>3. ASSUME NEW dt \in StepSizes, BeginStep(dt) PROVE EolInv'
  BY <1>3 DEF BeginStep, EolInv
<1>4. ASSUME NEW s \in Sats, SatPass(s) PROVE EolInv'
  <2>1. /\ UNCHANGED <<phase, known, fuel, graveDone>> /\ phase # "idle"
        /\ sat = s /\ sat' = s + 1
    BY <1>4, VisitPushes
  <2>2. CASE phase # "graveyard"
    BY <2>1, <2>2 DEF EolInv
  <2>3. CASE phase = "graveyard"
    <3>1. PlanGraveyard(s) \/ NoGraveyard(s)
      BY <1>4, <2>3 DEF SatPass, PlanCola, NoCola, KeepStation, InSlot, Recover,
                        DeferRecovery, Visits
    <3>2. graveReq \subseteq graveReq'
      BY <3>1 DEF PlanGraveyard, NoGraveyard, fleet, engine
    <3>3. s \in known /\ fuel[s] <= Eol => s \in graveReq' \cup graveDone
      BY <3>1 DEF PlanGraveyard, NoGraveyard, GraveyardDue, GraveInv
    <3>4. ASSUME NEW r \in known, r < sat', r # s PROVE r < sat
      BY <2>1, <3>4 DEF TypeOK, Sats
    <3> QED
      BY <2>1, <2>3, <3>2, <3>3, <3>4 DEF EolInv
  <2> QED
    BY <2>2, <2>3
<1>5. CASE BeginUploads \/ BeginStation \/ BeginExecute \/ RecordExecuted
  BY <1>5 DEF BeginUploads, BeginStation, BeginExecute, RecordExecuted, EolInv
<1>6. CASE BeginGraveyard
  BY <1>6 DEF BeginGraveyard, EolInv, TypeOK, Sats, fleet, engine
<1>7. CASE EndStep
  BY <1>7 DEF EndStep, EolInv, TypeOK, Sats, engine
<1>8. CASE ValidateBurn \/ ExecuteBurn
  BY <1>8 DEF ValidateBurn, ExecuteBurn, EolInv
<1>9. CASE UNCHANGED vars
  BY <1>9 DEF vars, fleet, engine, loop, EolInv
<1> QED
  BY <1>1, <1>2, <1>3, <1>4, <1>5, <1>6, <1>7, <1>8, <1>9
     DEF Next, Commands, QueuePass

(* No operator can use a satellite that is at the end of its fuel.         *)
THEOREM EolCorrect == Spec => []EolIsReserved
<1>1. Init => EolInv
  BY DEF Init, EolInv
<1>2. EolInv => EolIsReserved
  BY DEF EolInv, EolIsReserved
<1> QED
  BY <1>1, <1>2, TypeInvHolds, GraveInvHolds, EolStep, PTL DEF Spec

-----------------------------------------------------------------------------
(* What is owed after an evasion.                                          *)

(* Recovery burns that are queued, or that this step has lost.             *)
Remembered == Queued \cup dropped \cup (before \ fired)

Recovering(s) == \E b \in Remembered : b.kind = "recovery" /\ b.sat = s

OwedInv ==
  /\ phase \in {"idle", "cola", "uploads", "station"} => before = {} /\ fired = {}
  /\ phase = "idle" => dropped = {}
  /\ phase = "execute" => Queued \subseteq before /\ fired \cap Queued = {}
  /\ \A s \in owed : request[s] # NoRequest \/ Recovering(s)

LEMMA VisitKeepsOwed ==
  ASSUME TypeInv, QueueInv, OwedInv, NEW s \in Sats, SatPass(s)
  PROVE  OwedInv'
<1> USE DEF TypeInv, QueueInv
<1>1. /\ UNCHANGED <<phase, todo, before, fired, dropped>> /\ todo = << >>
      /\ phase \in {"cola", "station", "recovery", "graveyard"}
  BY VisitPushes DEF LoopInv, tick
<1>2. UNCHANGED pending => Queued' = Queued
  BY <1>1 DEF Queued
<1>3. Queued \subseteq Queued'
  BY <1>2, VisitQueue
<1>4. \A r : Recovering(r) => Recovering(r)'
  BY <1>1, <1>3 DEF Recovering, Remembered
<1>5. ASSUME PlansBurn(s, "recovery") PROVE Recovering(s)'
  <2>1. \E n \in Burn : /\ Queued' = Queued \cup {n}
                        /\ n.sat = s /\ n.kind = "recovery"
    BY <1>5, VisitJoins DEF Kinds
  <2> QED
    BY <2>1 DEF Recovering, Remembered
<1>6. /\ owed' \subseteq owed
      /\ \A r \in owed' : request[r] # NoRequest => request'[r] # NoRequest \/ Recovering(r)'
  <2>1. CASE PlanCola(s) \/ PlanGraveyard(s)
    BY <2>1 DEF PlanCola, PlanGraveyard
  <2>2. CASE KeepStation(s)
    <3>1. /\ \/ \E req \in Nat : request' = [request EXCEPT ![s] = req]
             \/ /\ PlansBurn(s, "recovery")
                /\ \E left \in Nat \cup {NoRequest} :
                     request' = [request EXCEPT ![s] = left]
          /\ UNCHANGED owed
      BY <2>2, StationPushes DEF KeepStation
    <3> QED
      BY <1>5, <3>1 DEF TypeOK, NoRequest
  <2>3. CASE Recover(s)
    <3>1. \/ UNCHANGED <<request, owed>>
          \/ request' = [request EXCEPT ![s] = NoRequest] /\ owed' = owed \ {s}
          \/ /\ PlansBurn(s, "recovery") /\ UNCHANGED owed
             /\ \E left \in Nat \cup {NoRequest} :
                  request' = [request EXCEPT ![s] = left]
      BY <2>3, RecoverPushes
    <3> QED
      BY <1>5, <3>1 DEF TypeOK
  <2>4. CASE NoCola(s) \/ InSlot(s) \/ DeferRecovery(s) \/ NoGraveyard(s)
    BY <2>4 DEF NoCola, InSlot, DeferRecovery, NoGraveyard, fleet, engine
  <2> QED
    BY <2>1, <2>2, <2>3, <2>4 DEF SatPass
<1> QED
  BY <1>1, <1>4, <1>6 DEF OwedInv

LEMMA ExecuteKeepsOwed ==
  ASSUME TypeInv, QueueInv, OwedInv, ExecuteBurn
  PROVE  OwedInv'
<1> USE OpsAssumption DEF TypeInv
<1> DEFINE b == Head(todo)
<1>1. /\ phase = "execute" /\ phase' = "execute" /\ before' = before
      /\ todo # << >> /\ todo' = Tail(todo)
      /\ \/ /\ UNCHANGED <<fleet, fired, dropped>>
            /\ pending' = Append(pending, b)
         \/ /\ UNCHANGED <<fleet, fired, pending>>
            /\ dropped' = dropped \cup {b}
         \/ UNCHANGED <<fleet, fired, dropped, pending>>
         \/ Fire(b)
  BY DEF ExecuteBurn
<1>2. b \in Burn
  BY <1>1, HeadApart DEF QueueInv, Spaced, TypeOK
<1>3. pending' = pending \/ pending' = Append(pending, b)
  BY <1>1 DEF Fire
<1>4. /\ ToSet(todo) = {b} \cup ToSet(todo')
      /\ \A c \in ToSet(pending) \cup ToSet(todo') : c # b
  BY <1>1, <1>2, <1>3, LoopQueue DEF QueueInv
<1>5. pending' = Append(pending, b) => ToSet(pending') = ToSet(pending) \cup {b}
  BY <1>1, <1>2, KeepSpaced DEF QueueInv, Spaced, TypeOK
<1> HIDE DEF b
<1>6. /\ Queued \subseteq before /\ fired \cap Queued = {}
      /\ b \in before /\ b \notin fired
  BY <1>1, <1>4 DEF OwedInv, Queued
<1>7. /\ Queued' \subseteq Queued
      /\ Queued \ {b} \subseteq Queued'
      /\ pending' = pending => b \notin Queued'
  BY <1>3, <1>4, <1>5 DEF Queued
<1>8. CASE UNCHANGED <<fleet, fired>>
  <2>1. dropped \subseteq dropped'
    BY <1>1, <1>8 DEF Fire
  <2>2. Remembered \subseteq Remembered'
    BY <1>1, <1>6, <1>7, <1>8, <2>1 DEF Remembered
  <2> QED
    BY <1>1, <1>6, <1>7, <1>8, <2>2 DEF OwedInv, Recovering, fleet, engine
<1>9. CASE Fire(b)
  <2>1. /\ pending' = pending /\ dropped' = dropped /\ fired' = fired \cup {b}
        /\ request' = [request EXCEPT ![b.sat] = RequestAfter(b)]
    BY <1>9 DEF Fire
  <2>2. Remembered \ {b} \subseteq Remembered'
    BY <1>1, <1>7, <2>1 DEF Remembered
  <2>3. b.sat \in Sats /\ b.epoch \in Nat
    BY <1>2 DEF Burn
  <2>4. ASSUME NEW s \in owed' PROVE request'[s] # NoRequest \/ Recovering(s)'
    <3>1. CASE b.kind = "evasion" /\ s = b.sat
      <4>1. RequestAfter(b) \in Nat
        <5>1. /\ request[b.sat] \in Nat \cup {NoRequest} /\ NoRequest \in Int
              /\ b.epoch + Cooldown \in Nat
          BY <2>3 DEF TypeOK, NoRequest
        <5>2. Later(request[b.sat], b.epoch + Cooldown) \in Nat
          BY <5>1 DEF Later, NoRequest
        <5> QED
          BY <3>1, <5>1, <5>2 DEF RequestAfter
      <4> QED
        BY <2>1, <2>3, <3>1, <4>1 DEF TypeOK, NoRequest
    <3>2. CASE b.kind = "manual" \/ s # b.sat
      <4>1. s \in owed /\ s \in Sats
        BY <1>9, <2>4, <3>2 DEF Fire, TypeOK
      <4>2. request'[s] = request[s]
        BY <2>1, <2>3, <3>2, <4>1 DEF RequestAfter, TypeOK
      <4>3. Recovering(s) => Recovering(s)'
        BY <2>2, <3>2 DEF Recovering
      <4> QED
        BY <4>1, <4>2, <4>3 DEF OwedInv
    <3>3. CASE b.kind \notin {"manual", "evasion"}
      BY <1>9, <2>4, <3>2, <3>3 DEF Fire
    <3> QED
      BY <3>1, <3>2, <3>3
  <2>5. fired' \cap Queued' = {} /\ Queued' \subseteq before'
    BY <1>1, <1>6, <1>7, <2>1
  <2> QED
    BY <1>1, <2>4, <2>5 DEF OwedInv
<1> QED
  BY <1>1, <1>8, <1>9

LEMMA OwedStep == TypeInv /\ QueueInv /\ OwedInv /\ [Next]_vars => OwedInv'
<1> USE OpsAssumption DEF TypeInv
<1> SUFFICES ASSUME TypeInv, QueueInv, OwedInv, [Next]_vars PROVE OwedInv'
  OBVIOUS
<1>1. ASSUME NEW s \in Sats, IngestTelemetry(s) PROVE OwedInv'
  BY <1>1 DEF IngestTelemetry, OwedInv, Recovering, Remembered, Queued, loop, tick
<1>2. ASSUME NEW s \in Sats, NEW orders \in Orders, ScheduleManeuver(s, orders)
      PROVE  OwedInv'
  <2>1. /\ phase = "idle" /\ UNCHANGED <<phase, before, fired, dropped>>
        /\ request' = [request EXCEPT ![s] = NoRequest] /\ owed' = owed \ {s}
    BY <1>2 DEF ScheduleManeuver, loop, tick
  <2>2. Queued \subseteq Queued'
    BY <1>2, OrderQueue DEF QueueInv
  <2>3. Remembered \subseteq Remembered'
    BY <2>1, <2>2 DEF Remembered
  <2> QED
    BY <2>1, <2>3 DEF OwedInv, Recovering, TypeOK
<1>3. ASSUME NEW dt \in StepSizes, BeginStep(dt) PROVE OwedInv'
  BY <1>3 DEF BeginStep, OwedInv, Recovering, Remembered, Queued, fleet, engine, tick
<1>4. ASSUME NEW s \in Sats, SatPass(s) PROVE OwedInv'
  BY <1>4, VisitKeepsOwed
<1>5. CASE BeginUploads \/ BeginExecute
  <2>1. /\ todo = << >> /\ todo' = pending /\ pending' = << >>
        /\ UNCHANGED <<fleet, fired, dropped>>
        /\ \/ phase = "cola" /\ phase' = "uploads" /\ before' = before
           \/ /\ phase = "station" /\ phase' = "execute"
              /\ before' = ToSet(pending)
    BY <1>5 DEF BeginUploads, BeginExecute, QueueInv, LoopInv, tick
  <2>2. Queued' = Queued /\ Queued = ToSet(pending)
    BY <2>1 DEF Queued, ToSet
  <2>3. before = {} /\ fired = {}
    BY <2>1 DEF OwedInv
  <2>4. Remembered \subseteq Remembered'
    BY <2>1, <2>2, <2>3 DEF Remembered
  <2> QED
    BY <2>1, <2>2, <2>3, <2>4 DEF OwedInv, Recovering, fleet, engine
<1>6. CASE BeginStation \/ RecordExecuted \/ BeginGraveyard
  <2>1. /\ UNCHANGED <<fleet, pending, todo, before, fired, dropped>>
        /\ \/ phase = "uploads" /\ phase' = "station"
           \/ phase' \in {"recovery", "graveyard"}
    BY <1>6 DEF BeginStation, RecordExecuted, BeginGraveyard, tick
  <2> QED
    BY <2>1 DEF OwedInv, Recovering, Remembered, Queued, fleet, engine
<1>7. CASE ValidateBurn
  <2> DEFINE b == Head(todo)
             planned == [b EXCEPT !.upload = UploadEpoch(b.sat, b.epoch)]
  <2>1. /\ phase = "uploads" /\ phase' = phase /\ UNCHANGED <<fleet, before, fired>>
        /\ todo # << >> /\ todo' = Tail(todo)
        /\ \/ pending' = pending /\ dropped' = dropped \cup {b}
           \/ pending' = Append(pending, b) /\ dropped' = dropped
           \/ /\ pending' = Append(pending, planned) /\ CanUpload(b.sat, b.epoch)
              /\ dropped' = dropped
    BY <1>7 DEF ValidateBurn
  <2>2. b \in Burn /\ ToSet(todo) = {b} \cup ToSet(todo')
    BY <2>1, HeadApart DEF QueueInv, Spaced, TypeOK
  <2>3. CanUpload(b.sat, b.epoch) =>
          /\ planned \in Burn /\ planned.sat = b.sat /\ planned.epoch = b.epoch
          /\ planned.kind = b.kind
    BY <2>2, UploadInTime DEF Burn
  <2>4. \/ pending' = pending /\ dropped' = dropped \cup {b}
        \/ /\ dropped' = dropped
           /\ \E n \in Burn : /\ n.sat = b.sat /\ n.epoch = b.epoch
                              /\ n.kind = b.kind /\ pending' = Append(pending, n)
    BY <2>1, <2>2, <2>3
  <2> HIDE DEF b, planned
  <2>5. ASSUME NEW s, Recovering(s) PROVE Recovering(s)'
    <3>1. PICK c \in Remembered : c.kind = "recovery" /\ c.sat = s
      BY <2>5 DEF Recovering
    <3>2. CASE pending' = pending /\ dropped' = dropped \cup {b}
      <4>1. Remembered \subseteq Remembered'
        BY <2>1, <2>2, <3>2 DEF Remembered, Queued
      <4> QED
        BY <3>1, <4>1 DEF Recovering
    <3>3. ASSUME NEW n \in Burn, n.sat = b.sat, n.epoch = b.epoch, n.kind = b.kind,
                 pending' = Append(pending, n), dropped' = dropped
          PROVE  Recovering(s)'
      <4>1. ToSet(pending') = ToSet(pending) \cup {n}
        BY <2>1, <3>3, KeepSpaced DEF QueueInv, Spaced, TypeOK, b
      <4>2. c = b \/ c \in Remembered'
        BY <2>1, <2>2, <3>3, <4>1 DEF Remembered, Queued
      <4>3. n \in Remembered'
        BY <4>1 DEF Remembered, Queued
      <4> QED
        BY <3>1, <3>3, <4>2, <4>3 DEF Recovering
    <3> QED
      BY <2>4, <3>2, <3>3
  <2> QED
    BY <2>1, <2>5 DEF OwedInv, fleet, engine
<1>8. CASE ExecuteBurn
  BY <1>8, ExecuteKeepsOwed
<1>9. CASE EndStep
  <2>1. /\ phase' = "idle" /\ phase = "graveyard"
        /\ UNCHANGED <<engine, pending, todo>>
        /\ before' = {} /\ fired' = {} /\ dropped' = {}
        /\ owed' = owed \ {b.sat : b \in {c \in Lost : c.kind = "recovery"}}
    BY <1>9 DEF EndStep
  <2>2. Queued' = Queued /\ Queued = ToSet(pending)
    BY <2>1 DEF Queued, QueueInv, LoopInv, ToSet
  <2>3. ASSUME NEW s \in owed', Recovering(s) PROVE Recovering(s)'
    <3>1. PICK b \in Remembered : b.kind = "recovery" /\ b.sat = s
      BY <2>3 DEF Recovering
    <3>2. b \notin Lost
      BY <2>1, <2>3, <3>1
    <3>3. b \in Queued
      BY <2>2, <3>1, <3>2 DEF Remembered, Lost
    <3> QED
      BY <2>2, <3>1, <3>3 DEF Recovering, Remembered
  <2> QED
    BY <2>1, <2>3 DEF OwedInv, engine
<1>10. CASE UNCHANGED vars
  BY <1>10 DEF vars, fleet, engine, loop, tick, OwedInv, Recovering, Remembered, Queued
<1> QED
  BY <1>1, <1>2, <1>3, <1>4, <1>5, <1>6, <1>7, <1>8, <1>9, <1>10
     DEF Next, Commands, QueuePass

(* An executed evasion leaves a recovery request, and whatever the passes  *)
(* do with it until a recovery burn leaves the queue (defer it, plan it    *)
(* and reduce it, plan it again) the correction stays requested or queued. *)
THEOREM OwedCorrect == Spec => []EvasionsAreOwed
<1>1. Init => OwedInv
  BY DEF Init, OwedInv
<1>2. TypeInv /\ QueueInv /\ OwedInv => EvasionsAreOwed
  <2> SUFFICES ASSUME TypeInv, QueueInv, OwedInv, phase = "idle", NEW s \in owed,
                      request[s] = NoRequest
               PROVE  \E i \in DOMAIN pending :
                        pending[i].sat = s /\ pending[i].kind = "recovery"
    BY DEF EvasionsAreOwed
  <2>1. Remembered = ToSet(pending)
    BY DEF Remembered, Queued, OwedInv, QueueInv, LoopInv, ToSet
  <2>2. Recovering(s)
    BY DEF OwedInv
  <2> QED
    BY <2>1, <2>2 DEF Recovering, ToSet
<1> QED
  BY <1>1, <1>2, TypeInvHolds, QueueInvHolds, OwedStep, PTL DEF Spec
=============================================================================
