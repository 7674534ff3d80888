-------------------------- MODULE Algorithms_proofs --------------------------
(***************************************************************************)
(* Theorems about the computations of the runtime: the reply to a request, *)
(* the avoidance burn, the predictive scan and the trajectory, for every   *)
(* list of candidate pairs, every situation, every recording and every     *)
(* body, environment and page the assumptions of Algorithms allow.         *)
(*                                                                         *)
(* The answers are folds over sequences of any length: FoldTheorems gives  *)
(* the run of partial results, and each section finds what holds along it. *)
(***************************************************************************)
EXTENDS Algorithms, FoldTheorems

-----------------------------------------------------------------------------
(* Replies: the first fault of a body is named, and a reply tells the      *)
(* truth.                                                                  *)

(* FirstFault is the fault of a check that fails, unless none does. *)
LEMMA FirstFaultOf ==
  ASSUME NEW V, NEW checks \in Seq(V)
  PROVE  \/ /\ \A c \in ToSet(checks) : ~c.fails
            /\ FirstFault(checks) = NoFault
         \/ \E c \in ToSet(checks) : c.fails /\ FirstFault(checks) = c.fault
<1> DEFINE failing == {i \in DOMAIN checks : checks[i].fails}
<1>1. failing \in SUBSET Nat /\ DOMAIN checks = 1..Len(checks)
  OBVIOUS
<1>2. CASE failing = {}
  <2>1. \A c \in ToSet(checks) : ~c.fails
    BY <1>2 DEF ToSet
  <2> QED BY <1>2, <2>1 DEF FirstFault
<1>3. CASE failing # {}
  <2>1. \E m \in failing : \A j \in failing : m <= j
    <3> HIDE DEF failing
    <3> QED BY <1>1, <1>3, LeastNatural
  <2> DEFINE first == CHOOSE i \in failing : \A j \in failing : i <= j
  <2>2. first \in failing
    BY <2>1
  <2>3. FirstFault(checks) = checks[first].fault
    BY <1>3 DEF FirstFault
  <2>4. checks[first] \in ToSet(checks) /\ checks[first].fails
    BY <2>2 DEF ToSet
  <2> HIDE DEF first
  <2> QED BY <2>3, <2>4
<1> QED BY <1>2, <1>3

-----------------------------------------------------------------------------
(* The fault of a body: none exactly if a client could name none.          *)
Named(fault, codes) ==
  \/ fault = NoFault /\ codes = {}
  \/ \E s \in {400, 422}, c \in codes : fault = Fault(s, c)

FaultIsNamed(route, body) == Named(BodyFault(route, body), FaultsOf(route, body))

\* If every check names a fault of the body and they miss none, so does the
\* first that fails.
LEMMA ChecksName ==
  ASSUME NEW V, NEW checks \in Seq(V), NEW codes,
         \A c \in ToSet(checks) : c.fails =>
            \E s \in {400, 422}, d \in codes : c.fault = Fault(s, d),
         (\A c \in ToSet(checks) : ~c.fails) => codes = {}
  PROVE  Named(FirstFault(checks), codes)
<1>1. \/ /\ \A c \in ToSet(checks) : ~c.fails
         /\ FirstFault(checks) = NoFault
      \/ \E c \in ToSet(checks) : c.fails /\ FirstFault(checks) = c.fault
  BY FirstFaultOf
<1> QED
  BY <1>1 DEF Named

\* A body of POST /api/simulate/step is refused for a fault it has.
LEMMA StepFaultIsNamed ==
  ASSUME NEW body \in BodyForms("step")
  PROVE  FaultIsNamed("step", body)
<1> DEFINE codes == FaultsOf("step", body)
           c1 == Check(NotJson(body), 400, "MALFORMED_JSON")
           c2 == Check(NotObject(body), 400, "INVALID_REQUEST")
           c3 == Check("step_seconds" \in body.missing, 422, "MISSING_STEP_SECONDS")
           c4 == Check(body.seconds <= 0, 422, "INVALID_STEP_SECONDS")
           checks == <<c1, c2, c3, c4>>
<1>1. /\ body.json \in {"object", "malformed", "other value"}
      /\ body.missing \in SUBSET {"step_seconds"} /\ body.seconds \in Int
  BY DEF BodyForms
<1>2. /\ NotJson(body) => "MALFORMED_JSON" \in codes
      /\ NotObject(body) => "INVALID_REQUEST" \in codes
      /\ "step_seconds" \in body.missing => "MISSING_STEP_SECONDS" \in codes
      /\ body.seconds <= 0 => "INVALID_STEP_SECONDS" \in codes
  BY DEF FaultsOf, NotJson, NotObject
<1>3. /\ ~c1.fails => body.json # "malformed"
      /\ ~c2.fails => body.json # "other value"
      /\ ~c3.fails => "step_seconds" \notin body.missing
      /\ ~c4.fails => ~(body.seconds <= 0)
  BY DEF Check, NotJson, NotObject
<1>4. body.json = "object" /\ body.missing = {} /\ ~(body.seconds <= 0) => codes = {}
  BY DEF FaultsOf
<1>5. \A c \in {c1, c2, c3, c4} : c.fails =>
        \E s \in {400, 422}, d \in codes : c.fault = Fault(s, d)
  <2>1. /\ (c1.fails => NotJson(body)) /\ c1.fault = Fault(400, "MALFORMED_JSON")
        /\ (c2.fails => NotObject(body)) /\ c2.fault = Fault(400, "INVALID_REQUEST")
        /\ (c3.fails => "step_seconds" \in body.missing) /\ c3.fault = Fault(422, "MISSING_STEP_SECONDS")
        /\ (c4.fails => body.seconds <= 0) /\ c4.fault = Fault(422, "INVALID_STEP_SECONDS")
    BY DEF Check, NotJson, NotObject
  <2> HIDE DEF codes, c1, c2, c3, c4
  <2> QED BY <1>2, <2>1
<1> HIDE DEF codes, c1, c2, c3, c4
<1>6. checks \in Seq({c1, c2, c3, c4}) /\ ToSet(checks) = {c1, c2, c3, c4}
  BY DEF ToSet
<1>7. (\A c \in {c1, c2, c3, c4} : ~c.fails) => codes = {}
  BY <1>1, <1>3, <1>4
<1>8. Named(FirstFault(checks), codes)
  <2> HIDE DEF checks
  <2> QED BY <1>5, <1>6, <1>7, ChecksName
<1> QED
  BY <1>8 DEF FaultIsNamed, BodyFault, StepFault, checks, codes, c1, c2, c3, c4

\* A body of POST /api/telemetry is refused for a fault it has.
LEMMA TelemetryFaultIsNamed ==
  ASSUME NEW body \in BodyForms("telemetry")
  PROVE  FaultIsNamed("telemetry", body)
<1> DEFINE codes == FaultsOf("telemetry", body)
           c1 == Check(body.json = "empty", 400, "EMPTY_BODY")
           c2 == Check(NotJson(body) \/ NotObject(body), 400, "MALFORMED_JSON")
           c3 == Check("timestamp" \in body.missing, 400, "MISSING_TIMESTAMP")
           c4 == Check(body.timestamp = "invalid", 400, "INVALID_TIMESTAMP")
           c5 == Check("objects" \in body.missing, 400, "MISSING_OBJECTS")
           checks == <<c1, c2, c3, c4, c5>>
<1>1. /\ body.json \in {"object", "malformed", "other value", "empty"}
      /\ body.missing \in SUBSET {"timestamp", "objects"}
      /\ body.timestamp \in {"valid", "invalid"}
  BY DEF BodyForms
<1>2. /\ body.json = "empty" => "EMPTY_BODY" \in codes
      /\ NotJson(body) \/ NotObject(body) => "MALFORMED_JSON" \in codes
      /\ "timestamp" \in body.missing => "MISSING_TIMESTAMP" \in codes
      /\ body.timestamp = "invalid" => "INVALID_TIMESTAMP" \in codes
      /\ "objects" \in body.missing => "MISSING_OBJECTS" \in codes
  BY DEF FaultsOf, NotJson, NotObject
<1>3. /\ ~c1.fails => body.json # "empty"
      /\ ~c2.fails => body.json # "malformed" /\ body.json # "other value"
      /\ ~c3.fails => "timestamp" \notin body.missing
      /\ ~c4.fails => body.timestamp # "invalid"
      /\ ~c5.fails => "objects" \notin body.missing
  BY DEF Check, NotJson, NotObject
<1>4. body.json = "object" /\ body.missing = {} /\ body.timestamp # "invalid"
        => codes = {}
  BY DEF FaultsOf
<1>5. \A c \in {c1, c2, c3, c4, c5} : c.fails =>
        \E s \in {400, 422}, d \in codes : c.fault = Fault(s, d)
  <2>1. /\ (c1.fails => body.json = "empty") /\ c1.fault = Fault(400, "EMPTY_BODY")
        /\ (c2.fails => NotJson(body) \/ NotObject(body)) /\ c2.fault = Fault(400, "MALFORMED_JSON")
        /\ (c3.fails => "timestamp" \in body.missing) /\ c3.fault = Fault(400, "MISSING_TIMESTAMP")
        /\ (c4.fails => body.timestamp = "invalid") /\ c4.fault = Fault(400, "INVALID_TIMESTAMP")
        /\ (c5.fails => "objects" \in body.missing) /\ c5.fault = Fault(400, "MISSING_OBJECTS")
    BY DEF Check, NotJson, NotObject
  <2> HIDE DEF codes, c1, c2, c3, c4, c5
  <2> QED BY <1>2, <2>1
<1> HIDE DEF codes, c1, c2, c3, c4, c5
<1>6. checks \in Seq({c1, c2, c3, c4, c5}) /\ ToSet(checks) = {c1, c2, c3, c4, c5}
  BY DEF ToSet
<1>7. (\A c \in {c1, c2, c3, c4, c5} : ~c.fails) => codes = {}
  BY <1>1, <1>3, <1>4
<1>8. Named(FirstFault(checks), codes)
  <2> HIDE DEF checks
  <2> QED BY <1>5, <1>6, <1>7, ChecksName
<1> QED
  BY <1>8 DEF FaultIsNamed, BodyFault, TelemetryFault, checks, codes, c1, c2, c3, c4, c5

(* The checks of the burns of a sequence. *)
LEMMA BurnChecksNames ==
  ASSUME NEW burns \in Seq(SUBSET ToSet(BurnFaults)), NEW codes,
         UNION ToSet(burns) \subseteq codes
  PROVE  LET flat == FlattenSeq([i \in DOMAIN burns |-> BurnChecks(burns[i])]) IN
         /\ \E V : flat \in Seq(V)
         /\ \A c \in ToSet(flat) : c.fails =>
              \E s \in {400, 422}, d \in codes : c.fault = Fault(s, d)
         /\ (\A c \in ToSet(flat) : ~c.fails) => UNION ToSet(burns) = {}
<1> DEFINE C(i) == {BurnChecks(burns[i])[m] : m \in DOMAIN BurnFaults}
           V == UNION {C(i) : i \in DOMAIN burns}
           seqs == [i \in DOMAIN burns |-> BurnChecks(burns[i])]
           flat == FlattenSeq(seqs)
<1>1. DOMAIN BurnFaults = 1..6 /\ \A m \in 1..6 : BurnFaults[m] \in ToSet(BurnFaults)
  BY DEF BurnFaults, ToSet
<1>2. /\ Len(burns) \in Nat /\ DOMAIN burns = 1..Len(burns)
      /\ \A i \in DOMAIN burns : burns[i] \in SUBSET ToSet(BurnFaults)
      /\ ToSet(burns) = {burns[i] : i \in DOMAIN burns}
  BY DEF ToSet
<1>3. \A i \in DOMAIN burns : ToSet(BurnChecks(burns[i])) = C(i)
  BY <1>1 DEF BurnChecks, ToSet
<1>4. \A i \in DOMAIN burns : BurnChecks(burns[i]) \in Seq(V)
  <2> TAKE i \in DOMAIN burns
  <2>1. BurnChecks(burns[i]) \in [1..6 -> V]
    <3>1. BurnChecks(burns[i]) = [m \in 1..6 |-> BurnChecks(burns[i])[m]]
      BY <1>1 DEF BurnChecks
    <3>2. \A m \in 1..6 : BurnChecks(burns[i])[m] \in C(i)
      BY <1>1
    <3>3. C(i) \subseteq V
      <4> HIDE DEF C
      <4> QED OBVIOUS
    <3> HIDE DEF C, V
    <3> QED BY <3>1, <3>2, <3>3
  <2> HIDE DEF V
  <2>2. \A n \in Nat : \A f : f \in [1..n -> V] => f \in Seq(V)
    OBVIOUS
  <2> QED BY <2>1, <2>2
<1>5. seqs \in Seq(Seq(V)) /\ Len(seqs) = Len(burns)
  <2>1. seqs \in [1..Len(burns) -> Seq(V)]
    <3> HIDE DEF V
    <3> QED BY <1>2, <1>4
  <2>2. \A n \in Nat : \A f : f \in [1..n -> Seq(V)] => f \in Seq(Seq(V)) /\ Len(f) = n
    OBVIOUS
  <2> HIDE DEF seqs, V
  <2> QED BY <1>2, <2>1, <2>2
<1>6. /\ flat \in Seq(V)
      /\ \A x : x \in ToSet(flat) <=> \E i \in 1..Len(seqs) : x \in ToSet(seqs[i])
  <2> HIDE DEF seqs, V
  <2> QED BY <1>5, FlattenElements
<1>7. \A x : x \in ToSet(flat) <=> \E i \in DOMAIN burns : x \in C(i)
  <2>1. \A i \in DOMAIN burns : ToSet(seqs[i]) = C(i)
    BY <1>3
  <2> HIDE DEF seqs, C, V
  <2> QED BY <1>2, <1>5, <1>6, <2>1
<1>8. ASSUME NEW c \in ToSet(flat), c.fails
      PROVE  \E s \in {400, 422}, d \in codes : c.fault = Fault(s, d)
  <2>1. PICK i \in DOMAIN burns : c \in C(i)
    BY <1>7
  <2>2. PICK m \in 1..6 : c = BurnChecks(burns[i])[m]
    BY <1>1, <2>1
  <2>3. /\ c.fails => BurnFaults[m] \in burns[i]
        /\ c.fault = Fault(422, BurnFaults[m])
    BY <1>1, <2>2 DEF BurnChecks, Check
  <2>4. BurnFaults[m] \in burns[i] => BurnFaults[m] \in codes
    BY <1>2
  <2> HIDE DEF C, V, seqs, flat
  <2> QED BY <1>8, <2>3, <2>4
<1>9. ASSUME \A c \in ToSet(flat) : ~c.fails PROVE UNION ToSet(burns) = {}
  <2>1. ASSUME NEW i \in DOMAIN burns, NEW d \in burns[i] PROVE FALSE
    <3>1. PICK m \in 1..6 : d = BurnFaults[m]
      BY <1>1, <1>2 DEF ToSet
    <3>2. ~BurnChecks(burns[i])[m].fails => BurnFaults[m] \notin burns[i]
      BY <1>1 DEF BurnChecks, Check
    <3>3. BurnChecks(burns[i])[m].fails
      BY <2>1, <3>1, <3>2
    <3>4. BurnChecks(burns[i])[m] \in C(i)
      BY <1>1
    <3> HIDE DEF C, V, seqs, flat
    <3> QED BY <1>7, <1>9, <3>3, <3>4
  <2> QED BY <1>2, <2>1
<1> QED
  <2> HIDE DEF V
  <2> QED BY <1>6, <1>8, <1>9

\* A body of POST /api/maneuver/schedule is refused for a fault it has, in
\* a burn or outside.
LEMMA ScheduleFaultIsNamed ==
  ASSUME NEW body \in BodyForms("schedule")
  PROVE  FaultIsNamed("schedule", body)
<1> DEFINE codes == FaultsOf("schedule", body)
           c1 == Check(NotJson(body), 400, "MALFORMED_JSON")
           c2 == Check(NotObject(body), 400, "INVALID_REQUEST")
           c3 == Check("satelliteId" \in body.missing, 422, "MISSING_SATELLITE_ID")
           c4 == Check("maneuver_sequence" \in body.missing, 422,
                       "MISSING_MANEUVER_SEQUENCE")
           c5 == Check(body.burns = << >>, 422, "EMPTY_MANEUVER_SEQUENCE")
           front == <<c1, c2, c3, c4>>
           flat == FlattenSeq([i \in DOMAIN body.burns |-> BurnChecks(body.burns[i])])
           checks == front \o flat \o <<c5>>
<1>1. /\ body.json \in {"object", "malformed", "other value"}
      /\ body.missing \in SUBSET {"satelliteId", "maneuver_sequence"}
      /\ body.burns \in Seq(SUBSET ToSet(BurnFaults))
  BY DEF BodyForms
<1>2. /\ NotJson(body) => "MALFORMED_JSON" \in codes
      /\ NotObject(body) => "INVALID_REQUEST" \in codes
      /\ "satelliteId" \in body.missing => "MISSING_SATELLITE_ID" \in codes
      /\ "maneuver_sequence" \in body.missing => "MISSING_MANEUVER_SEQUENCE" \in codes
      /\ body.burns = << >> => "EMPTY_MANEUVER_SEQUENCE" \in codes
      /\ UNION ToSet(body.burns) \subseteq codes
  <2>1. UNION ToSet(body.burns) \subseteq codes
    BY DEF FaultsOf
  <2>2. ASSUME body.burns = << >> PROVE "EMPTY_MANEUVER_SEQUENCE" \in codes
    BY <2>2 DEF FaultsOf
  <2>3. body.missing # {} => {"MISSING_SATELLITE_ID", "MISSING_MANEUVER_SEQUENCE"}
                               \subseteq codes
    BY DEF FaultsOf
  <2>4. body.json # "object" => {"MALFORMED_JSON", "INVALID_REQUEST"} \subseteq codes
    BY DEF FaultsOf
  <2> HIDE DEF codes
  <2> QED BY <2>1, <2>2, <2>3, <2>4 DEF NotJson, NotObject
<1>3. /\ ~c1.fails => body.json # "malformed"
      /\ ~c2.fails => body.json # "other value"
      /\ ~c3.fails => "satelliteId" \notin body.missing
      /\ ~c4.fails => "maneuver_sequence" \notin body.missing
      /\ ~c5.fails => body.burns # << >>
  BY DEF Check, NotJson, NotObject
<1>4. body.json = "object" /\ body.missing = {} /\ body.burns # << >>
        /\ UNION ToSet(body.burns) = {} => codes = {}
  BY DEF FaultsOf
<1>5. \A c \in {c1, c2, c3, c4, c5} : c.fails =>
        \E s \in {400, 422}, d \in codes : c.fault = Fault(s, d)
  <2>1. /\ (c1.fails => NotJson(body)) /\ c1.fault = Fault(400, "MALFORMED_JSON")
        /\ (c2.fails => NotObject(body)) /\ c2.fault = Fault(400, "INVALID_REQUEST")
        /\ (c3.fails => "satelliteId" \in body.missing)
        /\ c3.fault = Fault(422, "MISSING_SATELLITE_ID")
        /\ (c4.fails => "maneuver_sequence" \in body.missing)
        /\ c4.fault = Fault(422, "MISSING_MANEUVER_SEQUENCE")
        /\ (c5.fails => body.burns = << >>)
        /\ c5.fault = Fault(422, "EMPTY_MANEUVER_SEQUENCE")
    BY DEF Check, NotJson, NotObject
  <2> HIDE DEF codes, c1, c2, c3, c4, c5
  <2> QED BY <1>2, <2>1
<1>6. /\ \E V : flat \in Seq(V)
      /\ \A c \in ToSet(flat) : c.fails =>
           \E s \in {400, 422}, d \in codes : c.fault = Fault(s, d)
      /\ (\A c \in ToSet(flat) : ~c.fails) => UNION ToSet(body.burns) = {}
  <2> HIDE DEF codes
  <2> QED BY <1>1, <1>2, BurnChecksNames
<1> HIDE DEF codes, c1, c2, c3, c4, c5, flat
<1>7. PICK V : flat \in Seq(V)
  BY <1>6
<1> DEFINE W == V \cup {c1, c2, c3, c4, c5}
<1>8. /\ front \in Seq(W) /\ ToSet(front) = {c1, c2, c3, c4}
      /\ <<c5>> \in Seq(W) /\ ToSet(<<c5>>) = {c5}
  BY DEF ToSet
<1>9. flat \in Seq(W)
  <2>1. V \subseteq W
    OBVIOUS
  <2>2. \A X : V \subseteq X => flat \in Seq(X)
    BY <1>7
  <2> HIDE DEF W
  <2> QED BY <2>1, <2>2
<1>10. checks \in Seq(W) /\ ToSet(checks) = ToSet(flat) \cup {c1, c2, c3, c4, c5}
  <2> HIDE DEF W, front
  <2>1. front \o flat \in Seq(W) /\ ToSet(front \o flat) = ToSet(front) \cup ToSet(flat)
    BY <1>8, <1>9, ConcatElements
  <2> DEFINE begin == front \o flat
             end == <<c5>>
  <2>4. begin \in Seq(W) /\ ToSet(begin) = {c1, c2, c3, c4} \cup ToSet(flat)
    BY <1>8, <2>1
  <2>2. end \in Seq(W) /\ ToSet(end) = {c5} /\ checks = begin \o end
    BY <1>8
  <2> HIDE DEF begin, end, checks
  <2>3. begin \o end \in Seq(W) /\ ToSet(begin \o end) = ToSet(begin) \cup ToSet(end)
    BY <2>2, <2>4, ConcatElements
  <2> QED BY <2>2, <2>3, <2>4
<1> HIDE DEF front, W
<1>11. \A c \in ToSet(checks) : c.fails =>
         \E s \in {400, 422}, d \in codes : c.fault = Fault(s, d)
  <2> HIDE DEF checks
  <2>1. \A c \in ToSet(checks) : c \in ToSet(flat) \/ c \in {c1, c2, c3, c4, c5}
    BY <1>10
  <2> TAKE c \in ToSet(checks)
  <2>2. CASE c \in ToSet(flat)
    BY <1>6, <2>2
  <2>3. CASE c \in {c1, c2, c3, c4, c5}
    BY <1>5, <2>3
  <2> QED BY <2>1, <2>2, <2>3
<1>12. ASSUME \A c \in ToSet(checks) : ~c.fails PROVE codes = {}
  <2>1. UNION ToSet(body.burns) = {}
    BY <1>6, <1>10, <1>12
  <2>2. ~c1.fails /\ ~c2.fails /\ ~c3.fails /\ ~c4.fails /\ ~c5.fails
    BY <1>10, <1>12
  <2>3. body.json = "object" /\ body.missing = {} /\ body.burns # << >>
    BY <1>1, <1>3, <2>2
  <2> QED BY <1>4, <2>1, <2>3
<1>13. Named(FirstFault(checks), codes)
  <2> HIDE DEF checks
  <2> QED BY <1>10, <1>11, <1>12, ChecksName
<1> QED
  BY <1>13 DEF FaultIsNamed, BodyFault, ScheduleFault, checks, front, flat,
               codes, c1, c2, c3, c4, c5

\* Whatever the route, a body is refused for a fault it has, and only then.
LEMMA EveryFaultIsNamed ==
  ASSUME NEW route \in Routes, NEW body \in BodyForms(route)
  PROVE  FaultIsNamed(route, body)
BY ScheduleFaultIsNamed, TelemetryFaultIsNamed, StepFaultIsNamed DEF Routes

-----------------------------------------------------------------------------
(* The CORS headers.                                                       *)

\* The header allows the wildcard, the asking page, or nothing: AllowOrigin.
LEMMA AllowedOrigin ==
  ASSUME NEW pages, NEW env \in Environments(pages), NEW origin, origin # "*"
  PROVE  LET cors == CorsConfig(env)
             allowed == AllowOrigin(cors, origin)
             listed == /\ cors.enabled /\ origin # NoOrigin
                       /\ ToSet(cors.origins) \cap {"*", origin} # {}
         IN  /\ allowed \in {{}, {"*"}, {origin}}
             /\ allowed # {} <=> listed
             /\ "*" \in allowed => ~cors.credentials
<1> DEFINE cors == CorsConfig(env)
           hits == {i \in DOMAIN cors.origins : cors.origins[i] \in {"*", origin}}
           entry == cors.origins[CHOOSE i \in hits : \A j \in hits : i <= j]
<1> DEFINE V == pages \cup {"*", "http://localhost:5173"}
<1>1. cors.origins \in Seq(V)
  <2>1. env.origins \in Seq(V)
    <3>1. env.origins \in Seq(pages \cup {"*"}) /\ pages \cup {"*"} \subseteq V
      BY DEF Environments
    <3> HIDE DEF V
    <3> QED BY <3>1
  <2>2. ASSUME NEW s \in V PROVE <<s>> \in Seq(V)
    OBVIOUS
  <2>3. "http://localhost:5173" \in V
    OBVIOUS
  <2> HIDE DEF V
  <2> QED BY <2>1, <2>2, <2>3 DEF CorsConfig
<1>2. hits # {} <=> ToSet(cors.origins) \cap {"*", origin} # {}
  BY DEF ToSet
<1>3. hits # {} => entry \in {"*", origin}
  <2>1. hits \in SUBSET Nat
    <3> HIDE DEF V, cors
    <3> QED BY <1>1
  <2>2. hits # {} => \E m \in hits : \A j \in hits : m <= j
    <3> HIDE DEF hits
    <3> QED BY <2>1, LeastNatural
  <2>3. hits # {} => (CHOOSE i \in hits : \A j \in hits : i <= j) \in hits
    <3> HIDE DEF hits
    <3> QED BY <2>2
  <2> QED BY <2>3
<1>4. AllowOrigin(cors, origin) =
        IF ~cors.enabled \/ origin = NoOrigin \/ hits = {} THEN {}
        ELSE IF entry = "*" /\ ~cors.credentials THEN {"*"} ELSE {origin}
  BY DEF AllowOrigin
<1> HIDE DEF hits, entry, cors
<1> QED
  BY <1>2, <1>3, <1>4 DEF cors

-----------------------------------------------------------------------------
(* The reply.                                                              *)

\* A fault is told from no fault.
LEMMA FaultIsSomething ==
  ASSUME NEW s, NEW c
  PROVE  Fault(s, c) # NoFault /\ Fault(s, c)[1].status = s /\ Fault(s, c)[1].code = c
BY DEF Fault, NoFault

\* The environment variables leave a queue depth, a success status and a
\* step limit that make sense.
LEMMA Settings ==
  ASSUME NEW pages, NEW env \in Environments(pages)
  PROVE  /\ QueueDepth(env.depth) \in Nat \ {0}
         /\ Policy(env).successStatus \in 200..299
         /\ Policy(env).maxStep \in Int
<1>1. env.depth \in RawTexts /\ env.success \in RawTexts /\ env.maxStep \in RawTexts
  BY DEF Environments
<1>2. \A raw \in RawTexts : raw.number \in Int
  BY DEF RawTexts
<1>3. QueueDepth(env.depth) \in Nat \ {0}
  BY <1>1, <1>2, HttpAssumption DEF QueueDepth
<1>4. Policy(env).successStatus = Setting(env.success, 202, 200, 299)
      /\ Policy(env).maxStep = Setting(env.maxStep, DefaultStep, 1, StepLimit)
  BY DEF Policy
<1>5. Setting(env.success, 202, 200, 299) \in 200..299
  BY <1>1, <1>2 DEF Setting
<1>6. Setting(env.maxStep, DefaultStep, 1, StepLimit) \in Int
  BY <1>1, <1>2, HttpAssumption DEF Setting
<1> QED BY <1>3, <1>4, <1>5, <1>6

\* What the worker answers.
Answers(result, route, body, policy, verdict) ==
  /\ result.status \in 200..299 <=>
       verdict = "ok" /\ (route = "step" => body.seconds <= policy.maxStep)
  /\ result.code # "RUNTIME_BUSY"

\* A command the worker executes is a success exactly if its verdict is and
\* the step is not too long.
LEMMA ExecutedAnswers ==
  ASSUME NEW route \in Routes, NEW body \in BodyForms(route),
         NEW policy, policy.successStatus \in 200..299, policy.maxStep \in Int,
         NEW verdict \in Verdicts(route)
  PROVE  Answers(Executed(route, body, policy, verdict), route, body, policy, verdict)
<1>1. CASE route = "step" /\ body.seconds > policy.maxStep
  <2>1. body.seconds \in Int
    BY <1>1 DEF BodyForms
  <2> QED BY <1>1, <2>1 DEF Executed, Answers
<1>2. CASE ~(route = "step" /\ body.seconds > policy.maxStep)
  <2>1. route = "step" => body.seconds <= policy.maxStep
    <3>1. route = "step" => body.seconds \in Int
      BY DEF BodyForms
    <3> QED BY <1>2, <3>1
  <2>2. CASE verdict = "ok"
    <3>1. CASE route = "schedule"
      BY <1>2, <2>1, <2>2, <3>1 DEF Executed, Answers
    <3>2. CASE route = "telemetry"
      BY <1>2, <2>1, <2>2, <3>2 DEF Executed, Answers
    <3>3. CASE route = "step"
      BY <1>2, <2>1, <2>2, <3>3 DEF Executed, Answers
    <3> QED BY <3>1, <3>2, <3>3 DEF Routes
  <2>3. CASE verdict # "ok"
    <3>1. verdict # "RUNTIME_BUSY"
      BY DEF Verdicts, Routes
    <3>2. Executed(route, body, policy, verdict) \in
            {[status |-> s, code |-> verdict] : s \in {400, 404, 409, 422}}
      BY <1>2, <2>3 DEF Executed
    <3> QED BY <2>3, <3>1, <3>2 DEF Answers
  <2> QED BY <2>2, <2>3
<1> QED BY <1>1, <1>2

Fates == {"answer", "failure", "timeout", "stopped"}

\* A submitted command is a success exactly if it was executed with success
\* in time.
LEMMA ReturnedAnswers ==
  ASSUME NEW route \in Routes, NEW body \in BodyForms(route),
         NEW policy, policy.successStatus \in 200..299, policy.maxStep \in Int,
         NEW verdict \in Verdicts(route), NEW fate \in Fates \cup {"busy"}
  PROVE  LET result == Returned(route, body, policy, fate, verdict) IN
         /\ result.status \in 200..299 <=>
              /\ fate = "answer" /\ verdict = "ok"
              /\ route = "step" => body.seconds <= policy.maxStep
         /\ result.code = "RUNTIME_BUSY" => fate \in {"busy", "timeout"}
<1>1. CASE fate = "answer"
  <2>1. Returned(route, body, policy, fate, verdict)
          = Executed(route, body, policy, verdict)
    BY <1>1 DEF Returned
  <2> QED BY <1>1, <2>1, ExecutedAnswers DEF Answers
<1>2. CASE fate \in {"busy", "timeout"}
  BY <1>2 DEF Returned
<1>3. CASE fate \in {"stopped", "failure"}
  BY <1>3 DEF Returned
<1> QED BY <1>1, <1>2, <1>3 DEF Fates

\* No body is refused as one command too many.
LEMMA NeverBusy ==
  ASSUME NEW route \in Routes, NEW body \in BodyForms(route)
  PROVE  "RUNTIME_BUSY" \notin FaultsOf(route, body)
<1>1. CASE route = "schedule"
  <2>1. body.burns \in Seq(SUBSET ToSet(BurnFaults))
    BY <1>1 DEF BodyForms
  <2>2. ToSet(body.burns) \subseteq SUBSET ToSet(BurnFaults)
    BY <2>1, ElementsOf
  <2>3. "RUNTIME_BUSY" \notin ToSet(BurnFaults)
    BY DEF ToSet, BurnFaults
  <2>4. "RUNTIME_BUSY" \notin UNION ToSet(body.burns)
    BY <2>2, <2>3
  <2> QED BY <1>1, <2>4 DEF FaultsOf
<1>2. CASE route \in {"telemetry", "step"}
  BY <1>2 DEF FaultsOf
<1> QED BY <1>1, <1>2 DEF Routes

\* The reply of a route says what became of its command.
LEMMA PostIsTruthful ==
  ASSUME NEW q, q.route \in Routes, q.body \in BodyForms(q.route),
         NEW pages, q.env \in Environments(pages), q.origin # "*",
         q.waiting \in Nat, q.fate \in Fates, q.verdict \in Verdicts(q.route)
  PROVE  ReplyIsTruthful(q, Post(q.route, q.body, q.env, q.origin, q.waiting,
                                 q.fate, q.verdict))
<1> DEFINE fault == BodyFault(q.route, q.body)
           codes == FaultsOf(q.route, q.body)
           depth == QueueDepth(q.env.depth)
           policy == Policy(q.env)
           fate == IF q.waiting >= depth THEN "busy" ELSE q.fate
           returned == Returned(q.route, q.body, policy, fate, q.verdict)
           result == IF fault # NoFault THEN fault[1] ELSE returned
           cors == CorsConfig(q.env)
           headers == CorsHeaders(cors, q.origin)
           reply == Post(q.route, q.body, q.env, q.origin, q.waiting, q.fate, q.verdict)
           listed == /\ cors.enabled /\ q.origin # NoOrigin
                     /\ ToSet(cors.origins) \cap {"*", q.origin} # {}
<1>1. Named(fault, codes)
  BY EveryFaultIsNamed DEF FaultIsNamed
<1>2. depth \in Nat \ {0} /\ policy.successStatus \in 200..299 /\ policy.maxStep \in Int
  BY Settings
<1>3. /\ reply.status = result.status /\ reply.code = result.code
      /\ reply.submitted <=> fault = NoFault
      /\ reply.cors = headers
  BY DEF Post
<1>4. /\ headers.allow = AllowOrigin(cors, q.origin)
      /\ headers.vary <=> headers.allow # {} /\ headers.allow # {"*"}
      /\ headers.credentials <=> headers.allow # {} /\ cors.credentials
  BY DEF CorsHeaders
<1>5. /\ headers.allow \in {{}, {"*"}, {q.origin}}
      /\ headers.allow # {} <=> listed
      /\ "*" \in headers.allow => ~cors.credentials
  BY <1>4, AllowedOrigin
<1>6. /\ "*" \in headers.allow => ~headers.credentials
      /\ headers.vary <=> headers.allow = {q.origin}
      /\ headers.credentials <=> listed /\ cors.credentials
      /\ headers.allow \subseteq {"*", q.origin}
  <2> HIDE DEF headers, listed, cors
  <2> QED BY <1>4, <1>5
<1>7. /\ returned.status \in 200..299 <=>
           /\ fate = "answer" /\ q.verdict = "ok"
           /\ q.route = "step" => q.body.seconds <= policy.maxStep
      /\ returned.code = "RUNTIME_BUSY" => fate \in {"busy", "timeout"}
  <2>1. fate \in Fates \cup {"busy"}
    OBVIOUS
  <2> HIDE DEF fate, policy
  <2> QED BY <1>2, <2>1, ReturnedAnswers
<1>8. /\ fate = "answer" <=> q.waiting < depth /\ q.fate = "answer"
      /\ q.waiting = 0 => fate = q.fate
  <2> HIDE DEF depth
  <2> QED BY <1>2
<1>9. /\ reply.submitted <=> codes = {}
      /\ ~reply.submitted => reply.code \in codes /\ reply.status \in {400, 422}
      /\ reply.submitted => result = returned
  <2>1. CASE fault = NoFault /\ codes = {}
    BY <1>3, <2>1
  <2>2. CASE \E s \in {400, 422}, c \in codes : fault = Fault(s, c)
    <3>1. PICK s \in {400, 422}, c \in codes : fault = Fault(s, c)
      BY <2>2
    <3>2. fault # NoFault /\ fault[1].status = s /\ fault[1].code = c
      BY <3>1, FaultIsSomething
    <3> HIDE DEF fault, codes, returned, reply
    <3> QED BY <1>3, <3>2
  <2> HIDE DEF fault, codes
  <2> QED BY <1>1, <2>1, <2>2 DEF Named
<1> HIDE DEF fault, codes, depth, policy, fate, returned, result, headers, reply
<1>10. /\ reply.status \in 200..299 <=>
            /\ reply.submitted /\ q.fate = "answer" /\ q.verdict = "ok"
            /\ q.waiting < depth
            /\ q.route = "step" => q.body.seconds <= policy.maxStep
       /\ q.waiting = 0 /\ reply.code = "RUNTIME_BUSY" => q.fate = "timeout"
  <2>1. CASE reply.submitted
    <3>1. reply.status = returned.status /\ reply.code = returned.code
      BY <1>3, <1>9, <2>1
    <3>2. q.waiting = 0 => fate # "busy"
      BY <1>8 DEF Fates
    <3> QED BY <1>7, <1>8, <2>1, <3>1, <3>2
  <2>2. CASE ~reply.submitted
    <3>1. reply.status \notin 200..299
      BY <1>9, <2>2
    <3>2. reply.code # "RUNTIME_BUSY"
      BY <1>9, <2>2, NeverBusy DEF codes
    <3> QED BY <2>2, <3>1, <3>2
  <2> QED BY <2>1, <2>2
<1> QED
  BY <1>3, <1>5, <1>6, <1>9, <1>10 DEF ReplyIsTruthful, reply, codes, depth, policy

-----------------------------------------------------------------------------
(* The avoidance burn: what a situation is, its triggers and epochs.       *)

(* A situation an avoidance burn is asked for in.                          *)
RecordsOf(q) == ToSet(q.records)

Situation(q) ==
  /\ q.now \in Int /\ q.latency \in Int /\ q.cooldown \in Int
  /\ q.last = {} \/ \E l \in Int : q.last = {l}
  /\ q.contacts \in SUBSET Int
  /\ \E V : q.records \in Seq(V)
  /\ \A r \in RecordsOf(q) : r.tca \in Int /\ r.miss \in Int
  /\ \A r \in RecordsOf(q), e \in q.contacts, s \in ToSet(Scales), d \in Directions :
       q.impulse[r.deb][e][s][d] \in Outcomes

\* The sizes of a burn.
LEMMA ScalesAre ==
  Scales \in Seq(Nat \ {0}) /\ ToSet(Scales) \subseteq Nat \ {0}
BY ScanAssumption, ElementsOf

\* No burn is planned before the upload can arrive, nor before the
\* satellite has rested.
LEMMA EarliestIs ==
  ASSUME NEW q, Situation(q)
  PROVE  /\ EarliestBurn(q) \in Int
         /\ EarliestBurn(q) >= q.now + q.latency
         /\ \A l \in q.last : EarliestBurn(q) - l >= q.cooldown
<1> USE DEF Situation
<1>1. CASE q.last = {}
  BY <1>1 DEF EarliestBurn
<1>2. CASE q.last # {}
  <2>1. PICK l \in Int : q.last = {l}
    BY <1>2
  <2>2. (CHOOSE k \in q.last : TRUE) = l
    BY <2>1
  <2>3. EarliestBurn(q) = IF l + q.cooldown > q.now + q.latency
                          THEN l + q.cooldown ELSE q.now + q.latency
    BY <1>2, <2>2 DEF EarliestBurn
  <2> QED BY <2>1, <2>3
<1> QED BY <1>1, <1>2

Trigger(q, r) ==
  /\ r \in RecordsOf(q) /\ r.sat = q.sat /\ r.severity = "CRITICAL" /\ ~r.failOpen
  /\ r.tca > EarliestBurn(q) + MinLead

\* A record asks for a burn only if it is critical, known and far enough
\* ahead.
LEMMA TriggersAre ==
  ASSUME NEW q, Situation(q)
  PROVE  /\ Triggers(q) \in Seq(RecordsOf(q))
         /\ \A r \in ToSet(Triggers(q)) : Trigger(q, r)
<1> DEFINE set == {r \in RecordsOf(q) :
                     /\ r.sat = q.sat /\ r.severity = "CRITICAL" /\ ~r.failOpen
                     /\ r.tca > EarliestBurn(q) + MinLead}
           all == Among(q.records, set)
<1>1. PICK V : q.records \in Seq(V)
  BY DEF Situation
<1>2. all \in Seq(V) /\ ToSet(all) = {x \in ToSet(q.records) : x \in set}
  <2> HIDE DEF set
  <2> QED BY <1>1, AmongProperties DEF Drawn
<1>3. ToSet(all) = set
  BY <1>2 DEF RecordsOf
<1>4. Triggers(q) = IF Len(all) <= TriggerLimit THEN all ELSE SubSeq(all, 1, TriggerLimit)
  BY DEF Triggers, RecordsOf
<1> HIDE DEF set, all
<1>5. Triggers(q) \in Seq(V) /\ ToSet(Triggers(q)) \subseteq ToSet(all)
  <2>1. CASE Len(all) <= TriggerLimit
    BY <1>2, <1>4, <2>1
  <2>2. CASE ~(Len(all) <= TriggerLimit)
    <3>1. TriggerLimit \in Nat \ {0} /\ Len(all) \in Nat
      BY <1>2, ScanAssumption
    <3>2. /\ SubSeq(all, 1, TriggerLimit) \in Seq(V)
          /\ Len(SubSeq(all, 1, TriggerLimit)) = TriggerLimit
          /\ \A i \in 1..TriggerLimit : i \in 1..Len(all)
               /\ SubSeq(all, 1, TriggerLimit)[i] = all[i]
      BY <1>2, <2>2, <3>1
    <3>3. ToSet(SubSeq(all, 1, TriggerLimit)) \subseteq ToSet(all)
      <4> DEFINE s == SubSeq(all, 1, TriggerLimit)
      <4>1. \A x \in ToSet(s) : \E i \in 1..TriggerLimit : s[i] = x
        <5> HIDE DEF s
        <5> QED BY <3>2, ElementsOf DEF s
      <4>2. \A i \in 1..Len(all) : all[i] \in ToSet(all)
        BY <1>2, ElementsOf
      <4> HIDE DEF s
      <4> QED BY <3>2, <4>1, <4>2 DEF s
    <3> QED BY <1>4, <2>2, <3>2, <3>3
  <2> QED BY <2>1, <2>2
<1>6. \A r \in ToSet(Triggers(q)) : Trigger(q, r)
  BY <1>3, <1>5 DEF Trigger, set
<1>7. Triggers(q) \in Seq(RecordsOf(q))
  <2> DEFINE t == Triggers(q)
  <2>1. \A i \in 1..Len(t) : t[i] \in RecordsOf(q)
    <3>1. \A i \in 1..Len(t) : t[i] \in ToSet(t)
      <4> HIDE DEF t
      <4> QED BY <1>5, ElementsOf DEF t
    <3> QED BY <1>6, <3>1 DEF Trigger
  <2> HIDE DEF t
  <2>2. t \in Seq(V)
    BY <1>5 DEF t
  <2>3. t \in Seq(RecordsOf(q))
    BY <2>1, <2>2
  <2> QED BY <2>3 DEF t
<1> QED BY <1>6, <1>7

\* A part of the window lies in the window.
LEMMA DivisionBound ==
  ASSUME NEW m \in Nat, NEW p \in Nat \ {0}, NEW k \in 0..p
  PROVE  (m * k) \div p \in 0..m
<1>1. m * k \in Nat /\ m * k <= p * m
  OBVIOUS
<1> DEFINE a == m * k
           b == p * m
<1>2. a \in Nat /\ b \in Nat /\ a <= b
  BY <1>1
<1>3. a \div p \in Int /\ a \div p >= 0
  <2> HIDE DEF a
  <2> QED BY <1>2
<1>4. p * (a \div p) <= a
  <2> HIDE DEF a
  <2> QED BY <1>2
<1> DEFINE d == a \div p
<1> HIDE DEF a, d
<1>5. d <= m
  <2>1. d > m => p * d > p * m
    BY <1>3 DEF d
  <2> QED BY <1>2, <1>3, <1>4, <2>1 DEF d
<1> QED BY <1>3, <1>5 DEF a, d

\* The instants tried lie in the window and within reach of an upload.
LEMMA EpochsAre ==
  ASSUME NEW q, Situation(q), NEW t, Trigger(q, t)
  PROVE  /\ BurnEpochs(q, t) \in Seq(Int)
         /\ \A e \in ToSet(BurnEpochs(q, t)) :
              /\ e \in q.contacts
              /\ EarliestBurn(q) <= e /\ e <= t.tca - MinLead
<1> DEFINE first == EarliestBurn(q)
           late == LatestBurn(q, t)
           all == [k \in 1..(Parts + 1) |-> first + ((late - first) * (k - 1)) \div Parts]
           set == {e \in q.contacts : \A p \in q.pending :
                     p - e >= q.cooldown \/ e - p >= q.cooldown}
<1>1. first \in Int /\ t.tca \in Int /\ t.tca > first + MinLead
  BY EarliestIs DEF Situation, Trigger
<1>2. Parts \in Nat \ {0} /\ MinLead \in Nat /\ Horizon \in Nat
  BY ScanAssumption
<1>3. late \in Int /\ first <= late /\ late <= t.tca - MinLead
  <2> HIDE DEF first
  <2> QED BY <1>1, <1>2 DEF LatestBurn, first
<1>4. \A k \in 1..(Parts + 1) : all[k] \in first..late
  <2> TAKE k \in 1..(Parts + 1)
  <2>1. k - 1 \in 0..Parts /\ late - first \in Nat
    <3> HIDE DEF first, late
    <3> QED BY <1>1, <1>2, <1>3
  <2>2. ((late - first) * (k - 1)) \div Parts \in 0..(late - first)
    <3> HIDE DEF first, late
    <3> QED BY <1>2, <2>1, DivisionBound
  <2> DEFINE part == ((late - first) * (k - 1)) \div Parts
  <2>3. all[k] = first + part
    OBVIOUS
  <2> HIDE DEF first, late, part, all
  <2>4. part \in 0..(late - first)
    BY <2>2 DEF part
  <2> QED BY <1>1, <1>3, <2>3, <2>4
<1>5. all \in Seq(Int) /\ Len(all) = Parts + 1
  <2>1. all \in [1..(Parts + 1) -> Int]
    <3>1. \A k \in 1..(Parts + 1) : all[k] \in Int
      <4> HIDE DEF first, late, all
      <4> QED BY <1>1, <1>3, <1>4
    <3>2. all = [k \in 1..(Parts + 1) |-> all[k]]
      OBVIOUS
    <3> HIDE DEF all
    <3> QED BY <3>1, <3>2
  <2>2. \A n \in Nat : \A f : f \in [1..n -> Int] => f \in Seq(Int) /\ Len(f) = n
    OBVIOUS
  <2>3. Parts + 1 \in Nat
    BY <1>2
  <2> HIDE DEF all
  <2> QED BY <2>1, <2>2, <2>3
<1>6. BurnEpochs(q, t) = Among(all, set)
  BY DEF BurnEpochs
<1>7. /\ Among(all, set) \in Seq(Int)
      /\ ToSet(Among(all, set)) = {x \in ToSet(all) : x \in set}
  <2> HIDE DEF all, set
  <2> QED BY <1>5, AmongProperties DEF Drawn
<1>8. \A x \in ToSet(all) : x \in first..late
  <2>1. \A x \in ToSet(all) : \E k \in 1..Len(all) : all[k] = x
    <3> HIDE DEF all
    <3> QED BY <1>5, ElementsOf
  <2> HIDE DEF all, first, late
  <2> QED BY <1>4, <1>5, <2>1
<1> HIDE DEF all, first, late
<1> QED
  BY <1>1, <1>2, <1>3, <1>6, <1>7, <1>8 DEF first

\* FlattenElements, for a sequence given as a function.
LEMMA FlattenOf ==
  ASSUME NEW V, NEW n \in Nat, NEW f \in [1..n -> Seq(V)]
  PROVE  /\ FlattenSeq(f) \in Seq(V)
         /\ \A x : x \in ToSet(FlattenSeq(f)) <=> \E i \in 1..n : x \in ToSet(f[i])
<1>1. f \in Seq(Seq(V)) /\ Len(f) = n
  OBVIOUS
<1> QED BY <1>1, FlattenElements

(* The plans of the loops over sizes and directions, and over epochs.      *)
PlansAt(q, t, e) ==
  FlattenSeq([s \in DOMAIN Scales |->
    <<PlanFor(q, t, e, Scales[s], "tangential"),
      PlanFor(q, t, e, Scales[s], "normal")>>])

PlansAgainst(q, t) ==
  FlattenSeq([k \in DOMAIN BurnEpochs(q, t) |-> PlansAt(q, t, BurnEpochs(q, t)[k])])

\* The four loops, a name for each.
LEMMA CandidatesAre ==
  ASSUME NEW q
  PROVE  Candidates(q)
           = FlattenSeq([i \in DOMAIN Triggers(q) |-> PlansAgainst(q, Triggers(q)[i])])
BY DEF Candidates, PlansAgainst, PlansAt

Plans(q) == {PlanFor(q, t, e, s, d) : t \in RecordsOf(q), e \in q.contacts,
                                      s \in ToSet(Scales), d \in Directions}

\* At one instant, every size in both directions.
LEMMA PlansAtAre ==
  ASSUME NEW q, NEW t \in RecordsOf(q), NEW e \in q.contacts
  PROVE  /\ PlansAt(q, t, e) \in Seq(Plans(q))
         /\ \A x : x \in ToSet(PlansAt(q, t, e)) <=>
              \E s \in ToSet(Scales), d \in Directions : x = PlanFor(q, t, e, s, d)
<1> DEFINE V == Plans(q)
           n == Len(Scales)
           A(i) == PlanFor(q, t, e, Scales[i], "tangential")
           B(i) == PlanFor(q, t, e, Scales[i], "normal")
           f == [i \in DOMAIN Scales |-> <<A(i), B(i)>>]
<1>1. /\ n \in Nat /\ DOMAIN Scales = 1..n
      /\ \A i \in 1..n : Scales[i] \in ToSet(Scales)
      /\ \A s \in ToSet(Scales) : \E i \in 1..n : Scales[i] = s
  BY ScalesAre, ElementsOf
<1>2. \A i \in 1..n : A(i) \in V /\ B(i) \in V
  BY <1>1 DEF Plans, Directions
<1>3. \A a, b \in V : <<a, b>> \in Seq(V) /\ ToSet(<<a, b>>) = {a, b}
  <2> HIDE DEF V
  <2> QED BY DEF ToSet
<1>4. f \in [1..n -> Seq(V)]
  <2>1. \A i \in 1..n : <<A(i), B(i)>> \in Seq(V)
    <3> HIDE DEF V, A, B, n
    <3> QED BY <1>2, <1>3
  <2> HIDE DEF V, A, B, n
  <2> QED BY <1>1, <2>1
<1>5. \A i \in 1..n : ToSet(f[i]) = {A(i), B(i)}
  <2> HIDE DEF V, A, B, n
  <2> QED BY <1>1, <1>2, <1>3
<1>6. /\ FlattenSeq(f) \in Seq(V)
      /\ \A x : x \in ToSet(FlattenSeq(f)) <=> \E i \in 1..n : x \in ToSet(f[i])
  <2> HIDE DEF V, f, n
  <2> QED BY <1>1, <1>4, FlattenOf
<1>7. PlansAt(q, t, e) = FlattenSeq(f)
  BY DEF PlansAt
<1>8. \A x : (\E i \in 1..n : x \in {A(i), B(i)})
         <=> \E s \in ToSet(Scales), d \in Directions : x = PlanFor(q, t, e, s, d)
  BY <1>1 DEF Directions
<1> HIDE DEF V, A, B, f, n
<1>9. PlansAt(q, t, e) \in Seq(Plans(q))
  BY <1>6, <1>7 DEF V
<1>10. ASSUME NEW x
       PROVE  x \in ToSet(PlansAt(q, t, e)) <=>
                \E s \in ToSet(Scales), d \in Directions : x = PlanFor(q, t, e, s, d)
  <2>1. \A i \in 1..n : x \in ToSet(f[i]) <=> x \in {A(i), B(i)}
    BY <1>5
  <2>2. x \in ToSet(PlansAt(q, t, e)) <=> \E i \in 1..n : x \in ToSet(f[i])
    BY <1>6, <1>7
  <2>3. x \in ToSet(PlansAt(q, t, e)) <=> \E i \in 1..n : x \in {A(i), B(i)}
    BY <2>1, <2>2
  <2> QED BY <1>8, <2>3
<1> QED BY <1>9, <1>10

\* Against one conjunction, the same at every instant tried.
LEMMA PlansAgainstAre ==
  ASSUME NEW q, Situation(q), NEW t, Trigger(q, t)
  PROVE  /\ PlansAgainst(q, t) \in Seq(Plans(q))
         /\ \A x : x \in ToSet(PlansAgainst(q, t)) <=>
              \E e \in ToSet(BurnEpochs(q, t)), s \in ToSet(Scales), d \in Directions :
                x = PlanFor(q, t, e, s, d)
<1> DEFINE epochs == BurnEpochs(q, t)
           V == Plans(q)
           n == Len(epochs)
           f == [k \in DOMAIN epochs |-> PlansAt(q, t, epochs[k])]
<1>1. epochs \in Seq(Int) /\ \A e \in ToSet(epochs) : e \in q.contacts
  BY EpochsAre
<1>2. /\ n \in Nat /\ DOMAIN epochs = 1..n
      /\ \A k \in 1..n : epochs[k] \in ToSet(epochs)
      /\ \A e \in ToSet(epochs) : \E k \in 1..n : epochs[k] = e
  <2> HIDE DEF epochs
  <2> QED BY <1>1, ElementsOf
<1>3. t \in RecordsOf(q)
  BY DEF Trigger
<1> HIDE DEF epochs
<1>4. \A k \in 1..n :
        /\ f[k] \in Seq(V)
        /\ \A x : x \in ToSet(f[k]) <=>
             \E s \in ToSet(Scales), d \in Directions : x = PlanFor(q, t, epochs[k], s, d)
  <2> TAKE k \in 1..n
  <2>1. f[k] = PlansAt(q, t, epochs[k]) /\ epochs[k] \in q.contacts
    BY <1>1, <1>2
  <2> HIDE DEF f
  <2> QED BY <1>3, <2>1, PlansAtAre
<1>5. f \in [1..n -> Seq(V)]
  <2>1. f = [k \in 1..n |-> f[k]]
    BY <1>2
  <2> HIDE DEF f, V, n
  <2> QED BY <1>4, <2>1
<1>6. /\ FlattenSeq(f) \in Seq(V)
      /\ \A x : x \in ToSet(FlattenSeq(f)) <=> \E k \in 1..n : x \in ToSet(f[k])
  <2> HIDE DEF V, f, n
  <2> QED BY <1>2, <1>5, FlattenOf
<1>7. PlansAgainst(q, t) = FlattenSeq(f)
  BY DEF PlansAgainst, epochs
<1> HIDE DEF V, f, n
<1>8. PlansAgainst(q, t) \in Seq(Plans(q))
  BY <1>6, <1>7 DEF V
<1>9. ASSUME NEW x
      PROVE  x \in ToSet(PlansAgainst(q, t)) <=>
               \E e \in ToSet(epochs), s \in ToSet(Scales), d \in Directions :
                 x = PlanFor(q, t, e, s, d)
  <2>1. x \in ToSet(PlansAgainst(q, t)) <=> \E k \in 1..n : x \in ToSet(f[k])
    BY <1>6, <1>7
  <2>2. \A k \in 1..n : x \in ToSet(f[k]) <=>
          \E s \in ToSet(Scales), d \in Directions : x = PlanFor(q, t, epochs[k], s, d)
    BY <1>4
  <2>3. (\E k \in 1..n : \E s \in ToSet(Scales), d \in Directions :
           x = PlanFor(q, t, epochs[k], s, d))
        <=> \E e \in ToSet(epochs), s \in ToSet(Scales), d \in Directions :
              x = PlanFor(q, t, e, s, d)
    BY <1>2
  <2> QED BY <2>1, <2>2, <2>3
<1> QED BY <1>8, <1>9 DEF epochs

Candidate(q, x, t, e, s, d) ==
  /\ t \in ToSet(Triggers(q)) /\ e \in ToSet(BurnEpochs(q, t))
  /\ s \in ToSet(Scales) /\ d \in Directions
  /\ x = PlanFor(q, t, e, s, d)

\* The loops visit every choice and no other.
LEMMA CandidatesElements ==
  ASSUME NEW q, Situation(q)
  PROVE  /\ Candidates(q) \in Seq(Plans(q))
         /\ \A x : x \in ToSet(Candidates(q)) <=>
              \E t \in ToSet(Triggers(q)) : \E e \in ToSet(BurnEpochs(q, t)) :
              \E s \in ToSet(Scales), d \in Directions : Candidate(q, x, t, e, s, d)
<1> DEFINE triggers == Triggers(q)
           V == Plans(q)
           n == Len(triggers)
           f == [k \in DOMAIN triggers |-> PlansAgainst(q, triggers[k])]
<1>1. triggers \in Seq(RecordsOf(q)) /\ \A t \in ToSet(triggers) : Trigger(q, t)
  BY TriggersAre
<1>2. /\ n \in Nat /\ DOMAIN triggers = 1..n
      /\ \A k \in 1..n : triggers[k] \in ToSet(triggers)
      /\ \A t \in ToSet(triggers) : \E k \in 1..n : triggers[k] = t
  <2> HIDE DEF triggers
  <2> QED BY <1>1, ElementsOf
<1> HIDE DEF triggers
<1>4. \A k \in 1..n :
        /\ f[k] \in Seq(V)
        /\ \A x : x \in ToSet(f[k]) <=>
             \E e \in ToSet(BurnEpochs(q, triggers[k])), s \in ToSet(Scales),
                d \in Directions : x = PlanFor(q, triggers[k], e, s, d)
  <2> TAKE k \in 1..n
  <2>1. f[k] = PlansAgainst(q, triggers[k]) /\ Trigger(q, triggers[k])
    BY <1>1, <1>2
  <2> HIDE DEF f
  <2> QED BY <2>1, PlansAgainstAre
<1>5. f \in [1..n -> Seq(V)]
  <2>1. f = [k \in 1..n |-> f[k]]
    BY <1>2
  <2> HIDE DEF f, V, n
  <2> QED BY <1>4, <2>1
<1>6. /\ FlattenSeq(f) \in Seq(V)
      /\ \A x : x \in ToSet(FlattenSeq(f)) <=> \E k \in 1..n : x \in ToSet(f[k])
  <2> HIDE DEF V, f, n
  <2> QED BY <1>2, <1>5, FlattenOf
<1>7. Candidates(q) = FlattenSeq(f)
  BY CandidatesAre DEF triggers
<1> HIDE DEF V, f, n
<1>8. Candidates(q) \in Seq(Plans(q))
  BY <1>6, <1>7 DEF V
<1>9. ASSUME NEW x
      PROVE  x \in ToSet(Candidates(q)) <=>
               \E t \in ToSet(triggers) : \E e \in ToSet(BurnEpochs(q, t)) :
               \E s \in ToSet(Scales), d \in Directions : x = PlanFor(q, t, e, s, d)
  <2>1. x \in ToSet(Candidates(q)) <=> \E k \in 1..n : x \in ToSet(f[k])
    BY <1>6, <1>7
  <2>2. \A k \in 1..n : x \in ToSet(f[k]) <=>
          \E e \in ToSet(BurnEpochs(q, triggers[k])), s \in ToSet(Scales),
             d \in Directions : x = PlanFor(q, triggers[k], e, s, d)
    BY <1>4
  <2>3. (\E k \in 1..n : \E e \in ToSet(BurnEpochs(q, triggers[k])),
           s \in ToSet(Scales), d \in Directions : x = PlanFor(q, triggers[k], e, s, d))
        <=> \E t \in ToSet(triggers) : \E e \in ToSet(BurnEpochs(q, t)) :
            \E s \in ToSet(Scales), d \in Directions : x = PlanFor(q, t, e, s, d)
    BY <1>2
  <2> QED BY <2>1, <2>2, <2>3
<1> QED BY <1>8, <1>9 DEF triggers, Candidate

-----------------------------------------------------------------------------
(* Comparing plans: by class, then by the first merit.                     *)
FirstMerit(p) == IF p.class >= 1 THEN p.dv ELSE -p.miss
NoWorse(a, b) ==
  \/ a.class > b.class
  \/ a.class = b.class /\ FirstMerit(a) <= FirstMerit(b)

\* A plan says what its burn comes to; without an outcome there is none.
LEMMA PlanIs ==
  ASSUME NEW q, Situation(q), NEW t \in RecordsOf(q), NEW e \in q.contacts,
         NEW s \in ToSet(Scales), NEW d \in Directions
  PROVE  LET c == [trigger |-> t, burn |-> e, dv |-> s, direction |-> d]
             p == PlanFor(q, t, e, s, d)
         IN  /\ OutcomeOf(q, c) = Failed => p = NoPlan
             /\ OutcomeOf(q, c) # Failed =>
                  /\ p.valid /\ p.trigger = t /\ p.burn = e /\ p.dv = s
                  /\ p.direction = d
                  /\ p.miss = OutcomeOf(q, c).miss /\ p.miss \in Int
                  /\ p.class = SafetyClass(p.miss, t.miss) /\ p.class \in {0, 1, 2}
                  /\ p.dv \in Nat /\ FirstMerit(p) \in Int /\ Merits(p)[1] = FirstMerit(p)
                  /\ DOMAIN Merits(p) = 1..6
<1> DEFINE after == q.impulse[t.deb][e][s][d]
           c == [trigger |-> t, burn |-> e, dv |-> s, direction |-> d]
           p == PlanFor(q, t, e, s, d)
<1>1. after \in Outcomes /\ OutcomeOf(q, c) = after
  BY DEF Situation, OutcomeOf
<1>2. CASE after = Failed
  BY <1>1, <1>2 DEF PlanFor
<1>3. CASE after # Failed
  <2>1. after.miss \in Int /\ after.slotError \in Int
    BY <1>1, <1>3 DEF Outcomes
  <2>2. s \in Nat /\ t.miss \in Int
    BY ScalesAre DEF Situation
  <2>3. /\ p.valid /\ p.trigger = t /\ p.burn = e /\ p.dv = s /\ p.direction = d
        /\ p.miss = after.miss /\ p.class = SafetyClass(after.miss, t.miss)
    BY <1>3 DEF PlanFor
  <2>4. p.class \in {0, 1, 2}
    <3> HIDE DEF p, after
    <3> QED BY <2>3 DEF SafetyClass
  <2> HIDE DEF p, after
  <2>5. /\ FirstMerit(p) \in Int /\ Merits(p)[1] = FirstMerit(p)
        /\ DOMAIN Merits(p) = 1..6
    BY <2>1, <2>2, <2>3, <2>4 DEF FirstMerit, Merits
  <2> QED BY <1>1, <1>3, <2>1, <2>2, <2>3, <2>4, <2>5 DEF p
<1> QED BY <1>2, <1>3

Comparable(p) ==
  /\ p.valid /\ p.class \in {0, 1, 2} /\ FirstMerit(p) \in Int
  /\ Merits(p)[1] = FirstMerit(p) /\ DOMAIN Merits(p) = 1..6

\* Of two plans, auto_cola_plan_better prefers one that is no worse.
LEMMA BetterIsNoWorse ==
  ASSUME NEW a, NEW b, Comparable(a), Comparable(b)
  PROVE  /\ PlanBetter(a, b) => NoWorse(a, b)
         /\ ~PlanBetter(a, b) => NoWorse(b, a)
<1> USE DEF Comparable
<1>1. ASSUME PlanBetter(a, b) PROVE NoWorse(a, b)
  <2>1. CASE a.class > b.class
    BY <2>1 DEF NoWorse
  <2>2. CASE a.class = b.class /\ \E i \in DOMAIN Merits(a) :
                /\ Merits(a)[i] < Merits(b)[i]
                /\ \A j \in 1..(i - 1) : Merits(a)[j] = Merits(b)[j]
    <3>1. PICK i \in 1..6 : /\ Merits(a)[i] < Merits(b)[i]
                            /\ \A j \in 1..(i - 1) : Merits(a)[j] = Merits(b)[j]
      BY <2>2
    <3>2. CASE i = 1
      BY <2>2, <3>1, <3>2 DEF NoWorse
    <3>3. CASE i # 1
      <4>1. 1 \in 1..(i - 1)
        BY <3>3
      <4> QED BY <2>2, <3>1, <4>1 DEF NoWorse
    <3> QED BY <3>2, <3>3
  <2> QED BY <1>1, <2>1, <2>2 DEF PlanBetter
<1>2. ASSUME ~PlanBetter(a, b) PROVE NoWorse(b, a)
  <2>1. ~(a.class > b.class)
    BY <1>2 DEF PlanBetter
  <2>2. CASE a.class = b.class
    <3>1. ~(Merits(a)[1] < Merits(b)[1])
      <4>1. \A j \in 1..(1 - 1) : Merits(a)[j] = Merits(b)[j]
        OBVIOUS
      <4>2. 1 \in DOMAIN Merits(a)
        OBVIOUS
      <4> QED BY <1>2, <2>2, <4>1, <4>2 DEF PlanBetter
    <3> QED BY <2>2, <3>1 DEF NoWorse
  <2> QED BY <2>1, <2>2 DEF NoWorse
<1> QED BY <1>1, <1>2

(* The recursion of ColaPlan. *)
Choosing(h, seq) ==
  h = [s \in SUBSET (DOMAIN seq) |->
         IF s = {} THEN NoPlan
         ELSE IF PlanBetter(seq[Max(s)], h[s \ {Max(s)}]) THEN seq[Max(s)]
         ELSE h[s \ {Max(s)}]]

\* What ColaPlan evaluates to solves its recursion.
LEMMA ChoosingTable ==
  ASSUME NEW q, \E g : Choosing(g, Candidates(q))
  PROVE  \E h : ColaPlan(q) = h[DOMAIN Candidates(q)] /\ Choosing(h, Candidates(q))
BY DEF ColaPlan, FoldLeft, MapThenFoldSet, Choosing

IsChoosing(run, V, seq, plan) ==
  /\ run \in [0..Len(seq) -> V]
  /\ run[0] = NoPlan
  /\ \A k \in 1..Len(seq) :
       run[k] = IF PlanBetter(seq[k], run[k - 1]) THEN seq[k] ELSE run[k - 1]
  /\ run[Len(seq)] = plan

\* ColaPlan is the end of a run of best plans so far.
LEMMA ChoosingRun ==
  ASSUME NEW q, NEW V, Candidates(q) \in Seq(V), NoPlan \in V
  PROVE  \E run : IsChoosing(run, V, Candidates(q), ColaPlan(q))
<1> DEFINE seq == Candidates(q)
           n == Len(seq)
           Better(v, x) == IF PlanBetter(x, v) THEN x ELSE v
           F == [k \in 1..n |-> [v \in V |-> Better(v, seq[k])]]
<1>1. n \in Nat /\ DOMAIN seq = 1..n /\ \A k \in 1..n : seq[k] \in V
  <2> HIDE DEF seq
  <2> QED BY ElementsOf DEF seq
<1>2. \A v \in V, x \in V : Better(v, x) \in V
  OBVIOUS
<1> HIDE DEF seq
<1>4. F \in [1..n -> [V -> V]]
  <2> HIDE DEF Better
  <2> QED BY <1>1, <1>2
<1>5. \A k \in 1..n, v \in V : F[k][v] = Better(v, seq[k])
  <2> HIDE DEF Better
  <2> QED OBVIOUS
<1> HIDE DEF F, n
<1>6. Foldable(n, V, NoPlan, F)
  BY <1>1, <1>4 DEF Foldable
<1>7. PICK g : IsTable(g, n, V, NoPlan, F)
  BY <1>6, FoldTable
<1>8. Choosing(g, seq)
  <2>1. ASSUME NEW s \in SUBSET (1..n), s # {}
        PROVE  g[s] = Better(g[s \ {Max(s)}], seq[Max(s)])
    <3>1. Max(s) \in 1..n
      BY <1>1, <2>1, SetMax
    <3>2. g[s \ {Max(s)}] \in V
      BY <1>7 DEF IsTable
    <3> HIDE DEF Better
    <3> QED BY <1>5, <1>7, <2>1, <3>1, <3>2 DEF IsTable
  <2> QED BY <1>1, <1>7, <2>1 DEF IsTable, Choosing
<1>9. PICK h : ColaPlan(q) = h[DOMAIN seq] /\ Choosing(h, seq)
  BY <1>8, ChoosingTable DEF seq
<1>10. h[{}] = NoPlan
  BY <1>9 DEF Choosing
<1>11. ASSUME NEW k \in 1..n, h[1..(k - 1)] \in V
       PROVE  h[1..k] = F[k][h[1..(k - 1)]]
  <2>1. 1..k # {} /\ Max(1..k) = k /\ (1..k) \ {Max(1..k)} = 1..(k - 1)
    BY SegmentMax
  <2>2. 1..k \in SUBSET (1..n)
    BY <1>1
  <2>3. h[1..k] = Better(h[1..(k - 1)], seq[k])
    BY <1>1, <1>9, <2>1, <2>2 DEF Choosing
  <2> HIDE DEF Better
  <2> QED BY <1>5, <1>11, <2>3
<1>12. PICK run : IsRun(run, n, V, NoPlan, F) /\ run[n] = h[1..n]
  BY <1>6, <1>10, <1>11, FoldRun
<1>13. \A k \in 1..n : run[k - 1] \in V
  BY <1>1, <1>12 DEF IsRun
<1>14. \A k \in 1..n : run[k] = Better(run[k - 1], seq[k])
  <2> HIDE DEF Better
  <2> QED BY <1>5, <1>12, <1>13 DEF IsRun
<1> QED
  BY <1>1, <1>9, <1>12, <1>14 DEF IsRun, IsChoosing, n, seq

(* The plan is one of the candidates, and none is better than it.          *)
Choice(plan, seq, k) ==
  \/ plan = NoPlan /\ \A i \in 1..k : ~seq[i].valid
  \/ /\ plan.valid /\ \E i \in 1..k : plan = seq[i]
     /\ \A i \in 1..k : seq[i].valid => NoWorse(plan, seq[i])

\* Being no worse is transitive.
LEMMA NoWorseOrder ==
  ASSUME NEW a, NEW b, NEW c, Comparable(a), Comparable(b), Comparable(c),
         NoWorse(a, b), NoWorse(b, c)
  PROVE  NoWorse(a, c)
BY DEF Comparable, NoWorse

\* After any number of candidates the best so far is one of them, and no
\* worse than any.
LEMMA ColaPlanChooses ==
  ASSUME NEW q, NEW V, Candidates(q) \in Seq(V), NoPlan \in V,
         \A p \in V : p = NoPlan \/ Comparable(p)
  PROVE  Choice(ColaPlan(q), Candidates(q), Len(Candidates(q)))
<1> DEFINE seq == Candidates(q)
           n == Len(seq)
<1>1. n \in Nat /\ \A k \in 1..n : seq[k] \in V
  <2> HIDE DEF seq
  <2> QED BY ElementsOf DEF seq
<1>2. PICK run : IsChoosing(run, V, seq, ColaPlan(q))
  BY ChoosingRun
<1>3. ~NoPlan.valid
  BY DEF NoPlan
<1> HIDE DEF seq, n
<1>4. Choice(run[0], seq, 0)
  BY <1>2 DEF IsChoosing, Choice
<1>5. ASSUME NEW k \in 0..(n - 1), Choice(run[k], seq, k)
      PROVE  Choice(run[k + 1], seq, k + 1)
  <2> DEFINE best == run[k]
             p == seq[k + 1]
  <2>1. /\ k + 1 \in 1..n /\ (k + 1) - 1 = k /\ k \in 0..n
        /\ \A i \in 1..(k + 1) : i \in 1..k \/ i = k + 1
        /\ \A i \in 1..k : i \in 1..(k + 1) /\ i \in 1..n
    BY <1>1
  <2>2. /\ run[k + 1] = IF PlanBetter(p, best) THEN p ELSE best
        /\ best \in V /\ p \in V
    BY <1>1, <1>2, <2>1 DEF IsChoosing, n
  <2>3. /\ best = NoPlan \/ Comparable(best)
        /\ p = NoPlan \/ Comparable(p)
        /\ \A i \in 1..k : seq[i] = NoPlan \/ Comparable(seq[i])
    BY <1>1, <2>1, <2>2
  <2>4. \A x : Comparable(x) => x.valid
    BY DEF Comparable
  <2>5. Choice(best, seq, k)
    BY <1>5
  <2>6. CASE PlanBetter(p, best)
    <3>1. run[k + 1] = p /\ p.valid /\ Comparable(p)
      BY <1>3, <2>2, <2>3, <2>6 DEF PlanBetter
    <3>2. NoWorse(p, p)
      BY <3>1 DEF NoWorse, Comparable
    <3>3. ASSUME NEW i \in 1..k, seq[i].valid PROVE NoWorse(p, seq[i])
      <4>1. Comparable(seq[i])
        BY <1>3, <2>3, <3>3
      <4>2. Comparable(best) /\ NoWorse(best, seq[i])
        BY <1>3, <2>3, <2>5, <3>3 DEF Choice
      <4>3. NoWorse(p, best)
        BY <2>6, <3>1, <4>2, BetterIsNoWorse
      <4> QED BY <3>1, <4>1, <4>2, <4>3, NoWorseOrder
    <3> QED BY <2>1, <3>1, <3>2, <3>3 DEF Choice
  <2>7. CASE ~PlanBetter(p, best)
    <3>1. run[k + 1] = best
      BY <2>2, <2>7
    <3>2. CASE best = NoPlan
      <4>1. \A i \in 1..k : ~seq[i].valid
        BY <1>3, <2>5, <3>2 DEF Choice
      <4>2. ~p.valid
        BY <1>3, <2>7, <3>2 DEF PlanBetter
      <4> QED BY <2>1, <3>1, <3>2, <4>1, <4>2 DEF Choice
    <3>3. CASE Comparable(best)
      <4>1. /\ best.valid /\ \E i \in 1..k : best = seq[i]
            /\ \A i \in 1..k : seq[i].valid => NoWorse(best, seq[i])
        BY <1>3, <2>4, <2>5, <3>3 DEF Choice
      <4>2. p.valid => NoWorse(best, p)
        BY <1>3, <2>3, <2>7, <3>3, BetterIsNoWorse
      <4> HIDE DEF best, p
      <4> QED BY <2>1, <3>1, <4>1, <4>2 DEF Choice, p
    <3> QED BY <2>3, <3>2, <3>3
  <2> QED BY <2>6, <2>7
<1>6. Choice(run[n], seq, n)
  <2> DEFINE G == {k \in 0..n : Choice(run[k], seq, k)}
  <2>1. 0 \in G /\ \A k \in 0..(n - 1) : k \in G => k + 1 \in G
    BY <1>1, <1>4, <1>5
  <2>2. \A k \in 0..n : k \in G
    <3> HIDE DEF G
    <3> QED BY <1>1, <2>1, UpTo
  <2> QED BY <1>1, <2>2
<1> QED
  BY <1>2, <1>6 DEF IsChoosing, n, seq

(* What makes a choice of trigger, epoch, size and direction possible.     *)
Choosable(q, c) ==
  /\ c \in [trigger : ToSet(Triggers(q)), burn : q.contacts,
            dv : ToSet(Scales), direction : Directions]
  /\ c.burn \in ToSet(BurnEpochs(q, c.trigger))
  /\ OutcomeOf(q, c) # Failed

PlanOf(q, c) == PlanFor(q, c.trigger, c.burn, c.dv, c.direction)

\* The class says whether the burn reaches the target, or only clears the
\* collision distance.
LEMMA ClassIs ==
  ASSUME NEW miss \in Int, NEW triggerMiss \in Int
  PROVE  LET class == SafetyClass(miss, triggerMiss) IN
         /\ class \in {0, 1, 2}
         /\ class = 2 <=> miss >= Target /\ miss >= triggerMiss + Improvement
         /\ class >= 1 <=> miss > Critical
BY ScanAssumption DEF SafetyClass

(* A possible choice is a candidate, comparable, with the figures PlanIsBest *)
(* looks at; every valid candidate is one.                                 *)
PlanFigures(q, c, p) ==
  /\ Comparable(p)
  /\ p.trigger = c.trigger /\ p.burn = c.burn /\ p.dv = c.dv
  /\ p.direction = c.direction
  /\ p.miss = OutcomeOf(q, c).miss
  /\ p.miss \in Int /\ p.dv \in Int /\ c.trigger.miss \in Int
  /\ p.class = SafetyClass(p.miss, c.trigger.miss)

\* The valid candidates are the plans of the choices that can be computed.
LEMMA ChoicesArePlans ==
  ASSUME NEW q, Situation(q)
  PROVE  /\ \A c : Choosable(q, c) =>
              PlanFigures(q, c, PlanOf(q, c)) /\ PlanOf(q, c) \in ToSet(Candidates(q))
         /\ \A p \in ToSet(Candidates(q)) : p.valid =>
              \E c : Choosable(q, c) /\ p = PlanOf(q, c)
<1>1. \A t \in ToSet(Triggers(q)) :
        t \in RecordsOf(q) /\ t.miss \in Int
          /\ \A e \in ToSet(BurnEpochs(q, t)) : e \in q.contacts
  <2> TAKE t \in ToSet(Triggers(q))
  <2>1. Trigger(q, t)
    BY TriggersAre
  <2> QED BY <2>1, EpochsAre DEF Trigger, Situation
<1>2. ASSUME NEW c, Choosable(q, c)
      PROVE  PlanFigures(q, c, PlanOf(q, c)) /\ PlanOf(q, c) \in ToSet(Candidates(q))
  <2> DEFINE t == c.trigger
             e == c.burn
             s == c.dv
             d == c.direction
  <2>1. /\ t \in ToSet(Triggers(q)) /\ e \in ToSet(BurnEpochs(q, t)) /\ e \in q.contacts
        /\ s \in ToSet(Scales) /\ d \in Directions
        /\ OutcomeOf(q, c) # Failed
        /\ c = [trigger |-> t, burn |-> e, dv |-> s, direction |-> d]
    BY <1>2 DEF Choosable
  <2>2. t \in RecordsOf(q) /\ t.miss \in Int
    BY <1>1, <2>1
  <2> DEFINE p == PlanFor(q, t, e, s, d)
  <2>3. p = PlanOf(q, c)
    BY DEF PlanOf
  <2>4. p \in ToSet(Candidates(q))
    <3>1. Candidate(q, p, t, e, s, d)
      <4> HIDE DEF t, e, s, d
      <4> QED BY <2>1 DEF Candidate
    <3> HIDE DEF p, t, e, s, d
    <3> QED BY <2>1, <3>1, CandidatesElements
  <2> HIDE DEF t, e, s, d
  <2>5. LET k == [trigger |-> t, burn |-> e, dv |-> s, direction |-> d]
        IN OutcomeOf(q, k) # Failed =>
             /\ p.valid /\ p.trigger = t /\ p.burn = e /\ p.dv = s
             /\ p.direction = d
             /\ p.miss = OutcomeOf(q, k).miss /\ p.miss \in Int
             /\ p.class = SafetyClass(p.miss, t.miss) /\ p.class \in {0, 1, 2}
             /\ p.dv \in Nat /\ FirstMerit(p) \in Int /\ Merits(p)[1] = FirstMerit(p)
             /\ DOMAIN Merits(p) = 1..6
    <3> HIDE DEF p
    <3> QED BY <2>1, <2>2, PlanIs DEF p
  <2> HIDE DEF p
  <2>6. PlanFigures(q, c, p)
    <3>1. /\ p.valid /\ p.trigger = t /\ p.burn = e /\ p.dv = s /\ p.direction = d
          /\ p.miss = OutcomeOf(q, c).miss /\ p.miss \in Int
          /\ p.class = SafetyClass(p.miss, t.miss) /\ p.class \in {0, 1, 2}
          /\ p.dv \in Nat /\ FirstMerit(p) \in Int /\ Merits(p)[1] = FirstMerit(p)
          /\ DOMAIN Merits(p) = 1..6
      BY <2>1, <2>5
    <3> QED BY <2>2, <3>1 DEF PlanFigures, Comparable, t, e, s, d
  <2> QED BY <2>3, <2>4, <2>6
<1>3. ASSUME NEW p \in ToSet(Candidates(q)), p.valid
      PROVE  \E c : Choosable(q, c) /\ p = PlanOf(q, c)
  <2>1. \E t \in ToSet(Triggers(q)) : \E e \in ToSet(BurnEpochs(q, t)) :
        \E s \in ToSet(Scales), d \in Directions : Candidate(q, p, t, e, s, d)
    BY CandidatesElements
  <2>2. PICK t \in ToSet(Triggers(q)) : \E e \in ToSet(BurnEpochs(q, t)) :
          \E s \in ToSet(Scales), d \in Directions : Candidate(q, p, t, e, s, d)
    BY <2>1
  <2>3. PICK e \in ToSet(BurnEpochs(q, t)) :
          \E s \in ToSet(Scales), d \in Directions : Candidate(q, p, t, e, s, d)
    BY <2>2
  <2>4. PICK s \in ToSet(Scales), d \in Directions : Candidate(q, p, t, e, s, d)
    BY <2>3
  <2> DEFINE c == [trigger |-> t, burn |-> e, dv |-> s, direction |-> d]
  <2>5. t \in RecordsOf(q) /\ e \in q.contacts
    BY <1>1
  <2>6. p = PlanFor(q, t, e, s, d)
    BY <2>4 DEF Candidate
  <2>7. OutcomeOf(q, c) = Failed => p = NoPlan
    BY <2>5, <2>6, PlanIs
  <2>8. ~NoPlan.valid
    BY DEF NoPlan
  <2>9. OutcomeOf(q, c) # Failed
    BY <1>3, <2>7, <2>8
  <2>10. /\ c.trigger = t /\ c.burn = e /\ c.dv = s /\ c.direction = d
         /\ c \in [trigger : ToSet(Triggers(q)), burn : q.contacts,
                   dv : ToSet(Scales), direction : Directions]
    BY <2>5
  <2> HIDE DEF c
  <2>11. Choosable(q, c) /\ p = PlanOf(q, c)
    BY <2>6, <2>9, <2>10 DEF Choosable, PlanOf
  <2> QED BY <2>11
<1> QED BY <1>2, <1>3

\* Every plan visited can be compared, or is none.
LEMMA PlansAreComparable ==
  ASSUME NEW q, Situation(q), NEW p \in Plans(q)
  PROVE  p = NoPlan \/ Comparable(p)
<1>1. PICK t \in RecordsOf(q), e \in q.contacts, s \in ToSet(Scales), d \in Directions :
        p = PlanFor(q, t, e, s, d)
  BY DEF Plans
<1> DEFINE c == [trigger |-> t, burn |-> e, dv |-> s, direction |-> d]
<1>2. CASE OutcomeOf(q, c) = Failed
  BY <1>1, <1>2, PlanIs
<1>3. CASE OutcomeOf(q, c) # Failed
  <2>1. /\ p.valid /\ p.class \in {0, 1, 2} /\ FirstMerit(p) \in Int
        /\ Merits(p)[1] = FirstMerit(p) /\ DOMAIN Merits(p) = 1..6
    BY <1>1, <1>3, PlanIs
  <2> QED BY <2>1 DEF Comparable
<1> QED BY <1>2, <1>3

\* The plan is that of a choice and no worse than any other; there is none
\* only without a choice.
LEMMA PlanIsChoice ==
  ASSUME NEW q, Situation(q)
  PROVE  /\ ~ColaPlan(q).valid => \A c : ~Choosable(q, c)
         /\ ColaPlan(q).valid =>
              /\ \E c : Choosable(q, c) /\ ColaPlan(q) = PlanOf(q, c)
              /\ \A c : Choosable(q, c) => NoWorse(ColaPlan(q), PlanOf(q, c))
<1> DEFINE plan == ColaPlan(q)
           seq == Candidates(q)
           V == Plans(q) \cup {NoPlan}
<1>1. seq \in Seq(V)
  <2>1. seq \in Seq(Plans(q)) /\ Plans(q) \subseteq V
    BY CandidatesElements
  <2> HIDE DEF V, seq
  <2> QED BY <2>1
<1>2. Choice(plan, seq, Len(seq))
  <2>1. \A p \in V : p = NoPlan \/ Comparable(p)
    BY PlansAreComparable
  <2>2. NoPlan \in V
    OBVIOUS
  <2> HIDE DEF V
  <2> QED BY <1>1, <2>1, <2>2, ColaPlanChooses
<1>3. \A x \in ToSet(seq) : \E i \in 1..Len(seq) : seq[i] = x
  <2> HIDE DEF seq, V
  <2> QED BY <1>1, ElementsOf
<1>4. \A i \in 1..Len(seq) : seq[i] \in ToSet(seq)
  <2> HIDE DEF seq, V
  <2> QED BY <1>1, ElementsOf
<1>5. ~NoPlan.valid
  BY DEF NoPlan
<1>6. \A c : Choosable(q, c) => PlanOf(q, c) \in ToSet(seq) /\ PlanOf(q, c).valid
  BY ChoicesArePlans DEF PlanFigures, Comparable
<1>7. \A p \in ToSet(seq) : p.valid => \E c : Choosable(q, c) /\ p = PlanOf(q, c)
  BY ChoicesArePlans
<1> HIDE DEF plan, seq, V
<1>8. ASSUME ~plan.valid, NEW c, Choosable(q, c) PROVE FALSE
  <2>1. PICK i \in 1..Len(seq) : seq[i] = PlanOf(q, c)
    BY <1>3, <1>6, <1>8
  <2> QED BY <1>2, <1>6, <1>8, <2>1 DEF Choice
<1>9. ASSUME plan.valid PROVE \E c : Choosable(q, c) /\ plan = PlanOf(q, c)
  BY <1>2, <1>4, <1>5, <1>7, <1>9 DEF Choice
<1>10. ASSUME plan.valid, NEW c, Choosable(q, c) PROVE NoWorse(plan, PlanOf(q, c))
  <2>1. PICK i \in 1..Len(seq) : seq[i] = PlanOf(q, c)
    BY <1>3, <1>6, <1>10
  <2> QED BY <1>2, <1>5, <1>6, <1>10, <2>1 DEF Choice
<1> QED BY <1>8, <1>9, <1>10 DEF plan

\* Hence the avoidance burn is the least that is safe, or the best there
\* is.
LEMMA PlanIsBestOfAll ==
  ASSUME NEW q, Situation(q)
  PROVE  PlanIsBest(q, ColaPlan(q))
<1> DEFINE plan == ColaPlan(q)
           choices == {c \in [trigger : ToSet(Triggers(q)), burn : q.contacts,
                              dv : ToSet(Scales), direction : Directions] :
                         c.burn \in ToSet(BurnEpochs(q, c.trigger))
                         /\ OutcomeOf(q, c) # Failed}
           chosen == [trigger |-> plan.trigger, burn |-> plan.burn, dv |-> plan.dv,
                      direction |-> plan.direction]
           missOf(c) == OutcomeOf(q, c).miss
           atTarget == {c \in choices : missOf(c) >= Target
                                        /\ missOf(c) >= c.trigger.miss + Improvement}
           clear == {c \in choices : missOf(c) > Critical}
           cheapest(S) == \A c \in S : plan.dv <= c.dv
<1>1. \A c : c \in choices <=> Choosable(q, c)
  BY DEF Choosable
<1>2. \A c \in choices : PlanFigures(q, c, PlanOf(q, c))
  <2> HIDE DEF choices
  <2> QED BY <1>1, ChoicesArePlans
<1>3. CASE ~plan.valid
  <2>1. choices = {}
    <3> HIDE DEF choices
    <3> QED BY <1>1, <1>3, PlanIsChoice
  <2> QED BY <1>3, <2>1 DEF PlanIsBest
<1>4. CASE plan.valid
  <2>1. PICK c0 : Choosable(q, c0) /\ plan = PlanOf(q, c0)
    BY <1>4, PlanIsChoice
  <2>2. \A c \in choices : NoWorse(plan, PlanOf(q, c))
    <3> HIDE DEF choices
    <3> QED BY <1>1, <1>4, PlanIsChoice
  <2>3. c0 \in choices /\ PlanFigures(q, c0, plan)
    <3> HIDE DEF choices
    <3> QED BY <1>1, <2>1, ChoicesArePlans
  <2>4. c0 = chosen
    <3>1. c0 = [trigger |-> c0.trigger, burn |-> c0.burn, dv |-> c0.dv,
                direction |-> c0.direction]
      BY <2>1 DEF Choosable
    <3> HIDE DEF plan
    <3> QED BY <2>3, <3>1 DEF PlanFigures
  <2>5. chosen \in choices /\ PlanFigures(q, chosen, plan)
    BY <2>3, <2>4
  <2>6. /\ Trigger(q, plan.trigger)
        /\ EarliestBurn(q) <= plan.burn /\ plan.burn <= plan.trigger.tca - MinLead
        /\ plan.burn \in Int
    <3>1. plan.trigger \in ToSet(Triggers(q)) /\ plan.burn \in ToSet(BurnEpochs(q, plan.trigger))
          /\ plan.burn \in q.contacts
      <4>1. Choosable(q, chosen)
        BY <2>1, <2>4
      <4> HIDE DEF plan
      <4> QED BY <4>1 DEF Choosable
    <3>2. Trigger(q, plan.trigger)
      BY <3>1, TriggersAre
    <3> HIDE DEF plan
    <3> QED BY <3>1, <3>2, EpochsAre DEF Situation
  <2>7. /\ plan.trigger.severity = "CRITICAL" /\ ~plan.trigger.failOpen
        /\ plan.trigger.sat = q.sat
    <3> HIDE DEF plan
    <3> QED BY <2>6 DEF Trigger
  <2>8. /\ plan.burn >= q.now + q.latency
        /\ \A l \in q.last : plan.burn - l >= q.cooldown
        /\ plan.trigger.tca - plan.burn >= MinLead
    <3>1. plan.trigger.tca \in Int /\ MinLead \in Nat /\ q.now \in Int /\ q.latency \in Int
          /\ q.cooldown \in Int /\ \A l \in q.last : l \in Int
      <4> HIDE DEF plan
      <4> QED BY <2>6, ScanAssumption DEF Trigger, Situation
    <3>2. /\ EarliestBurn(q) \in Int /\ EarliestBurn(q) >= q.now + q.latency
          /\ \A l \in q.last : EarliestBurn(q) - l >= q.cooldown
      BY EarliestIs
    <3> HIDE DEF plan
    <3> QED BY <2>6, <3>1, <3>2
  <2> HIDE DEF plan, choices, chosen
  <2> DEFINE P(c) == PlanOf(q, c)
  <2>9. \A c \in choices :
          /\ P(c).miss = missOf(c) /\ P(c).dv = c.dv /\ P(c).miss \in Int /\ P(c).dv \in Int
          /\ P(c).class \in {0, 1, 2}
          /\ c \in atTarget <=> P(c).class = 2
          /\ c \in clear <=> P(c).class >= 1
          /\ FirstMerit(P(c)) = IF P(c).class >= 1 THEN P(c).dv ELSE -P(c).miss
    <3> TAKE c \in choices
    <3>1. PlanFigures(q, c, P(c))
      BY <1>2
    <3> HIDE DEF P
    <3>2. /\ P(c).miss = missOf(c) /\ P(c).dv = c.dv /\ P(c).miss \in Int /\ P(c).dv \in Int
          /\ c.trigger.miss \in Int /\ P(c).class = SafetyClass(P(c).miss, c.trigger.miss)
      BY <3>1 DEF PlanFigures
    <3>3. /\ P(c).class \in {0, 1, 2}
          /\ P(c).class = 2 <=> P(c).miss >= Target
                                /\ P(c).miss >= c.trigger.miss + Improvement
          /\ P(c).class >= 1 <=> P(c).miss > Critical
      BY <3>2, ClassIs
    <3>4. FirstMerit(P(c)) = IF P(c).class >= 1 THEN P(c).dv ELSE -P(c).miss
      BY DEF FirstMerit
    <3> QED BY <3>2, <3>3, <3>4
  <2>10. plan = P(chosen)
    BY <2>1, <2>4
  <2>11. \A c \in choices :
           \/ plan.class > P(c).class
           \/ plan.class = P(c).class /\ FirstMerit(plan) <= FirstMerit(P(c))
    BY <2>2 DEF NoWorse
  <2> HIDE DEF P
  <2>12. CASE atTarget # {}
    <3>1. PICK c \in choices : c \in atTarget
      BY <2>12
    <3>2. plan.class = 2
      BY <2>5, <2>9, <2>10, <2>11, <3>1
    <3>3. chosen \in atTarget
      BY <2>5, <2>9, <2>10, <3>2
    <3>4. ASSUME NEW k \in atTarget PROVE plan.dv <= k.dv
      BY <2>5, <2>9, <2>10, <2>11, <3>2
    <3>5. chosen \in atTarget /\ cheapest(atTarget)
      BY <3>3, <3>4
    <3>6. choices # {}
      BY <2>5
    <3> HIDE DEF atTarget
    <3> QED BY <1>4, <2>5, <2>7, <2>8, <2>12, <3>5, <3>6
            DEF PlanIsBest, plan, choices, chosen, atTarget
  <2>13. CASE atTarget = {} /\ clear # {}
    <3>1. PICK c \in choices : c \in clear
      BY <2>13
    <3>2. plan.class = 1
      <4>1. plan.class # 2
        BY <2>5, <2>9, <2>10, <2>13
      <4> QED BY <2>5, <2>9, <2>10, <2>11, <3>1, <4>1
    <3>3. plan.miss > Critical
      BY <2>5, <2>9, <2>10, <3>2
    <3>4. ASSUME NEW k \in clear PROVE plan.dv <= k.dv
      <4>1. k \in choices /\ P(k).class = 1
        BY <2>9, <2>13
      <4> QED BY <2>5, <2>9, <2>10, <2>11, <3>2, <4>1
    <3>5. plan.miss > Critical /\ cheapest(clear)
      BY <3>3, <3>4
    <3>6. choices # {}
      BY <2>5
    <3> HIDE DEF atTarget, clear
    <3> QED BY <1>4, <2>5, <2>7, <2>8, <2>13, <3>5, <3>6
            DEF PlanIsBest, plan, choices, chosen, atTarget, clear
  <2>14. CASE atTarget = {} /\ clear = {}
    <3>1. \A c \in choices : P(c).class = 0
      BY <2>9, <2>14
    <3>2. \A c \in choices : missOf(c) <= plan.miss
      BY <2>5, <2>9, <2>10, <2>11, <3>1
    <3>3. choices # {}
      BY <2>5
    <3> HIDE DEF atTarget, clear
    <3> QED BY <1>4, <2>5, <2>7, <2>8, <2>14, <3>2, <3>3
            DEF PlanIsBest, plan, choices, chosen, atTarget, clear
  <2> QED BY <2>12, <2>13, <2>14
<1> QED BY <1>3, <1>4

-----------------------------------------------------------------------------
(* The predictive scan: what it finds of one pair.                         *)

Distance == Nat \cup {Failed}

(* The distances of a pair: the present one is known.                      *)
Sampled(d) == d \in Seq(Distance) /\ d # << >> /\ d[1] # Failed

\* The distances of a pair and of the part of it that is scanned.
LEMMA SampledIs ==
  ASSUME NEW d, Sampled(d)
  PROVE  /\ Len(d) \in Nat \ {0} /\ DOMAIN d = 1..Len(d)
         /\ d[1] \in Nat /\ \A i \in 1..Len(d) : d[i] \in Nat \/ d[i] = Failed
         /\ \A n \in 1..Len(d) :
              /\ SubSeq(d, 1, n) \in Seq(Distance) /\ Len(SubSeq(d, 1, n)) = n
              /\ \A i \in 1..n : SubSeq(d, 1, n)[i] = d[i]
<1>1. Len(d) \in Nat \ {0} /\ DOMAIN d = 1..Len(d)
  BY DEF Sampled
<1>2. \A i \in 1..Len(d) : d[i] \in Distance
  BY DEF Sampled
<1>3. d[1] \in Nat
  BY <1>1, <1>2 DEF Sampled, Distance
<1>4. ASSUME NEW n \in 1..Len(d)
      PROVE  /\ SubSeq(d, 1, n) \in Seq(Distance) /\ Len(SubSeq(d, 1, n)) = n
             /\ \A i \in 1..n : SubSeq(d, 1, n)[i] = d[i]
  <2>1. n \in Nat
    BY <1>1
  <2> QED BY <1>1, <2>1 DEF Sampled
<1> QED BY <1>1, <1>2, <1>3, <1>4 DEF Distance

\* A failure is not mistaken for a distance.
LEMMA FailedIsNone ==
  Failed \notin Int /\ \A x \in Nat : x # Failed
BY ScanAssumption

(* Where the nearest sample was first seen.                                *)
Nearest(i, d) ==
  /\ i \in 1..Len(d) /\ \A j \in 1..Len(d) : d[i] <= d[j]
  /\ \A j \in 1..(i - 1) : d[i] < d[j]

\* There is a nearest sample, seen first.
LEMMA NearestIs ==
  ASSUME NEW d \in Seq(Nat), d # << >>
  PROVE  Nearest(NearestOf(d), d)
<1> DEFINE B == {d[i] : i \in 1..Len(d)}
<1>1. Len(d) \in Nat \ {0} /\ DOMAIN d = 1..Len(d) /\ \A i \in 1..Len(d) : d[i] \in Nat
  OBVIOUS
<1>2. B \in SUBSET Nat /\ B # {}
  BY <1>1
<1>3. PICK m \in B : \A k \in B : m <= k
  <2> HIDE DEF B
  <2> QED BY <1>2, LeastNatural
<1> DEFINE C == {i \in 1..Len(d) : d[i] = m}
<1>4. C \in SUBSET Nat /\ C # {}
  BY <1>3
<1>5. PICK i \in C : \A k \in C : i <= k
  <2> HIDE DEF C, B
  <2> QED BY <1>4, LeastNatural
<1>6. /\ i \in DOMAIN d /\ \A j \in DOMAIN d : d[i] <= d[j]
      /\ \A j \in 1..(i - 1) : d[i] < d[j]
  <2>1. i \in 1..Len(d) /\ d[i] = m
    BY <1>5
  <2>2. \A j \in 1..Len(d) : m <= d[j]
    BY <1>3
  <2>3. ASSUME NEW j \in 1..(i - 1) PROVE m < d[j]
    <3>1. j \in 1..Len(d) /\ ~(i <= j)
      BY <1>1, <2>1
    <3>2. j \notin C
      BY <1>5, <3>1
    <3>3. d[j] # m /\ d[j] \in Nat /\ m \in Nat
      BY <1>1, <1>2, <3>1, <3>2
    <3> HIDE DEF B, C
    <3> QED BY <2>2, <3>1, <3>3
  <2> HIDE DEF B, C
  <2> QED BY <1>1, <2>1, <2>2, <2>3
<1> HIDE DEF B, C
<1> DEFINE P(k) == /\ \A j \in DOMAIN d : d[k] <= d[j]
                   /\ \A j \in 1..(k - 1) : d[k] < d[j]
<1>7. \E k \in DOMAIN d : P(k)
  BY <1>6
<1>8. NearestOf(d) \in DOMAIN d /\ P(NearestOf(d))
  <2>1. NearestOf(d) = CHOOSE k \in DOMAIN d : P(k)
    BY DEF NearestOf
  <2> HIDE DEF P
  <2> QED BY <1>7, <2>1
<1> QED BY <1>1, <1>8 DEF Nearest

(* The least index of a set of indices, or the last index: FirstIndex.     *)
FirstOf(i, hits, n) ==
  \/ hits = {} /\ i = n
  \/ i \in hits /\ \A j \in hits : i <= j

\* FirstIndex finds the least index.
LEMMA LeastIs ==
  ASSUME NEW hits \in SUBSET Nat, NEW n
  PROVE  FirstOf(IF hits = {} THEN n ELSE CHOOSE i \in hits : \A j \in hits : i <= j,
                 hits, n)
<1>1. hits # {} => \E m \in hits : \A j \in hits : m <= j
  BY LeastNatural
<1> QED BY <1>1 DEF FirstOf

(* What the scan of a pair finds.                                          *)
FindingIs(f, d) ==
  \E stop \in 1..Len(d) :
    /\ \A i \in 2..(stop - 1) : d[i] # Failed /\ d[i] >= Critical
    /\ stop = Len(d) \/ d[stop] = Failed \/ d[stop] < Critical
    /\ f.failOpen <=> d[stop] = Failed
    /\ f.tca \in 1..Len(d)
    /\ f.failOpen => f.miss = 0
    /\ ~f.failOpen => /\ f.tca <= stop /\ f.miss = d[f.tca]
                      /\ \A k \in 1..stop : f.miss <= d[k]
                      /\ \A k \in 1..(f.tca - 1) : f.miss < d[k]

\* The 24-hour scan stops at the first sample that is critical or cannot be
\* reached.
LEMMA StopIs ==
  ASSUME NEW d, Sampled(d)
  PROVE  LET stop == ScanStop(d) IN
         /\ stop \in 1..Len(d)
         /\ \A i \in 2..(stop - 1) : d[i] # Failed /\ d[i] >= Critical
         /\ stop = Len(d) \/ d[stop] = Failed \/ d[stop] < Critical
         /\ d[stop] = Failed => stop > 1
<1> DEFINE hits == {i \in DOMAIN d : i > 1 /\ (d[i] = Failed \/ d[i] < Critical)}
           stop == ScanStop(d)
<1>1. /\ Len(d) \in Nat \ {0} /\ DOMAIN d = 1..Len(d)
      /\ d[1] \in Nat /\ \A i \in 1..Len(d) : d[i] \in Nat \/ d[i] = Failed
  BY SampledIs
<1>2. stop = IF hits = {} THEN Len(d) ELSE CHOOSE i \in hits : \A j \in hits : i <= j
  BY DEF ScanStop, FirstIndex
<1>3. FirstOf(stop, hits, Len(d))
  <2>1. hits \in SUBSET Nat
    BY <1>1
  <2> HIDE DEF hits, stop
  <2> QED BY <1>2, <2>1, LeastIs
<1> HIDE DEF stop
<1>4. stop \in 1..Len(d)
  BY <1>1, <1>3 DEF FirstOf
<1>5. ASSUME NEW i \in 2..(stop - 1) PROVE d[i] # Failed /\ d[i] >= Critical
  <2>1. i \in 1..Len(d) /\ i > 1 /\ ~(stop <= i)
    BY <1>1, <1>4
  <2>2. i \notin hits
    <3> HIDE DEF hits
    <3> QED BY <1>3, <2>1 DEF FirstOf
  <2>3. d[i] # Failed /\ ~(d[i] < Critical) /\ d[i] \in Nat
    BY <1>1, <2>1, <2>2
  <2> QED BY <2>3, ScanAssumption
<1>6. stop = Len(d) \/ d[stop] = Failed \/ d[stop] < Critical
  BY <1>3 DEF FirstOf
<1>7. d[stop] = Failed => stop > 1
  BY <1>1, <1>4, FailedIsNone
<1> QED BY <1>4, <1>5, <1>6, <1>7 DEF stop

\* Of the part that is scanned, the miss distance is the least of all
\* samples.
LEMMA ScanPairIs ==
  ASSUME NEW m, Sampled(m), \A i \in 1..(Len(m) - 1) : m[i] # Failed
  PROVE  LET n == Len(m)
             scan == ScanPair(m)
         IN  /\ scan.failOpen <=> m[n] = Failed
             /\ scan.at \in 1..n
             /\ m[n] # Failed =>
                  /\ scan.miss = m[scan.at]
                  /\ \A k \in 1..n : scan.miss <= m[k]
                  /\ \A k \in 1..(scan.at - 1) : scan.miss < m[k]
<1> DEFINE n == Len(m)
           hits == {i \in DOMAIN m : m[i] = Failed}
           stop == FirstIndex(m, LAMBDA i : m[i] = Failed)
           last == IF m[n] = Failed THEN n - 1 ELSE n
           seen == SubSeq(m, 1, last)
           scan == ScanPair(m)
<1>1. /\ n \in Nat \ {0} /\ DOMAIN m = 1..n
      /\ m[1] \in Nat /\ \A i \in 1..n : m[i] \in Nat \/ m[i] = Failed
      /\ m \in Seq(Distance)
  BY SampledIs DEF Sampled
<1>2. stop = IF hits = {} THEN n ELSE CHOOSE i \in hits : \A j \in hits : i <= j
  BY DEF FirstIndex
<1>3. stop = n
  <2>1. hits \in SUBSET Nat
    BY <1>1
  <2>2. FirstOf(stop, hits, n)
    <3> HIDE DEF hits, stop, n
    <3> QED BY <1>2, <2>1, LeastIs
  <2>3. \A i \in hits : i = n
    <3> TAKE i \in hits
    <3>1. i \in 1..n /\ m[i] = Failed
      BY <1>1
    <3>2. i \notin 1..(n - 1)
      BY <3>1
    <3> HIDE DEF n
    <3> QED BY <1>1, <3>1, <3>2
  <2> HIDE DEF hits, stop, n
  <2> QED BY <2>2, <2>3 DEF FirstOf
<1>4. /\ scan.failOpen <=> m[stop] = Failed
      /\ scan.at = NearestOf(SubSeq(m, 1, IF m[stop] = Failed THEN stop - 1 ELSE stop))
      /\ scan.miss = SubSeq(m, 1, IF m[stop] = Failed THEN stop - 1 ELSE stop)[scan.at]
  BY DEF ScanPair
<1> HIDE DEF stop, scan
<1>5. /\ scan.failOpen <=> m[n] = Failed
      /\ scan.at = NearestOf(seen) /\ scan.miss = seen[scan.at]
  <2> HIDE DEF n
  <2> QED BY <1>3, <1>4
<1>6. last \in 1..n /\ (m[n] # Failed => last = n)
  <2>1. m[n] = Failed => n # 1
    BY <1>1, FailedIsNone
  <2> HIDE DEF n
  <2> QED BY <1>1, <2>1
<1>7. \A i \in 1..last : m[i] \in Nat
  <2> TAKE i \in 1..last
  <2>1. i \in 1..n /\ (i = n => m[n] # Failed)
    <3> HIDE DEF n
    <3> QED BY <1>1, <1>6
  <2>2. i # n => i \in 1..(n - 1)
    <3> HIDE DEF n, last
    <3> QED BY <1>1, <2>1
  <2>3. m[i] # Failed
    BY <2>1, <2>2
  <2> QED BY <1>1, <2>1, <2>3
<1> HIDE DEF last, n
<1>8. /\ seen \in Seq(Nat) /\ Len(seen) = last /\ seen # << >>
      /\ \A i \in 1..last : seen[i] = m[i]
  <2>1. /\ seen \in Seq(Distance) /\ Len(seen) = last
        /\ \A i \in 1..last : seen[i] = m[i]
    <3> HIDE DEF seen
    <3> QED BY <1>6, SampledIs DEF n, seen
  <2> HIDE DEF seen
  <2>2. \A i \in 1..Len(seen) : seen[i] \in Nat
    BY <1>7, <2>1
  <2>3. seen \in Seq(Nat)
    BY <2>1, <2>2
  <2>4. seen # << >>
    BY <1>1, <1>6, <2>1
  <2> QED BY <2>1, <2>3, <2>4
<1>9. Nearest(scan.at, seen)
  <2> HIDE DEF seen
  <2> QED BY <1>5, <1>8, NearestIs
<1> HIDE DEF seen
<1>10. scan.at \in 1..n
  BY <1>1, <1>6, <1>8, <1>9 DEF Nearest
<1>11. ASSUME m[n] # Failed
       PROVE  /\ scan.miss = m[scan.at]
              /\ \A k \in 1..n : scan.miss <= m[k]
              /\ \A k \in 1..(scan.at - 1) : scan.miss < m[k]
  <2>1. last = n
    BY <1>6, <1>11
  <2>2. \A k \in 1..(scan.at - 1) : k \in 1..n
    BY <1>1, <1>10
  <2> QED BY <1>5, <1>8, <1>9, <1>10, <2>1, <2>2 DEF Nearest
<1> QED BY <1>5, <1>10, <1>11 DEF n, scan

\* What the record of a pair says, in terms of its distances.
LEMMA FindingIsFound ==
  ASSUME NEW pair, Sampled(pair.d)
  PROVE  LET f == Finding(pair) IN
         /\ FindingIs(f, pair.d)
         /\ f.sat = pair.sat /\ f.deb = pair.deb
         /\ f.collision <=> ~f.failOpen /\ f.miss < Critical
         /\ f.severity = IF f.failOpen THEN "CRITICAL" ELSE Classify(f.miss)
         /\ f.failOpen \in BOOLEAN /\ f.collision \in BOOLEAN
<1> DEFINE d == pair.d
           f == Finding(pair)
           stop == ScanStop(d)
           m == SubSeq(d, 1, stop)
           scan == ScanPair(m)
<1>1. /\ stop \in 1..Len(d)
      /\ \A i \in 2..(stop - 1) : d[i] # Failed /\ d[i] >= Critical
      /\ stop = Len(d) \/ d[stop] = Failed \/ d[stop] < Critical
      /\ d[stop] = Failed => stop > 1
  BY StopIs
<1>2. /\ Len(d) \in Nat \ {0} /\ d[1] \in Nat
      /\ \A i \in 1..Len(d) : d[i] \in Nat \/ d[i] = Failed
  BY SampledIs
<1>3. /\ f.failOpen = scan.failOpen /\ f.tca = scan.at
      /\ f.miss = IF scan.failOpen THEN 0 ELSE scan.miss
      /\ f.sat = pair.sat /\ f.deb = pair.deb
      /\ f.collision = (~scan.failOpen /\ scan.miss < Critical)
      /\ f.severity = IF scan.failOpen THEN "CRITICAL"
                      ELSE Classify(IF scan.failOpen THEN 0 ELSE scan.miss)
      /\ scan.failOpen \in BOOLEAN
  BY DEF Finding, ScanPair
<1> HIDE DEF d, stop, scan, f
<1>4. /\ m \in Seq(Distance) /\ Len(m) = stop /\ \A i \in 1..stop : m[i] = d[i]
  <2> HIDE DEF m
  <2> QED BY <1>1, SampledIs DEF m, d
<1> HIDE DEF m
<1>5. Sampled(m) /\ \A i \in 1..(Len(m) - 1) : m[i] # Failed
  <2>1. m # << >> /\ m[1] = d[1] /\ d[1] # Failed
    BY <1>1, <1>2, <1>4, FailedIsNone
  <2>2. ASSUME NEW i \in 1..(stop - 1) PROVE m[i] # Failed
    <3>1. i \in 1..stop /\ m[i] = d[i]
      BY <1>1, <1>2, <1>4
    <3>2. i = 1 \/ i \in 2..(stop - 1)
      BY <1>1, <1>2
    <3> QED BY <1>1, <2>1, <3>1, <3>2
  <2> QED BY <1>4, <2>1, <2>2 DEF Sampled
<1>6. /\ scan.failOpen <=> m[stop] = Failed
      /\ scan.at \in 1..stop
      /\ m[stop] # Failed =>
           /\ scan.miss = m[scan.at]
           /\ \A k \in 1..stop : scan.miss <= m[k]
           /\ \A k \in 1..(scan.at - 1) : scan.miss < m[k]
  BY <1>4, <1>5, ScanPairIs DEF scan
<1>7. m[stop] = d[stop] /\ stop \in Nat \ {0}
  BY <1>1, <1>2, <1>4
<1>8. FindingIs(f, d)
  <2>1. f.tca \in 1..Len(d)
    BY <1>1, <1>2, <1>3, <1>6
  <2>2. f.failOpen <=> d[stop] = Failed
    BY <1>3, <1>6, <1>7
  <2>3. f.failOpen => f.miss = 0
    BY <1>3
  <2>4. ASSUME ~f.failOpen
        PROVE  /\ f.tca <= stop /\ f.miss = d[f.tca]
               /\ \A k \in 1..stop : f.miss <= d[k]
               /\ \A k \in 1..(f.tca - 1) : f.miss < d[k]
    <3>1. ~scan.failOpen /\ f.miss = scan.miss /\ f.tca = scan.at
      BY <1>3, <2>4
    <3>2. scan.at \in 1..stop /\ \A k \in 1..(scan.at - 1) : k \in 1..stop
      BY <1>6, <1>7
    <3> QED BY <1>4, <1>6, <1>7, <3>1, <3>2
  <2> QED BY <1>1, <2>1, <2>2, <2>3, <2>4 DEF FindingIs
<1>9. /\ f.collision <=> ~f.failOpen /\ f.miss < Critical
      /\ f.severity = IF f.failOpen THEN "CRITICAL" ELSE Classify(f.miss)
      /\ f.failOpen \in BOOLEAN /\ f.collision \in BOOLEAN
  BY <1>3
<1> QED BY <1>3, <1>8, <1>9 DEF f, d

(* The finding says of the pair what the answer needs. *)
LEMMA FindingTells ==
  ASSUME NEW d, Sampled(d), NEW f, FindingIs(f, d),
         f.collision <=> ~f.failOpen /\ f.miss < Critical,
         f.severity = IF f.failOpen THEN "CRITICAL" ELSE Classify(f.miss)
  PROVE  /\ f.miss \in Nat /\ f.tca \in Nat
         /\ f.severity = "CRITICAL" <=> Dangerous(d)
         /\ Screened(f) <=> ComesWithin(d, Screening) \/ Dangerous(d)
         /\ ComesWithin(d, Critical) /\ Failed \notin ToSet(d) => f.collision
         /\ f.failOpen => f.miss = 0 /\ Failed \in ToSet(d)
         /\ ~f.failOpen => f.miss = d[f.tca] /\ \A k \in 1..(f.tca - 1) : f.miss < d[k]
         /\ ~f.failOpen /\ ~f.collision => \A k \in DOMAIN d : f.miss <= d[k]
<1>1. PICK stop \in 1..Len(d) :
    /\ \A i \in 2..(stop - 1) : d[i] # Failed /\ d[i] >= Critical
    /\ stop = Len(d) \/ d[stop] = Failed \/ d[stop] < Critical
    /\ f.failOpen <=> d[stop] = Failed
    /\ f.tca \in 1..Len(d)
    /\ f.failOpen => f.miss = 0
    /\ ~f.failOpen => /\ f.tca <= stop /\ f.miss = d[f.tca]
                      /\ \A k \in 1..stop : f.miss <= d[k]
                      /\ \A k \in 1..(f.tca - 1) : f.miss < d[k]
  BY DEF FindingIs
<1>2. /\ Len(d) \in Nat \ {0} /\ DOMAIN d = 1..Len(d)
      /\ d[1] \in Nat /\ \A i \in 1..Len(d) : d[i] \in Nat \/ d[i] = Failed
  BY SampledIs
<1>3. /\ Critical \in Nat /\ Warn \in Nat /\ Screening \in Nat
      /\ Critical < Warn /\ Warn < Screening
  BY ScanAssumption
<1>4. stop \in Nat /\ \A k \in 1..stop : k \in 1..Len(d)
  BY <1>2
<1>14. /\ f.tca \in 1..Len(d) /\ (~f.failOpen => f.tca <= stop)
       /\ (f.failOpen <=> d[stop] = Failed)
       /\ (stop = Len(d) \/ d[stop] = Failed \/ d[stop] < Critical)
  BY <1>1
<1>15. Len(d) \in Nat /\ stop \in Nat /\ stop <= Len(d) /\ 1 <= stop
  <2>1. Len(d) \in Nat
    BY <1>2
  <2> QED BY <2>1
<1>5. ~f.failOpen => f.tca \in 1..stop
  BY <1>14, <1>15
<1>6. f.miss \in Nat /\ f.tca \in Nat
  <2>1. f.tca \in Nat
    BY <1>14, <1>15
  <2>2. ~f.failOpen => d[f.tca] # Failed
    <3> SUFFICES ASSUME ~f.failOpen, d[f.tca] = Failed PROVE FALSE
      OBVIOUS
    <3>1. f.tca # stop /\ f.tca \in 1..stop
      BY <1>1, <1>5
    <3>2. f.tca = 1 \/ f.tca \in 2..(stop - 1)
      BY <1>4, <3>1
    <3> QED BY <1>1, <1>2, <3>2, FailedIsNone
  <2>3. ~f.failOpen => f.miss \in Nat
    BY <1>1, <1>2, <2>2
  <2> QED BY <1>1, <2>1, <2>3
<1>7. f.severity = "CRITICAL" <=> f.failOpen \/ f.miss <= Critical
  BY <1>3, <1>6 DEF Classify
\* Every sample is seen, or the scan has stopped at a danger.
<1>8. ASSUME ~f.failOpen, ~(f.miss < Critical)
      PROVE  stop = Len(d) /\ \A i \in 1..Len(d) : d[i] \in Nat /\ f.miss <= d[i]
  <2>1. stop = Len(d)
    <3> SUFFICES ASSUME stop # Len(d) PROVE FALSE
      OBVIOUS
    <3>1. d[stop] < Critical
      BY <1>8, <1>14
    <3>2. f.miss <= d[stop]
      BY <1>1, <1>8, <1>15
    <3>3. d[stop] \in Nat
      BY <1>2, <1>8, <1>14
    <3> QED BY <1>3, <1>6, <1>8, <3>1, <3>2, <3>3
  <2>2. \A i \in 1..Len(d) : d[i] # Failed
    <3> TAKE i \in 1..Len(d)
    <3>1. i = 1 \/ i \in 2..(stop - 1) \/ i = stop
      BY <1>15, <2>1
    <3> QED BY <1>1, <1>2, <1>8, <3>1, FailedIsNone
  <2> QED BY <1>1, <1>2, <1>8, <2>1, <2>2
<1>9. f.severity = "CRITICAL" <=> Dangerous(d)
  <2>1. ASSUME f.failOpen \/ f.miss <= Critical PROVE Dangerous(d)
    <3>1. CASE f.failOpen
      BY <1>1, <1>2, <3>1 DEF Dangerous
    <3>2. CASE ~f.failOpen
      BY <1>1, <1>2, <2>1, <3>2 DEF Dangerous
    <3> QED BY <3>1, <3>2
  <2>2. ASSUME ~f.failOpen, ~(f.miss <= Critical) PROVE ~Dangerous(d)
    <3>1. ~(f.miss < Critical)
      BY <1>3, <1>6, <2>2
    <3>2. \A i \in 1..Len(d) : d[i] \in Nat /\ f.miss <= d[i]
      BY <1>8, <2>2, <3>1
    <3>3. \A i \in 1..Len(d) : d[i] # Failed /\ ~(d[i] <= Critical)
      BY <1>3, <1>6, <2>2, <3>2, FailedIsNone
    <3> QED BY <1>2, <3>3 DEF Dangerous
  <2> QED BY <1>7, <2>1, <2>2
<1>10. \A limit \in Nat : ComesWithin(d, limit) <=>
         \E i \in 1..Len(d) : d[i] # Failed /\ d[i] < limit
  BY <1>2 DEF ComesWithin, Distances
<1>11. Screened(f) <=> ComesWithin(d, Screening) \/ Dangerous(d)
  <2>1. ASSUME Screened(f) PROVE ComesWithin(d, Screening) \/ Dangerous(d)
    <3>1. CASE f.failOpen
      BY <1>7, <1>9, <3>1
    <3>2. CASE ~f.failOpen
      <4>1. f.miss < Screening /\ d[f.tca] = f.miss /\ f.tca \in 1..Len(d)
        BY <1>1, <2>1, <3>2 DEF Screened
      <4> QED BY <1>3, <1>6, <1>10, <4>1, FailedIsNone
    <3> QED BY <3>1, <3>2
  <2>2. ASSUME Dangerous(d) PROVE Screened(f)
    BY <1>3, <1>6, <1>7, <1>9, <2>2 DEF Screened
  <2>3. ASSUME ComesWithin(d, Screening), ~f.failOpen, ~(f.miss < Screening) PROVE FALSE
    <3>1. PICK i \in 1..Len(d) : d[i] # Failed /\ d[i] < Screening
      BY <1>3, <1>10, <2>3
    <3>2. ~(f.miss < Critical)
      BY <1>3, <1>6, <2>3
    <3>3. d[i] \in Nat /\ f.miss <= d[i]
      BY <1>8, <2>3, <3>2
    <3> QED BY <1>3, <1>6, <2>3, <3>1, <3>3
  <2> QED BY <2>1, <2>2, <2>3 DEF Screened
<1>12. ASSUME ComesWithin(d, Critical), Failed \notin ToSet(d) PROVE f.collision
  <2>1. \A i \in 1..Len(d) : d[i] # Failed
    BY <1>2, <1>12 DEF ToSet
  <2>2. ~f.failOpen
    BY <1>1, <2>1
  <2>3. f.miss < Critical
    <3> SUFFICES ASSUME ~(f.miss < Critical) PROVE FALSE
      OBVIOUS
    <3>1. PICK i \in 1..Len(d) : d[i] # Failed /\ d[i] < Critical
      BY <1>3, <1>10, <1>12
    <3>2. d[i] \in Nat /\ f.miss <= d[i]
      BY <1>8, <2>2
    <3> QED BY <1>3, <1>6, <3>1, <3>2
  <2> QED BY <2>2, <2>3
<1>13. f.failOpen => f.miss = 0 /\ Failed \in ToSet(d)
  BY <1>1, <1>2 DEF ToSet
<1>16. ~f.failOpen /\ ~f.collision => \A k \in DOMAIN d : f.miss <= d[k]
  BY <1>2, <1>8
<1> QED BY <1>1, <1>6, <1>9, <1>11, <1>12, <1>13, <1>16

-----------------------------------------------------------------------------
(* The predictive scan: the order of the records, and the list they are    *)
(* kept in.                                                                *)

(* ConjunctionLess is a strict total order of records of different pairs.  *)
Record(r) ==
  /\ r.collision \in BOOLEAN /\ r.failOpen \in BOOLEAN
  /\ r.miss \in Int /\ r.tca \in Int /\ r.sat \in Int /\ r.deb \in Int

\* ConjunctionLess does not order a record before itself.
LEMMA LessIrreflexive ==
  ASSUME NEW a, Record(a)
  PROVE  ~ConjunctionLess(a, a)
BY DEF Record, ConjunctionLess

\* ConjunctionLess is transitive.
LEMMA LessTransitive ==
  ASSUME NEW a, NEW b, NEW c, Record(a), Record(b), Record(c),
         ConjunctionLess(a, b), ConjunctionLess(b, c)
  PROVE  ConjunctionLess(a, c)
BY DEF Record, ConjunctionLess

\* ConjunctionLess orders the records of any two different pairs.
LEMMA LessTotal ==
  ASSUME NEW a, NEW b, Record(a), Record(b), a.sat # b.sat \/ a.deb # b.deb
  PROVE  ConjunctionLess(a, b) \/ ConjunctionLess(b, a)
BY DEF Record, ConjunctionLess

Sorted(s) ==
  \A i, j \in 1..Len(s) : i < j => ConjunctionLess(s[i], s[j])

(* Sorting a sorted list with one record more: it can be inserted.         *)
LEMMA Insertion ==
  ASSUME NEW V, NEW s \in Seq(V), NEW x \in V, \A r \in V : Record(r), Sorted(s),
         \A i \in 1..Len(s) : ConjunctionLess(x, s[i]) \/ ConjunctionLess(s[i], x)
  PROVE  \E t \in Seq(V) : /\ Len(t) = Len(s) + 1
                           /\ ToSet(t) = ToSet(s) \cup {x}
                           /\ Sorted(t)
<1> DEFINE n == Len(s)
           after == {i \in 1..n : ConjunctionLess(x, s[i])} \cup {n + 1}
<1>1. n \in Nat /\ DOMAIN s = 1..n /\ \A i \in 1..n : s[i] \in V
  OBVIOUS
<1>2. after \in SUBSET Nat /\ after # {}
  BY <1>1
<1>3. PICK p \in after : \A i \in after : p <= i
  <2> HIDE DEF after
  <2> QED BY <1>2, LeastNatural
<1>4. /\ p \in 1..(n + 1)
      /\ \A i \in 1..n : i < p => ConjunctionLess(s[i], x)
      /\ p <= n => ConjunctionLess(x, s[p])
  <2>1. p \in 1..(n + 1) /\ (p <= n => ConjunctionLess(x, s[p]))
    BY <1>1, <1>3
  <2>2. ASSUME NEW i \in 1..n, i < p PROVE ConjunctionLess(s[i], x)
    <3>1. i \notin after
      <4> HIDE DEF after
      <4> QED BY <1>1, <1>2, <1>3, <2>2
    <3> QED BY <3>1
  <2> QED BY <2>1, <2>2
<1> HIDE DEF after, n
<1> DEFINE t == [i \in 1..(n + 1) |-> IF i < p THEN s[i] ELSE IF i = p THEN x ELSE s[i - 1]]
<1>5. \A i \in 1..(n + 1) :
        /\ i < p => t[i] = s[i] /\ i \in 1..n
        /\ i = p => t[i] = x
        /\ i > p => t[i] = s[i - 1] /\ i - 1 \in 1..n
  BY <1>1, <1>4
<1>6. t \in Seq(V) /\ Len(t) = n + 1
  <2>1. t \in [1..(n + 1) -> V]
    <3>1. \A i \in 1..(n + 1) : t[i] \in V
      <4> HIDE DEF t
      <4> QED BY <1>1, <1>4, <1>5
    <3>2. t = [i \in 1..(n + 1) |-> t[i]]
      OBVIOUS
    <3> HIDE DEF t
    <3> QED BY <3>1, <3>2
  <2>2. \A m \in Nat : \A f : f \in [1..m -> V] => f \in Seq(V) /\ Len(f) = m
    OBVIOUS
  <2> HIDE DEF t
  <2> QED BY <1>1, <2>1, <2>2
<1> HIDE DEF t
<1>7. ToSet(t) = ToSet(s) \cup {x}
  <2>1. \A y \in ToSet(t) : y \in ToSet(s) \cup {x}
    <3> TAKE y \in ToSet(t)
    <3>1. PICK i \in 1..(n + 1) : t[i] = y
      BY <1>6, ElementsOf
    <3>2. i < p \/ i = p \/ i > p
      BY <1>1, <1>4
    <3>3. \A k \in 1..n : s[k] \in ToSet(s)
      BY ElementsOf DEF n
    <3> QED BY <1>5, <3>1, <3>2, <3>3
  <2>2. x \in ToSet(t)
    BY <1>4, <1>5, <1>6, ElementsOf
  <2>3. \A y \in ToSet(s) : y \in ToSet(t)
    <3> TAKE y \in ToSet(s)
    <3>1. PICK i \in 1..n : s[i] = y
      BY ElementsOf DEF n
    <3>2. CASE i < p
      BY <1>1, <1>5, <1>6, <3>1, <3>2, ElementsOf
    <3>3. CASE i >= p
      <4>1. i + 1 \in 1..(n + 1) /\ i + 1 > p /\ (i + 1) - 1 = i
        BY <1>1, <1>4, <3>3
      <4>2. t[i + 1] = y
        BY <1>5, <3>1, <4>1
      <4> QED BY <1>6, <4>1, <4>2, ElementsOf
    <3> QED BY <1>1, <1>4, <3>2, <3>3
  <2> QED BY <2>1, <2>2, <2>3
<1>8. Sorted(t)
  <2>1. ASSUME NEW i \in 1..(n + 1), NEW j \in 1..(n + 1), i < j
        PROVE  ConjunctionLess(t[i], t[j])
    <3>1. CASE j < p
      BY <1>4, <1>5, <2>1, <3>1 DEF Sorted, n
    <3>2. CASE j = p
      <4>1. i < p
        BY <2>1, <3>2
      <4> QED BY <1>4, <1>5, <2>1, <3>2, <4>1
    <3>3. CASE j > p
      <4>1. t[j] = s[j - 1] /\ j - 1 \in 1..n /\ p <= j - 1 /\ p <= n
        BY <1>1, <1>4, <1>5, <3>3
      <4>2. ConjunctionLess(x, t[j])
        <5>1. CASE j - 1 = p
          BY <1>4, <4>1, <5>1
        <5>2. CASE j - 1 # p
          <6>1. p \in 1..n /\ p < j - 1
            BY <1>1, <1>4, <4>1, <5>2
          <6>2. ConjunctionLess(s[p], s[j - 1])
            BY <4>1, <6>1 DEF Sorted, n
          <6>3. s[p] \in V /\ s[j - 1] \in V
            BY <1>1, <4>1, <6>1
          <6> QED BY <1>4, <4>1, <6>2, <6>3, LessTransitive
        <5> QED BY <5>1, <5>2
      <4>3. CASE i < p
        <5>1. t[i] = s[i] /\ i \in 1..n /\ ConjunctionLess(s[i], x)
          BY <1>4, <1>5, <4>3
        <5>2. s[i] \in V /\ t[j] \in V
          BY <1>1, <4>1, <5>1
        <5> QED BY <4>2, <5>1, <5>2, LessTransitive
      <4>4. CASE i = p
        BY <1>5, <4>2, <4>4
      <4>5. CASE i > p
        <5>1. t[i] = s[i - 1] /\ i - 1 \in 1..n /\ i - 1 < j - 1
          BY <1>4, <1>5, <2>1, <4>5
        <5> QED BY <4>1, <5>1 DEF Sorted, n
      <4> QED BY <1>4, <4>3, <4>4, <4>5
    <3> QED BY <1>4, <3>1, <3>2, <3>3
  <2> QED BY <1>6, <2>1 DEF Sorted
<1> QED BY <1>6, <1>7, <1>8 DEF n

(* What sorting a list gives if it can be sorted.                          *)
LEMMA SortedRecordsAre ==
  ASSUME NEW V, NEW s \in Seq(V), NEW t \in Seq(V), Len(t) = Len(s),
         ToSet(t) = ToSet(s), Sorted(t)
  PROVE  /\ SortedRecords(s) \in Seq(V) /\ Len(SortedRecords(s)) = Len(s)
         /\ ToSet(SortedRecords(s)) = ToSet(s)
         /\ Sorted(SortedRecords(s))
<1> DEFINE P(u) == /\ ToSet(u) = ToSet(s)
                   /\ \A i, j \in DOMAIN u : i < j => ConjunctionLess(u[i], u[j])
           T == [DOMAIN s -> ToSet(s)]
           r == SortedRecords(s)
<1>1. Len(s) \in Nat /\ DOMAIN s = 1..Len(s) /\ DOMAIN t = 1..Len(s)
  OBVIOUS
<1>2. t \in T
  <2>1. \A i \in 1..Len(s) : t[i] \in ToSet(s)
    BY ElementsOf
  <2>2. t = [i \in 1..Len(s) |-> t[i]]
    BY <1>1
  <2> QED BY <1>1, <2>1, <2>2
<1>3. P(t)
  BY <1>1 DEF Sorted
<1>4. r = CHOOSE u \in T : P(u)
  BY DEF SortedRecords
<1>5. r \in T /\ P(r)
  <2> HIDE DEF T, P, r
  <2> QED BY <1>2, <1>3, <1>4
<1> HIDE DEF r
<1>6. r \in Seq(V) /\ Len(r) = Len(s) /\ DOMAIN r = 1..Len(s)
  <2>1. r \in [1..Len(s) -> V]
    <3>1. ToSet(s) \subseteq V
      BY ElementsOf
    <3> QED BY <1>1, <1>5, <3>1
  <2>2. \A m \in Nat : \A f : f \in [1..m -> V] => f \in Seq(V) /\ Len(f) = m /\ DOMAIN f = 1..m
    OBVIOUS
  <2> QED BY <1>1, <2>1, <2>2
<1>7. Sorted(r)
  BY <1>5, <1>6 DEF Sorted
<1> QED BY <1>5, <1>6, <1>7 DEF r

\* A record is listed, or as many better ones are.
Retained(x, records) ==
  \/ x \in ToSet(records)
  \/ Len(records) = KPredictive /\ \A r \in ToSet(records) : ConjunctionLess(r, x)

\* append_conjunction_record_limited keeps the list sorted and short, and
\* loses a record only to as many better ones.
LEMMA AppendLimitedIs ==
  ASSUME NEW V, NEW records \in Seq(V), NEW record \in V, \A r \in V : Record(r),
         Sorted(records), Len(records) <= KPredictive,
         \A r \in ToSet(records) : ConjunctionLess(record, r) \/ ConjunctionLess(r, record)
  PROVE  LET out == AppendLimited(records, record) IN
         /\ out \in Seq(V) /\ Len(out) <= KPredictive /\ Sorted(out)
         /\ ToSet(out) \subseteq ToSet(records) \cup {record}
         /\ Retained(record, out)
         /\ \A x \in V : Retained(x, records) => Retained(x, out)
<1> DEFINE n == Len(records)
           all == SortedRecords(Append(records, record))
           out == AppendLimited(records, record)
           K == KPredictive
<1>1. K \in Nat \ {0} /\ n \in Nat /\ n <= K
  BY ScanAssumption
<1>2. \A i \in 1..n : records[i] \in V /\ records[i] \in ToSet(records)
  BY ElementsOf
<1>3. PICK t \in Seq(V) : /\ Len(t) = n + 1 /\ Sorted(t)
                          /\ ToSet(t) = ToSet(records) \cup {record}
  BY <1>2, Insertion
<1>4. /\ Append(records, record) \in Seq(V) /\ Len(Append(records, record)) = n + 1
      /\ ToSet(Append(records, record)) = ToSet(records) \cup {record}
  BY AppendElements
<1>5. /\ all \in Seq(V) /\ Len(all) = n + 1 /\ Sorted(all)
      /\ ToSet(all) = ToSet(records) \cup {record}
  <2> DEFINE s == Append(records, record)
  <2> HIDE DEF s
  <2>1. s \in Seq(V) /\ Len(s) = Len(t) /\ ToSet(s) = ToSet(t) /\ Len(s) = n + 1
        /\ ToSet(s) = ToSet(records) \cup {record}
    BY <1>3, <1>4 DEF s
  <2> HIDE DEF n
  <2> QED BY <1>3, <2>1, SortedRecordsAre DEF s
<1>6. out = IF Len(all) <= K THEN all ELSE SubSeq(all, 1, K)
  BY DEF AppendLimited
<1> HIDE DEF all, out, n, K
<1>7. \A i \in 1..(n + 1) : all[i] \in V /\ all[i] \in ToSet(all)
  BY <1>5, ElementsOf
<1>8. \A x \in ToSet(all) : \E i \in 1..(n + 1) : all[i] = x
  BY <1>5, ElementsOf
<1>9. CASE n + 1 <= K
  <2>1. out = all
    BY <1>5, <1>6, <1>9
  <2>2. \A x : Retained(x, records) => Retained(x, out)
    BY <1>1, <1>5, <1>9, <2>1 DEF Retained, n, K
  <2>3. Retained(record, out)
    BY <1>5, <2>1 DEF Retained
  <2> QED BY <1>5, <1>9, <2>1, <2>2, <2>3 DEF out, K
<1>10. CASE ~(n + 1 <= K)
  <2>1. n = K /\ K \in Nat /\ K + 1 \in 1..(n + 1) /\ \A i \in 1..K : i \in 1..(n + 1)
    BY <1>1, <1>10
  <2>2. out = SubSeq(all, 1, K)
    BY <1>5, <1>6, <1>10
  <2>3. out \in Seq(V) /\ Len(out) = K /\ \A i \in 1..K : out[i] = all[i]
    BY <1>5, <2>1, <2>2
  <2>4. Sorted(out)
    BY <1>5, <2>1, <2>3 DEF Sorted
  <2>5. \A x \in ToSet(out) : \E i \in 1..K : all[i] = x
    <3>1. \A x \in ToSet(out) : \E i \in 1..Len(out) : out[i] = x
      BY <2>3, ElementsOf
    <3> QED BY <2>3, <3>1
  <2>6. \A i \in 1..K : all[i] \in ToSet(out)
    <3>1. \A i \in 1..Len(out) : out[i] \in ToSet(out)
      BY <2>3, ElementsOf
    <3> QED BY <2>3, <3>1
  <2>7. ToSet(out) \subseteq ToSet(all)
    BY <1>7, <2>1, <2>5
  <2> DEFINE lost == all[K + 1]
  <2>8. \A r \in ToSet(out) : ConjunctionLess(r, lost)
    <3> TAKE r \in ToSet(out)
    <3>1. PICK i \in 1..K : all[i] = r
      BY <2>5
    <3>2. i < K + 1 /\ i \in 1..Len(all) /\ K + 1 \in 1..Len(all)
      BY <1>5, <2>1
    <3> QED BY <1>5, <3>1, <3>2 DEF Sorted
  <2>9. lost \in V /\ lost \in ToSet(records) \cup {record}
    BY <1>5, <1>7, <2>1
  <2>10. \A x \in ToSet(all) : x \in ToSet(out) \/ x = lost
    <3> TAKE x \in ToSet(all)
    <3>1. PICK i \in 1..(n + 1) : all[i] = x
      BY <1>8
    <3>2. i \in 1..K \/ i = K + 1
      BY <2>1
    <3> QED BY <2>6, <3>1, <3>2
  <2> HIDE DEF lost
  <2>11. \A x \in ToSet(all) : Retained(x, out)
    BY <2>3, <2>8, <2>10 DEF Retained, K
  <2>12. ASSUME NEW x \in V, Len(records) = KPredictive,
                \A r \in ToSet(records) : ConjunctionLess(r, x)
         PROVE  Retained(x, out)
    <3>1. ASSUME NEW r \in ToSet(out) PROVE ConjunctionLess(r, x)
      <4>1. r \in V
        BY <1>7, <2>1, <2>5, <3>1
      <4>2. CASE lost \in ToSet(records)
        BY <2>8, <2>9, <2>12, <4>1, <4>2, LessTransitive
      <4>3. CASE lost = record
        <5>1. r # record
          BY <2>8, <2>9, <4>1, <4>3, LessIrreflexive
        <5>2. r \in ToSet(records)
          BY <1>5, <2>7, <5>1
        <5> QED BY <2>12, <5>2
      <4> QED BY <2>9, <4>2, <4>3
    <3> QED BY <2>3, <3>1 DEF Retained, K
  <2>13. \A x \in V : Retained(x, records) => Retained(x, out)
    BY <1>5, <2>11, <2>12 DEF Retained
  <2> QED BY <1>5, <2>1, <2>3, <2>4, <2>7, <2>11, <2>13 DEF out, K
<1> QED BY <1>9, <1>10

-----------------------------------------------------------------------------
(* The scan of a list of pairs, as a fold.                                 *)
Nothing == [warnings |-> 0, records |-> << >>]

Scanned(out, pair) ==
  LET f == Finding(pair) IN
    IF ~Screened(f) THEN out
    ELSE [warnings |-> out.warnings + (IF f.severity = "CRITICAL" THEN 1 ELSE 0),
          records |-> AppendLimited(out.records, f)]

Scanning(h, pairs) ==
  h = [s \in SUBSET (DOMAIN pairs) |->
         IF s = {} THEN Nothing ELSE Scanned(h[s \ {Max(s)}], pairs[Max(s)])]

\* What CdmScan evaluates to solves its recursion.
LEMMA ScanningTable ==
  ASSUME NEW pairs, \E g : Scanning(g, pairs)
  PROVE  \E h : CdmScan(pairs) = h[DOMAIN pairs] /\ Scanning(h, pairs)
BY DEF CdmScan, FoldLeft, MapThenFoldSet, Scanning, Scanned, Nothing

-----------------------------------------------------------------------------
(* The predictive scan: all the pairs.                                     *)

(* The candidates of a broad phase. *)
PairsKnown(pairs) ==
  /\ pairs \in Seq([sat : Int, deb : Int, d : Seq(Distance)])
  /\ \A i \in DOMAIN pairs : pairs[i].d # << >> /\ pairs[i].d[1] # Failed
  /\ \A i, j \in DOMAIN pairs :
       pairs[i].sat = pairs[j].sat /\ pairs[i].deb = pairs[j].deb => i = j

Findings(pairs) == {Finding(pairs[i]) : i \in 1..Len(pairs)}

(* What the answer needs to know of a candidate and of its finding. *)
Tells(f, p) ==
  LET d == p.d IN
  /\ Record(f) /\ f.sat = p.sat /\ f.deb = p.deb
  /\ f.severity = "CRITICAL" <=> Dangerous(d)
  /\ f.severity = "CRITICAL" <=> f.failOpen \/ f.miss <= Critical
  /\ f.collision <=> ~f.failOpen /\ f.miss < Critical
  /\ Screened(f) <=> ComesWithin(d, Screening) \/ Dangerous(d)
  /\ ComesWithin(d, Critical) /\ Failed \notin ToSet(d) => f.collision
  /\ f.failOpen => f.miss = 0 /\ Failed \in ToSet(d)
  /\ ~f.failOpen => f.miss = d[f.tca] /\ \A k \in 1..(f.tca - 1) : f.miss < d[k]
  /\ ~f.failOpen /\ ~f.collision => \A k \in DOMAIN d : f.miss <= d[k]
  /\ f.severity = IF f.failOpen THEN "CRITICAL" ELSE Classify(f.miss)

\* The finding of a candidate tells what the answer needs.
LEMMA PairTells ==
  ASSUME NEW p \in [sat : Int, deb : Int, d : Seq(Distance)], p.d # << >>,
         p.d[1] # Failed
  PROVE  Tells(Finding(p), p)
<1> DEFINE f == Finding(p)
           d == p.d
<1>1. Sampled(p.d) /\ p.sat \in Int /\ p.deb \in Int
  BY DEF Sampled
<1>2. /\ FindingIs(f, d)
      /\ f.sat = p.sat /\ f.deb = p.deb
      /\ f.collision <=> ~f.failOpen /\ f.miss < Critical
      /\ f.severity = IF f.failOpen THEN "CRITICAL" ELSE Classify(f.miss)
      /\ f.failOpen \in BOOLEAN /\ f.collision \in BOOLEAN
  BY <1>1, FindingIsFound
<1> HIDE DEF f, d
<1>3. /\ f.miss \in Nat /\ f.tca \in Nat
      /\ f.severity = "CRITICAL" <=> Dangerous(d)
      /\ Screened(f) <=> ComesWithin(d, Screening) \/ Dangerous(d)
      /\ ComesWithin(d, Critical) /\ Failed \notin ToSet(d) => f.collision
      /\ f.failOpen => f.miss = 0 /\ Failed \in ToSet(d)
      /\ ~f.failOpen => f.miss = d[f.tca] /\ \A k \in 1..(f.tca - 1) : f.miss < d[k]
      /\ ~f.failOpen /\ ~f.collision => \A k \in DOMAIN d : f.miss <= d[k]
  BY <1>1, <1>2, FindingTells DEF d
<1>4. f.severity = "CRITICAL" <=> f.failOpen \/ f.miss <= Critical
  BY <1>2 DEF Classify
<1>5. Record(f)
  BY <1>1, <1>2, <1>3 DEF Record
<1> QED BY <1>2, <1>3, <1>4, <1>5 DEF Tells, f, d

\* So it is for all candidates, and no two of them are the same pair.
LEMMA PairsTell ==
  ASSUME NEW pairs, PairsKnown(pairs)
  PROVE  /\ Len(pairs) \in Nat /\ DOMAIN pairs = 1..Len(pairs)
         /\ \A i \in 1..Len(pairs) : Tells(Finding(pairs[i]), pairs[i])
         /\ \A i, j \in 1..Len(pairs) : i # j =>
              pairs[i].sat # pairs[j].sat \/ pairs[i].deb # pairs[j].deb
         /\ \A r \in Findings(pairs) : Record(r)
<1> DEFINE P == [sat : Int, deb : Int, d : Seq(Distance)]
<1>1. Len(pairs) \in Nat /\ DOMAIN pairs = 1..Len(pairs)
  BY DEF PairsKnown
<1>5. \A i \in 1..Len(pairs) : pairs[i] \in P
  <2>1. pairs \in Seq(P)
    BY DEF PairsKnown
  <2> HIDE DEF P
  <2> QED BY <2>1
<1>2. ASSUME NEW i \in 1..Len(pairs) PROVE Tells(Finding(pairs[i]), pairs[i])
  <2>1. pairs[i] \in [sat : Int, deb : Int, d : Seq(Distance)]
    BY <1>5
  <2>2. pairs[i].d # << >> /\ pairs[i].d[1] # Failed
    BY <1>1 DEF PairsKnown
  <2> QED BY <2>1, <2>2, PairTells
<1>3. \A i, j \in 1..Len(pairs) : i # j =>
        pairs[i].sat # pairs[j].sat \/ pairs[i].deb # pairs[j].deb
  BY <1>1 DEF PairsKnown
<1>4. \A r \in Findings(pairs) : Record(r)
  BY <1>2 DEF Findings, Tells
<1> QED BY <1>1, <1>2, <1>3, <1>4

(* What the scan of the first k candidates, or of some of them, answers. *)
Partials(pairs) == [warnings : Nat, records : Seq(Findings(pairs))]

Fits(v, k, pairs) ==
  /\ v \in Partials(pairs)
  /\ Sorted(v.records) /\ Len(v.records) <= KPredictive
  /\ \A r \in ToSet(v.records) :
       \E i \in 1..k : r = Finding(pairs[i]) /\ Screened(r)

\* The scan starts with nothing counted and nothing listed.
LEMMA NothingFits ==
  ASSUME NEW pairs, NEW k
  PROVE  Fits(Nothing, k, pairs)
<1>1. Nothing.records = << >> /\ Nothing \in Partials(pairs)
  BY DEF Nothing, Partials
<1>2. Len(<< >>) = 0 /\ ToSet(<< >>) = {} /\ KPredictive \in Nat
  BY ScanAssumption DEF ToSet
<1> QED BY <1>1, <1>2, ScanAssumption DEF Fits, Sorted

\* One candidate more keeps the list in order, is counted if dangerous, and
\* is listed unless it is outdone.
LEMMA ScannedFits ==
  ASSUME NEW pairs, PairsKnown(pairs), NEW k \in 1..Len(pairs), NEW v,
         Fits(v, k - 1, pairs)
  PROVE  LET w == Scanned(v, pairs[k])
             f == Finding(pairs[k])
         IN  /\ Fits(w, k, pairs)
             /\ w.warnings = v.warnings + IF Dangerous(pairs[k].d) THEN 1 ELSE 0
             /\ Screened(f) => Retained(f, w.records)
             /\ \A x \in Findings(pairs) : Retained(x, v.records) => Retained(x, w.records)
<1> DEFINE n == Len(pairs)
           R == Findings(pairs)
           f == Finding(pairs[k])
           w == Scanned(v, pairs[k])
           old == v.records
           out == AppendLimited(old, f)
<1>1. /\ n \in Nat /\ Tells(f, pairs[k]) /\ f \in R
      /\ \A r \in R : Record(r)
      /\ k \in Nat /\ \A i \in 1..(k - 1) : i \in 1..n /\ i # k /\ i \in 1..k
  <2>1. n \in Nat /\ Tells(f, pairs[k]) /\ \A r \in R : Record(r)
    BY PairsTell
  <2>2. f \in R
    BY DEF Findings
  <2> HIDE DEF n, f, R
  <2>3. k \in 1..n
    BY DEF n
  <2> QED BY <2>1, <2>2, <2>3
<1>2. /\ v \in Partials(pairs) /\ Sorted(old) /\ Len(old) <= KPredictive
      /\ \A r \in ToSet(old) : \E i \in 1..(k - 1) : r = Finding(pairs[i]) /\ Screened(r)
      /\ old \in Seq(R) /\ v.warnings \in Nat
  BY DEF Fits, Partials
<1>3. /\ ~Screened(f) => w = v
      /\ Screened(f) => /\ w = [warnings |-> v.warnings + (IF f.severity = "CRITICAL" THEN 1 ELSE 0),
                                records |-> out]
                        /\ w.warnings = v.warnings + (IF f.severity = "CRITICAL" THEN 1 ELSE 0)
                        /\ w.records = out
  BY DEF Scanned
<1>4. \A r \in ToSet(old) : ConjunctionLess(f, r) \/ ConjunctionLess(r, f)
  <2> TAKE r \in ToSet(old)
  <2>1. PICK i \in 1..(k - 1) : r = Finding(pairs[i])
    BY <1>2
  <2>2. i \in 1..n /\ k \in 1..n /\ i # k
    BY <1>1
  <2>3. pairs[i].sat # pairs[k].sat \/ pairs[i].deb # pairs[k].deb
    BY <2>2, PairsTell
  <2>4. Tells(r, pairs[i]) /\ Tells(f, pairs[k])
    BY <1>1, <2>1, <2>2, PairsTell
  <2>5. f.sat # r.sat \/ f.deb # r.deb
    <3> HIDE DEF f
    <3> QED BY <2>3, <2>4 DEF Tells
  <2>6. Record(r) /\ Record(f)
    BY <2>4 DEF Tells
  <2> HIDE DEF f
  <2> QED BY <2>5, <2>6, LessTotal
<1> HIDE DEF w, f, n, R
<1>5. /\ out \in Seq(R) /\ Len(out) <= KPredictive /\ Sorted(out)
      /\ ToSet(out) \subseteq ToSet(old) \cup {f}
      /\ Retained(f, out)
      /\ \A x \in R : Retained(x, old) => Retained(x, out)
  <2> HIDE DEF old
  <2> QED BY <1>1, <1>2, <1>4, AppendLimitedIs
<1> HIDE DEF out, old
<1>6. CASE Screened(f)
  <2>1. w \in Partials(pairs)
    BY <1>2, <1>3, <1>5, <1>6 DEF Partials, R
  <2>2. \A r \in ToSet(w.records) : \E i \in 1..k : r = Finding(pairs[i]) /\ Screened(r)
    <3> TAKE r \in ToSet(w.records)
    <3>1. r \in ToSet(old) \/ r = f
      BY <1>3, <1>5, <1>6
    <3>2. CASE r \in ToSet(old)
      BY <1>1, <1>2, <3>2
    <3>3. CASE r = f
      <4>1. k \in 1..k
        BY <1>1
      <4> QED BY <1>6, <3>3, <4>1 DEF f
    <3> QED BY <3>1, <3>2, <3>3
  <2>3. f.severity = "CRITICAL" <=> Dangerous(pairs[k].d)
    BY <1>1 DEF Tells
  <2> QED BY <1>3, <1>5, <1>6, <2>1, <2>2, <2>3 DEF Fits, w, f, old, R
<1>7. CASE ~Screened(f)
  <2>1. ~Dangerous(pairs[k].d)
    BY <1>1, <1>7 DEF Tells
  <2>2. w = v /\ v.warnings + 0 = v.warnings
    BY <1>2, <1>3, <1>7
  <2>3. Fits(v, k, pairs)
    BY <1>1, <1>2 DEF Fits, old
  <2> QED BY <1>7, <2>1, <2>2, <2>3 DEF w, f
<1> QED BY <1>6, <1>7

\* What fits some candidates fits more of them.
LEMMA FitsMore ==
  ASSUME NEW pairs, NEW k \in Nat, NEW v, Fits(v, k, pairs)
  PROVE  Fits(v, k + 1, pairs)
<1>1. \A i \in 1..k : i \in 1..(k + 1)
  OBVIOUS
<1> QED BY <1>1 DEF Fits

(* The recursion of the scan has a solution. *)
LEMMA ScanningExists ==
  ASSUME NEW pairs, PairsKnown(pairs)
  PROVE  \E g : Scanning(g, pairs)
<1> DEFINE n == Len(pairs)
           V == Partials(pairs)
           Value(k, v) == IF Fits(v, k - 1, pairs) THEN Scanned(v, pairs[k]) ELSE v
           F == [k \in 1..n |-> [v \in V |-> Value(k, v)]]
<1>1. n \in Nat /\ DOMAIN pairs = 1..n
  BY PairsTell
<1>2. \A k \in 1..n, v \in V : Value(k, v) \in V
  <2> TAKE k \in 1..n, v \in V
  <2>1. CASE Fits(v, k - 1, pairs)
    <3>1. Fits(Scanned(v, pairs[k]), k, pairs)
      BY <2>1, ScannedFits
    <3> QED BY <2>1, <3>1 DEF Fits
  <2> QED BY <2>1
<1>3. Nothing \in V
  BY NothingFits DEF Fits
<1>4. F \in [1..n -> [V -> V]]
  <2> HIDE DEF Value
  <2> QED BY <1>2
<1>5. \A k \in 1..n, v \in V : F[k][v] = Value(k, v)
  <2> HIDE DEF Value
  <2> QED OBVIOUS
<1> HIDE DEF F, n, V
<1>6. Foldable(n, V, Nothing, F)
  BY <1>1, <1>3, <1>4 DEF Foldable
<1>7. PICK g : IsTable(g, n, V, Nothing, F)
  BY <1>6, FoldTable
<1>8. \A s \in SUBSET (1..n) : s # {} =>
        /\ Max(s) \in s /\ Max(s) \in 1..n
        /\ g[s \ {Max(s)}] \in V
        /\ g[s] = Value(Max(s), g[s \ {Max(s)}])
  <2> TAKE s \in SUBSET (1..n)
  <2> HAVE s # {}
  <2>1. Max(s) \in s /\ Max(s) \in 1..n
    BY <1>1, SetMax
  <2>2. g[s \ {Max(s)}] \in V
    BY <1>7 DEF IsTable
  <2>3. g[s] = F[Max(s)][g[s \ {Max(s)}]]
    BY <1>7 DEF IsTable
  <2> HIDE DEF Value
  <2> QED BY <1>5, <2>1, <2>2, <2>3
<1> DEFINE G == {k \in 0..n : \A s \in SUBSET (1..k) : Fits(g[s], k, pairs)}
<1>9. 0 \in G
  <2>1. \A s \in SUBSET (1..0) : s = {}
    OBVIOUS
  <2>2. g[{}] = Nothing
    BY <1>7 DEF IsTable
  <2>3. Fits(Nothing, 0, pairs) /\ 0 \in 0..n
    BY <1>1, NothingFits
  <2> QED BY <2>1, <2>2, <2>3
<1>10. ASSUME NEW k \in 0..(n - 1), k \in G PROVE k + 1 \in G
  <2>1. k \in Nat /\ k + 1 \in 0..n /\ (k + 1) - 1 = k /\ k + 1 \in 1..n
    BY <1>1
  <2>2. ASSUME NEW s \in SUBSET (1..(k + 1)) PROVE Fits(g[s], k + 1, pairs)
    <3>1. CASE k + 1 \notin s
      <4>1. s \in SUBSET (1..k)
        BY <2>1, <3>1
      <4>2. Fits(g[s], k, pairs)
        BY <1>10, <4>1
      <4> QED BY <2>1, <4>2, FitsMore
    <3>2. CASE k + 1 \in s
      <4>1. s \in SUBSET (1..n) /\ s # {}
        BY <1>1, <2>1, <3>2
      <4>2. Max(s) = k + 1
        <5>1. Max(s) \in s /\ \A y \in s : Max(s) >= y
          BY <1>1, <4>1, SetMax
        <5>2. Max(s) \in 1..(k + 1) /\ Max(s) >= k + 1
          BY <3>2, <5>1
        <5> QED BY <2>1, <5>2
      <4>3. s \ {Max(s)} \in SUBSET (1..k)
        BY <2>1, <4>2
      <4>4. Fits(g[s \ {Max(s)}], k, pairs)
        BY <1>10, <4>3
      <4>5. g[s] = Scanned(g[s \ {Max(s)}], pairs[k + 1])
        BY <1>8, <2>1, <4>1, <4>2, <4>4
      <4> HIDE DEF Value
      <4> QED BY <2>1, <4>4, <4>5, ScannedFits DEF n
    <3> QED BY <3>1, <3>2
  <2> QED BY <2>1, <2>2
<1>11. \A k \in 0..n : k \in G
  <2> HIDE DEF G
  <2> QED BY <1>1, <1>9, <1>10, UpTo
<1>12. ASSUME NEW s \in SUBSET (1..n), s # {}
       PROVE  g[s] = Scanned(g[s \ {Max(s)}], pairs[Max(s)])
  <2> DEFINE k == Max(s)
  <2>1. k \in s /\ k \in 1..n /\ \A y \in s : k >= y
    BY <1>1, <1>12, SetMax
  <2>2. g[s] = Value(k, g[s \ {k}])
    BY <1>8, <1>12
  <2> HIDE DEF k
  <2>3. s \ {k} \in SUBSET (1..(k - 1)) /\ k - 1 \in 0..n
    BY <1>1, <2>1
  <2>4. Fits(g[s \ {k}], k - 1, pairs)
    BY <1>11, <2>3
  <2> QED BY <2>2, <2>4 DEF k
<1> QED
  <2>1. g[{}] = Nothing /\ DOMAIN pairs = 1..n
    BY <1>1, <1>7 DEF IsTable
  <2>2. g = [s \in SUBSET (1..n) |-> g[s]]
    BY <1>7 DEF IsTable
  <2> QED BY <1>12, <2>1, <2>2 DEF Scanning

(* What the scan of the first k candidates answers. *)
SoFar(v, k, pairs) ==
  /\ Fits(v, k, pairs)
  /\ v.warnings = Cardinality({i \in 1..k : Dangerous(pairs[i].d)})
  /\ \A i \in 1..k : Screened(Finding(pairs[i])) => Retained(Finding(pairs[i]), v.records)

\* Counting one number more.
LEMMA CountMore ==
  ASSUME NEW k \in Nat, NEW D
  PROVE  Cardinality({i \in 1..(k + 1) : i \in D}) =
           Cardinality({i \in 1..k : i \in D}) + IF k + 1 \in D THEN 1 ELSE 0
<1> DEFINE S == {i \in 1..k : i \in D}
<1>1. IsFiniteSet(S) /\ k + 1 \notin S
  <2>1. IsFiniteSet(1..k) /\ S \subseteq 1..k /\ k + 1 \notin 1..k
    BY FS_Interval
  <2> QED BY <2>1, FS_Subset
<1>2. Cardinality(S) \in Nat /\ Cardinality(S \cup {k + 1}) = Cardinality(S) + 1
  BY <1>1, FS_AddElement, FS_CardinalityType
<1>3. {i \in 1..(k + 1) : i \in D} = IF k + 1 \in D THEN S \cup {k + 1} ELSE S
  <2>1. 1..(k + 1) = (1..k) \cup {k + 1}
    OBVIOUS
  <2> QED BY <2>1
<1> HIDE DEF S
<1> QED BY <1>2, <1>3 DEF S

\* After every candidate the scan has counted and kept what it should.
LEMMA ScanSoFar ==
  ASSUME NEW pairs, PairsKnown(pairs)
  PROVE  SoFar(CdmScan(pairs), Len(pairs), pairs)
<1> DEFINE n == Len(pairs)
           D == {i \in 1..n : Dangerous(pairs[i].d)}
<1>1. n \in Nat /\ DOMAIN pairs = 1..n
  BY PairsTell
<1>2. PICK h : CdmScan(pairs) = h[DOMAIN pairs] /\ Scanning(h, pairs)
  BY ScanningExists, ScanningTable
<1>3. h[{}] = Nothing
  BY <1>2 DEF Scanning
<1> DEFINE G == {k \in 0..n : SoFar(h[1..k], k, pairs)}
<1>4. 0 \in G
  <2>1. 1..0 = {} /\ Nothing.warnings = 0
    BY DEF Nothing
  <2>2. Cardinality({i \in 1..0 : Dangerous(pairs[i].d)}) = 0
    BY FS_EmptySet
  <2> QED BY <1>1, <1>3, <2>1, <2>2, NothingFits DEF SoFar
<1>5. ASSUME NEW k \in 0..(n - 1), k \in G PROVE k + 1 \in G
  <2> DEFINE v == h[1..k]
             w == h[1..(k + 1)]
             f == Finding(pairs[k + 1])
  <2>1. k \in Nat /\ k + 1 \in 1..n /\ (k + 1) - 1 = k /\ k + 1 \in 0..n
    BY <1>1
  <2>2. w = Scanned(v, pairs[k + 1])
    <3>1. 1..(k + 1) # {} /\ Max(1..(k + 1)) = k + 1 /\ (1..(k + 1)) \ {Max(1..(k + 1))} = 1..k
      BY <2>1, SegmentMax
    <3>2. 1..(k + 1) \in SUBSET (1..n)
      BY <1>1, <2>1
    <3> QED BY <1>1, <1>2, <3>1, <3>2 DEF Scanning
  <2>3. SoFar(v, k, pairs)
    BY <1>5
  <2>4. Fits(v, (k + 1) - 1, pairs) /\ k + 1 \in 1..Len(pairs)
    BY <2>1, <2>3 DEF SoFar
  <2> HIDE DEF n, v, w
  <2>5. /\ Fits(w, k + 1, pairs)
        /\ w.warnings = v.warnings + IF Dangerous(pairs[k + 1].d) THEN 1 ELSE 0
        /\ Screened(f) => Retained(f, w.records)
        /\ \A x \in Findings(pairs) : Retained(x, v.records) => Retained(x, w.records)
    BY <2>2, <2>4, ScannedFits
  <2>6. w.warnings = Cardinality({i \in 1..(k + 1) : Dangerous(pairs[i].d)})
    <3>1. \A m \in 0..n : {i \in 1..m : Dangerous(pairs[i].d)} = {i \in 1..m : i \in D}
      <4> TAKE m \in 0..n
      <4>1. \A i \in 1..m : i \in 1..n
        BY <1>1
      <4> QED BY <4>1
    <3>2. k + 1 \in D <=> Dangerous(pairs[k + 1].d)
      BY <2>1
    <3>3. v.warnings = Cardinality({i \in 1..k : i \in D})
      <4>1. k \in 0..n
        BY <1>1, <2>1
      <4> QED BY <2>3, <3>1, <4>1 DEF SoFar
    <3> HIDE DEF D
    <3>4. Cardinality({i \in 1..(k + 1) : i \in D}) =
           Cardinality({i \in 1..k : i \in D}) + IF k + 1 \in D THEN 1 ELSE 0
      BY <2>1, CountMore
    <3> QED BY <2>1, <2>5, <3>1, <3>2, <3>3, <3>4
  <2>7. ASSUME NEW i \in 1..(k + 1), Screened(Finding(pairs[i]))
        PROVE  Retained(Finding(pairs[i]), w.records)
    <3>1. CASE i = k + 1
      BY <2>5, <2>7, <3>1
    <3>2. CASE i # k + 1
      <4>1. i \in 1..k /\ i \in 1..n
        BY <1>1, <2>1, <3>2
      <4>2. Finding(pairs[i]) \in Findings(pairs)
        BY <4>1 DEF Findings, n
      <4>3. Retained(Finding(pairs[i]), v.records)
        BY <2>3, <2>7, <4>1 DEF SoFar
      <4> QED BY <2>5, <4>2, <4>3
    <3> QED BY <3>1, <3>2
  <2>8. SoFar(w, k + 1, pairs)
    BY <2>5, <2>6, <2>7 DEF SoFar
  <2> QED BY <2>1, <2>8 DEF w
<1>6. \A k \in 0..n : k \in G
  <2> HIDE DEF G, n
  <2> QED BY <1>1, <1>4, <1>5, UpTo
<1>7. n \in 0..n
  BY <1>1
<1> QED BY <1>1, <1>2, <1>6, <1>7

\* Two lists of six figures compared at the first that differs.
LEMMA FirstDifference ==
  ASSUME NEW a1, NEW a2, NEW a3, NEW a4, NEW a5, NEW a6,
         NEW b1, NEW b2, NEW b3, NEW b4, NEW b5, NEW b6,
         \/ a1 < b1
         \/ a1 = b1 /\ a2 < b2
         \/ a1 = b1 /\ a2 = b2 /\ a3 < b3
         \/ a1 = b1 /\ a2 = b2 /\ a3 = b3 /\ a4 < b4
         \/ a1 = b1 /\ a2 = b2 /\ a3 = b3 /\ a4 = b4 /\ a5 < b5
         \/ a1 = b1 /\ a2 = b2 /\ a3 = b3 /\ a4 = b4 /\ a5 = b5 /\ a6 < b6
  PROVE  \E i \in 1..6 :
           /\ <<a1, a2, a3, a4, a5, a6>>[i] < <<b1, b2, b3, b4, b5, b6>>[i]
           /\ \A j \in 1..(i - 1) :
                <<a1, a2, a3, a4, a5, a6>>[j] = <<b1, b2, b3, b4, b5, b6>>[j]
<1> DEFINE a == <<a1, a2, a3, a4, a5, a6>>
           b == <<b1, b2, b3, b4, b5, b6>>
<1>1. /\ a[1] = a1 /\ a[2] = a2 /\ a[3] = a3 /\ a[4] = a4 /\ a[5] = a5 /\ a[6] = a6
      /\ b[1] = b1 /\ b[2] = b2 /\ b[3] = b3 /\ b[4] = b4 /\ b[5] = b5 /\ b[6] = b6
  OBVIOUS
<1> HIDE DEF a, b
<1>2. \A k \in 1..6 :
        a[k] < b[k] /\ (\A j \in 1..(k - 1) : a[j] = b[j]) =>
          \E i \in 1..6 : a[i] < b[i] /\ \A j \in 1..(i - 1) : a[j] = b[j]
  OBVIOUS
<1>3. /\ 1..0 = {} /\ 1..1 = {1} /\ 1..2 = {1, 2} /\ 1..3 = {1, 2, 3}
      /\ 1..4 = {1, 2, 3, 4} /\ 1..5 = {1, 2, 3, 4, 5}
      /\ 1 - 1 = 0 /\ 2 - 1 = 1 /\ 3 - 1 = 2 /\ 4 - 1 = 3 /\ 5 - 1 = 4 /\ 6 - 1 = 5
  OBVIOUS
<1>4. CASE a1 < b1
  <2>1. a[1] < b[1] /\ \A j \in 1..(1 - 1) : a[j] = b[j]
    BY <1>1, <1>3, <1>4
  <2> QED BY <1>2, <2>1 DEF a, b
<1>5. CASE a1 = b1 /\ a2 < b2
  <2>1. a[2] < b[2] /\ \A j \in 1..(2 - 1) : a[j] = b[j]
    BY <1>1, <1>3, <1>5
  <2> QED BY <1>2, <2>1 DEF a, b
<1>6. CASE a1 = b1 /\ a2 = b2 /\ a3 < b3
  <2>1. a[3] < b[3] /\ \A j \in 1..(3 - 1) : a[j] = b[j]
    BY <1>1, <1>3, <1>6
  <2> QED BY <1>2, <2>1 DEF a, b
<1>7. CASE a1 = b1 /\ a2 = b2 /\ a3 = b3 /\ a4 < b4
  <2>1. a[4] < b[4] /\ \A j \in 1..(4 - 1) : a[j] = b[j]
    BY <1>1, <1>3, <1>7
  <2> QED BY <1>2, <2>1 DEF a, b
<1>8. CASE a1 = b1 /\ a2 = b2 /\ a3 = b3 /\ a4 = b4 /\ a5 < b5
  <2>1. a[5] < b[5] /\ \A j \in 1..(5 - 1) : a[j] = b[j]
    BY <1>1, <1>3, <1>8
  <2> QED BY <1>2, <2>1 DEF a, b
<1>9. CASE a1 = b1 /\ a2 = b2 /\ a3 = b3 /\ a4 = b4 /\ a5 = b5 /\ a6 < b6
  <2>1. a[6] < b[6] /\ \A j \in 1..(6 - 1) : a[j] = b[j]
    BY <1>1, <1>3, <1>9
  <2> QED BY <1>2, <2>1 DEF a, b
<1> QED BY <1>4, <1>5, <1>6, <1>7, <1>8, <1>9

(* In a list so sorted each record outranks the later ones.                *)
LEMMA LessOutranks ==
  ASSUME NEW a, NEW b, NEW p, NEW q, Tells(a, p), Tells(b, q), ConjunctionLess(a, b)
  PROVE  /\ Outranks(a, b) /\ Grade(a) <= Grade(b)
         /\ b.collision => a.collision
<1>1. /\ Record(a) /\ Record(b)
      /\ a.collision <=> ~a.failOpen /\ a.miss < Critical
      /\ b.collision <=> ~b.failOpen /\ b.miss < Critical
      /\ a.severity = IF a.failOpen THEN "CRITICAL" ELSE Classify(a.miss)
      /\ b.severity = IF b.failOpen THEN "CRITICAL" ELSE Classify(b.miss)
  BY DEF Tells
<1>2. b.collision => a.collision
  BY <1>1 DEF ConjunctionLess, Record
<1>3. Outranks(a, b)
  <2> DEFINE Place(r) == IF r.collision THEN 0 ELSE 1
             Followed(r) == IF r.failOpen THEN 0 ELSE 1
  <2>1. \/ Place(a) < Place(b)
        \/ Place(a) = Place(b) /\ Followed(a) < Followed(b)
        \/ Place(a) = Place(b) /\ Followed(a) = Followed(b) /\ a.miss < b.miss
        \/ Place(a) = Place(b) /\ Followed(a) = Followed(b) /\ a.miss = b.miss
           /\ a.tca < b.tca
        \/ Place(a) = Place(b) /\ Followed(a) = Followed(b) /\ a.miss = b.miss
           /\ a.tca = b.tca /\ a.sat < b.sat
        \/ Place(a) = Place(b) /\ Followed(a) = Followed(b) /\ a.miss = b.miss
           /\ a.tca = b.tca /\ a.sat = b.sat /\ a.deb < b.deb
    BY <1>1 DEF ConjunctionLess, Record
  <2> HIDE DEF Place, Followed
  <2>2. \E i \in 1..6 :
          LET x == <<Place(a), Followed(a), a.miss, a.tca, a.sat, a.deb>>
              y == <<Place(b), Followed(b), b.miss, b.tca, b.sat, b.deb>>
          IN  x[i] < y[i] /\ \A j \in 1..(i - 1) : x[j] = y[j]
    BY <2>1, FirstDifference
  <2> QED BY <2>2 DEF Outranks, Ranking, Place, Followed
<1>4. Grade(a) <= Grade(b)
  <2> DEFINE Level(r) == IF r.failOpen \/ r.miss <= Critical THEN 1
                         ELSE IF r.miss <= Warn THEN 2 ELSE 3
  <2>1. Grade(a) = Level(a) /\ Grade(b) = Level(b)
    BY <1>1 DEF Grade, Classify
  <2>2. a.failOpen \/ a.miss <= Critical \/ ~(b.failOpen \/ b.miss <= Critical)
    BY <1>1, ScanAssumption DEF ConjunctionLess, Record
  <2>3. a.failOpen \/ a.miss <= Warn \/ ~(b.failOpen \/ b.miss <= Warn)
    BY <1>1, ScanAssumption DEF ConjunctionLess, Record
  <2>4. \A r : Record(r) => (r.miss <= Critical => r.miss <= Warn)
    BY ScanAssumption DEF Record
  <2>5. Level(a) <= Level(b)
    BY <1>1, <2>2, <2>3, <2>4
  <2> QED BY <2>1, <2>5
<1> QED BY <1>2, <1>3, <1>4

(* The places of a candidate in the answer. *)
Listed(p, records) ==
  {i \in DOMAIN records : records[i].sat = p.sat /\ records[i].deb = p.deb}

\* A candidate is listed at most once, and with its own finding.
LEMMA ListedIs ==
  ASSUME NEW pairs, PairsKnown(pairs), NEW v, SoFar(v, Len(pairs), pairs),
         NEW i \in 1..Len(pairs)
  PROVE  LET p == pairs[i]
             f == Finding(p)
         IN  /\ \A j \in Listed(p, v.records) : v.records[j] = f /\ Screened(f)
             /\ f \in ToSet(v.records) => Listed(p, v.records) # {}
             /\ Cardinality(Listed(p, v.records)) <= 1
<1> DEFINE p == pairs[i]
           f == Finding(p)
           records == v.records
           L == Listed(p, records)
<1>1. /\ records \in Seq(Findings(pairs)) /\ Sorted(records)
      /\ \A r \in ToSet(records) : \E k \in 1..Len(pairs) :
           r = Finding(pairs[k]) /\ Screened(r)
  BY DEF SoFar, Fits, Partials
<1>2. Tells(f, p)
  BY PairsTell
<1>3. ASSUME NEW j \in L PROVE records[j] = f /\ Screened(f)
  <2>1. j \in 1..Len(records) /\ records[j] \in ToSet(records)
    BY <1>1, ElementsOf DEF Listed
  <2>2. PICK k \in 1..Len(pairs) : records[j] = Finding(pairs[k]) /\ Screened(records[j])
    BY <1>1, <2>1
  <2>3. Tells(Finding(pairs[k]), pairs[k])
    BY PairsTell
  <2>4. pairs[k].sat = p.sat /\ pairs[k].deb = p.deb
    <3>1. records[j].sat = p.sat /\ records[j].deb = p.deb
      BY DEF Listed
    <3> QED BY <2>2, <2>3, <3>1 DEF Tells
  <2>5. k = i
    BY <2>4, PairsTell
  <2> QED BY <2>2, <2>5
<1>4. ASSUME f \in ToSet(records) PROVE L # {}
  <2>1. PICK j \in 1..Len(records) : records[j] = f
    BY <1>1, <1>4, ElementsOf
  <2>2. f.sat = p.sat /\ f.deb = p.deb
    BY <1>2 DEF Tells
  <2>3. j \in DOMAIN records
    BY <1>1, ElementsOf
  <2> HIDE DEF f, records, p
  <2> QED BY <2>1, <2>2, <2>3 DEF Listed
<1>5. \A j, k \in L : j = k
  <2> SUFFICES ASSUME NEW j \in L, NEW k \in L, j < k PROVE FALSE
    <3>1. \A j \in L : j \in 1..Len(records)
      BY <1>1, ElementsOf DEF Listed
    <3>2. Len(records) \in Nat
      BY <1>1
    <3> HIDE DEF L
    <3> QED BY <3>1, <3>2
  <2>1. j \in 1..Len(records) /\ k \in 1..Len(records)
    BY <1>1, ElementsOf DEF Listed
  <2>2. records[j] = f /\ records[k] = f
    BY <1>3
  <2> HIDE DEF records, f, L
  <2>3. ConjunctionLess(f, f)
    BY <1>1, <2>1, <2>2 DEF Sorted
  <2> QED BY <1>2, <2>3, LessIrreflexive DEF Tells
<1>6. Cardinality(L) <= 1
  <2> HIDE DEF L
  <2>1. CASE L = {}
    BY <2>1, FS_EmptySet
  <2>2. CASE L # {}
    <3>1. PICK j \in L : L = {j}
      BY <1>5, <2>2
    <3> QED BY <3>1, FS_Singleton
  <2> QED BY <2>1, <2>2
<1> QED BY <1>3, <1>4, <1>6

\* A finding that tells of its candidate describes it.
LEMMA TellsDescribes ==
  ASSUME NEW f, NEW p, Tells(f, p)
  PROVE  Describes(f, p)
BY DEF Tells, Describes

\* Hence the answer of the scan is sound.
LEMMA ScanSound ==
  ASSUME NEW pairs, PairsKnown(pairs), NEW v, SoFar(v, Len(pairs), pairs)
  PROVE  ScanIsSound(pairs, v)
<1> DEFINE n == Len(pairs)
           records == v.records
           listed(p) == {i \in DOMAIN records :
                           records[i].sat = p.sat /\ records[i].deb = p.deb}
           wanted(p) == ComesWithin(p.d, Screening) \/ Dangerous(p.d)
           Outdone(p, f) ==
             /\ Len(records) = KPredictive
             /\ \A r \in ToSet(records) :
                  /\ Outranks(r, f) /\ Grade(r) <= Grade(f)
                  /\ ComesWithin(p.d, Critical) /\ Failed \notin ToSet(p.d) =>
                       r.collision
<1>1. /\ records \in Seq(Findings(pairs)) /\ Sorted(records) /\ Len(records) <= KPredictive
      /\ \A r \in ToSet(records) : \E k \in 1..n : r = Finding(pairs[k]) /\ Screened(r)
      /\ v.warnings = Cardinality({i \in 1..n : Dangerous(pairs[i].d)})
      /\ \A i \in 1..n : Screened(Finding(pairs[i])) => Retained(Finding(pairs[i]), records)
  BY DEF SoFar, Fits, Partials
<1>2. /\ DOMAIN pairs = 1..n /\ DOMAIN records = 1..Len(records)
      /\ \A i \in 1..n : Tells(Finding(pairs[i]), pairs[i])
  BY <1>1, PairsTell, ElementsOf
<1>3. \A p : listed(p) = Listed(p, records)
  BY DEF Listed
<1>4. \A r \in ToSet(records) : \E k \in 1..n : Tells(r, pairs[k])
  <2> TAKE r \in ToSet(records)
  <2>1. PICK k \in 1..n : r = Finding(pairs[k])
    BY <1>1
  <2>2. Tells(r, pairs[k])
    BY <1>2, <2>1
  <2> QED BY <2>2
<1>5. \A r \in ToSet(records) : \E i \in 1..n : Describes(r, pairs[i])
  <2> HIDE DEF records, n
  <2> QED BY <1>4, TellsDescribes
<1>6. ASSUME NEW i \in 1..n
      PROVE  LET p == pairs[i]
                 f == Finding(p)
             IN  /\ Describes(f, p)
                 /\ Cardinality(listed(p)) <= 1
                 /\ \A k \in listed(p) : wanted(p) /\ records[k] = f
                 /\ wanted(p) /\ listed(p) = {} => Outdone(p, f)
  <2> DEFINE p == pairs[i]
             f == Finding(p)
  <2>1. /\ \A j \in Listed(p, records) : records[j] = f /\ Screened(f)
        /\ f \in ToSet(records) => Listed(p, records) # {}
        /\ Cardinality(Listed(p, records)) <= 1
    BY ListedIs
  <2>2. Tells(f, p)
    BY <1>2
  <2>3. Screened(f) <=> wanted(p)
    BY <2>2 DEF Tells
  <2>4. ASSUME Screened(f), Listed(p, records) = {}
        PROVE  /\ Len(records) = KPredictive
               /\ \A r \in ToSet(records) : ConjunctionLess(r, f)
    BY <1>1, <2>1, <2>4 DEF Retained
  <2>5. ASSUME NEW r \in ToSet(records), ConjunctionLess(r, f)
        PROVE  /\ Outranks(r, f) /\ Grade(r) <= Grade(f)
               /\ ComesWithin(p.d, Critical) /\ Failed \notin ToSet(p.d) => r.collision
    <3>1. PICK k \in 1..n : Tells(r, pairs[k])
      BY <1>4
    <3>2. ComesWithin(p.d, Critical) /\ Failed \notin ToSet(p.d) => f.collision
      BY <2>2 DEF Tells
    <3> HIDE DEF f, p, records, n
    <3> QED BY <2>2, <2>5, <3>1, <3>2, LessOutranks
  <2> HIDE DEF f, p, records, n, listed, wanted
  <2>6. Describes(f, p) /\ Cardinality(listed(p)) <= 1
    BY <1>3, <2>1, <2>2, TellsDescribes
  <2>7. \A k \in listed(p) : wanted(p) /\ records[k] = f
    BY <1>3, <2>1, <2>3
  <2>8. ASSUME wanted(p), listed(p) = {} PROVE Outdone(p, f)
    BY <1>3, <2>3, <2>4, <2>5, <2>8
  <2> QED BY <2>6, <2>7, <2>8 DEF f, p
<1>7. ASSUME NEW i \in 1..Len(records), NEW j \in 1..Len(records), i < j
      PROVE  Outranks(records[i], records[j]) /\ Grade(records[i]) <= Grade(records[j])
  <2>1. \A m \in 1..Len(records) : records[m] \in ToSet(records)
    BY <1>1, ElementsOf
  <2> HIDE DEF records, n
  <2>2. PICK k \in 1..n : Tells(records[i], pairs[k])
    BY <1>4, <2>1
  <2>3. PICK m \in 1..n : Tells(records[j], pairs[m])
    BY <1>4, <2>1
  <2>4. ConjunctionLess(records[i], records[j])
    BY <1>1, <1>7 DEF Sorted
  <2> QED BY <2>2, <2>3, <2>4, LessOutranks
<1> HIDE DEF records, n, listed, wanted
<1>8. \A i, j \in DOMAIN records : i < j =>
        Outranks(records[i], records[j]) /\ Grade(records[i]) <= Grade(records[j])
  BY <1>2, <1>7
<1>9. \A i \in DOMAIN pairs :
         LET p == pairs[i]
             f == Finding(p)
         IN  /\ Describes(f, p)
             /\ Cardinality(listed(p)) <= 1
             /\ \A k \in listed(p) : wanted(p) /\ records[k] = f
             /\ wanted(p) /\ listed(p) = {} => Outdone(p, f)
  BY <1>2, <1>6
<1>10. v.warnings = Cardinality({i \in DOMAIN pairs : Dangerous(pairs[i].d)})
  BY <1>1, <1>2
<1>11. \A r \in ToSet(records) : \E i \in DOMAIN pairs : Describes(r, pairs[i])
  BY <1>2, <1>5
<1> QED
  BY <1>1, <1>8, <1>9, <1>10, <1>11 DEF ScanIsSound, records, listed, wanted

-----------------------------------------------------------------------------
(* Trajectories: the recorded epochs.                                      *)

\* In the order of time.
Ascending(seq) == \A i, j \in 1..Len(seq) : i < j => seq[i] < seq[j]

\* The epochs recorded of a satellite, up to now if it was recorded at all.
TrailKnown(trail, now) ==
  /\ now \in Nat /\ trail \in Seq(Nat) /\ Ascending(trail)
  /\ trail # << >> => trail[Len(trail)] = now

\* No recorded epoch is later than now.
LEMMA TrailIsPast ==
  ASSUME NEW trail, NEW now, TrailKnown(trail, now)
  PROVE  \A i \in 1..Len(trail) : trail[i] \in Nat /\ trail[i] <= now
<1>1. Len(trail) \in Nat /\ \A i \in 1..Len(trail) : trail[i] \in Nat
  BY DEF TrailKnown
<1> TAKE i \in 1..Len(trail)
<1>2. trail # << >> /\ Len(trail) \in 1..Len(trail)
  BY <1>1
<1>3. i = Len(trail) \/ i < Len(trail)
  BY <1>1
<1>4. trail[Len(trail)] = now /\ now \in Nat
  BY <1>2 DEF TrailKnown
<1>5. i < Len(trail) => trail[i] < trail[Len(trail)]
  BY <1>2 DEF TrailKnown, Ascending
<1> QED BY <1>1, <1>3, <1>4, <1>5

\* The recorded epochs of the window are the last ones.
LEMMA Last90Is ==
  ASSUME NEW trail \in Seq(Nat), Ascending(trail), NEW now \in Nat
  PROVE  /\ Last90(trail, now) \in Seq(Nat)
         /\ \E d \in 0..Len(trail) :
              /\ IsEnd(Last90(trail, now), trail, d)
              /\ \A i \in 1..Len(trail) : trail[i] >= now - Window <=> d < i
<1> DEFINE set == {t \in ToSet(trail) : t >= now - Window}
<1>1. \A i \in 1..Len(trail) : trail[i] \in Nat /\ trail[i] \in ToSet(trail)
  BY ElementsOf
<1>2. Window \in Nat
  BY TrackAssumption
<1>3. \A i \in 1..Len(trail) : trail[i] \in set <=> trail[i] >= now - Window
  BY <1>1
<1>4. \A i, j \in 1..Len(trail) : i < j /\ trail[i] \in set => trail[j] \in set
  BY <1>1, <1>2, <1>3 DEF Ascending
<1>5. Last90(trail, now) = Among(trail, set)
  BY DEF Last90
<1> HIDE DEF set
<1>6. Among(trail, set) \in Seq(Nat)
  BY AmongProperties DEF Drawn
<1>7. PICK d \in 0..Len(trail) :
        /\ IsEnd(Among(trail, set), trail, d)
        /\ \A i \in 1..Len(trail) : trail[i] \in set <=> d < i
  BY <1>4, AmongSuffix
<1> QED BY <1>3, <1>5, <1>6, <1>7

\* A step keeps the trail in order, and ends it now.
LEMMA RecordedIs ==
  ASSUME NEW trail, NEW before, TrailKnown(trail, before),
         NEW now \in Nat, now > before
  PROVE  TrailKnown(Recorded(trail, now), now) /\ Recorded(trail, now) # << >>
<1> DEFINE last == Last90(trail, now)
           kept == Append(last, now)
<1>1. PICK d \in 0..Len(trail) : IsEnd(last, trail, d)
  BY Last90Is DEF TrailKnown
<1>2. last \in Seq(Nat)
  BY Last90Is DEF TrailKnown
<1>3. trail \in Seq(Nat) /\ Len(trail) \in Nat /\ before \in Nat
  BY DEF TrailKnown
<1>4. Recorded(trail, now) = IF Len(kept) <= KTrack THEN kept ELSE Tail(kept)
  BY DEF Recorded
<1> DEFINE m == Len(last)
<1>5. m \in Nat
  BY <1>2
<1> HIDE DEF last
<1>6. /\ kept \in Seq(Nat) /\ Len(kept) = m + 1 /\ kept[m + 1] = now
      /\ \A j \in 1..m : kept[j] = last[j]
  BY <1>2, AppendElements
<1>7. \A j \in 1..m : last[j] = trail[j + d] /\ j + d \in 1..Len(trail)
  BY <1>1, <1>3 DEF IsEnd
<1>8. \A j \in 1..m : kept[j] = trail[j + d] /\ kept[j] \in Nat /\ kept[j] < now
  BY <1>3, <1>6, <1>7, TrailIsPast
<1> HIDE DEF kept, m
<1>9. Ascending(kept)
  <2> SUFFICES ASSUME NEW i \in 1..(m + 1), NEW j \in 1..(m + 1), i < j
      PROVE  kept[i] < kept[j]
    BY <1>6 DEF Ascending
  <2>1. i \in 1..m
    BY <1>5
  <2>2. CASE j = m + 1
    BY <1>6, <1>8, <2>1, <2>2
  <2>3. CASE j # m + 1
    <3>1. j \in 1..m
      BY <1>5, <2>3
    <3>2. i + d \in 1..Len(trail) /\ j + d \in 1..Len(trail)
      BY <1>7, <2>1, <3>1
    <3>3. i + d < j + d
      BY <1>3, <1>5, <2>1, <3>1
    <3>4. trail[i + d] < trail[j + d]
      BY <3>2, <3>3 DEF TrailKnown, Ascending
    <3> QED BY <1>8, <2>1, <3>1, <3>4
  <2> QED BY <2>2, <2>3
<1>10. CASE Len(kept) <= KTrack
  <2>1. kept # << >>
    BY <1>5, <1>6
  <2> QED BY <1>4, <1>5, <1>6, <1>9, <1>10, <2>1 DEF TrailKnown
<1>11. CASE ~(Len(kept) <= KTrack)
  <2>1. m >= 1
    BY <1>5, <1>6, <1>11, TrackAssumption
  <2> DEFINE tail == Tail(kept)
  <2>2. /\ tail \in Seq(Nat) /\ Len(tail) = m
        /\ \A i \in 1..m : tail[i] = kept[i + 1]
    BY <1>5, <1>6, <2>1
  <2> HIDE DEF tail
  <2>3. tail[m] = now /\ tail # << >>
    BY <1>5, <1>6, <2>1, <2>2
  <2>4. Ascending(tail)
    <3> SUFFICES ASSUME NEW i \in 1..m, NEW j \in 1..m, i < j
        PROVE  tail[i] < tail[j]
      BY <2>2 DEF Ascending
    <3>1. i + 1 \in 1..(m + 1) /\ j + 1 \in 1..(m + 1) /\ i + 1 < j + 1
      BY <1>5
    <3> QED BY <1>6, <1>9, <2>2, <3>1 DEF Ascending
  <2> QED BY <1>4, <1>11, <2>2, <2>3, <2>4 DEF TrailKnown, tail
<1> QED BY <1>10, <1>11

\* The recursion of Recording.
Keeping(h, steps) ==
  h = [s \in SUBSET (DOMAIN steps) |->
         IF s = {} THEN [now |-> 0, trail |-> << >>]
         ELSE LET run == h[s \ {Max(s)}]
                  dt == steps[Max(s)]
              IN  [now |-> run.now + dt, trail |-> Recorded(run.trail, run.now + dt)]]

\* What Recording evaluates to solves its recursion.
LEMMA KeepingTable ==
  ASSUME NEW steps, \E g : Keeping(g, steps)
  PROVE  \E h : Recording(steps) = h[DOMAIN steps] /\ Keeping(h, steps)
BY DEF Recording, FoldLeft, MapThenFoldSet, Keeping

\* The recursion has a solution.
LEMMA KeepingExists ==
  ASSUME NEW n \in Nat, NEW steps \in [1..n -> Nat]
  PROVE  \E g : Keeping(g, steps)
<1> DEFINE V == [now : Nat, trail : Seq(Nat)]
           base == [now |-> 0, trail |-> << >>]
           Next1(v, dt) == [now |-> v.now + dt, trail |-> Recorded(v.trail, v.now + dt)]
           F == [k \in 1..n |-> [v \in V |-> Next1(v, steps[k])]]
<1>1. \A v \in V, dt \in Nat : Next1(v, dt) \in V
  <2> TAKE v \in V, dt \in Nat
  <2> DEFINE last == Last90(v.trail, v.now + dt)
             kept == Append(last, v.now + dt)
  <2>1. v.trail \in Seq(Nat) /\ v.now + dt \in Nat
    OBVIOUS
  <2>2. last \in Seq(Nat)
    BY <2>1, AmongProperties DEF Drawn, Last90
  <2> HIDE DEF last
  <2>3. kept \in Seq(Nat) /\ Len(kept) = Len(last) + 1 /\ Len(last) \in Nat
    BY <2>1, <2>2, AppendElements
  <2> HIDE DEF kept
  <2>4. kept # << >>
    BY <2>3
  <2>5. Tail(kept) \in Seq(Nat)
    BY <2>3, <2>4
  <2>6. Recorded(v.trail, v.now + dt) \in Seq(Nat)
    BY <2>3, <2>5 DEF Recorded, kept, last
  <2> QED BY <2>1, <2>6
<1>2. base \in V
  OBVIOUS
<1> HIDE DEF V, base
<1>3. F \in [1..n -> [V -> V]]
  <2> HIDE DEF Next1
  <2> QED BY <1>1
<1>4. \A k \in 1..n, v \in V : F[k][v] = Next1(v, steps[k])
  <2> HIDE DEF Next1
  <2> QED OBVIOUS
<1> HIDE DEF F
<1>5. Foldable(n, V, base, F)
  BY <1>2, <1>3 DEF Foldable
<1>6. PICK g : IsTable(g, n, V, base, F)
  BY <1>5, FoldTable
<1>7. ASSUME NEW s \in SUBSET (1..n), s # {}
      PROVE  g[s] = Next1(g[s \ {Max(s)}], steps[Max(s)])
  <2>1. Max(s) \in 1..n
    BY <1>7, SetMax
  <2>2. g[s \ {Max(s)}] \in V
    BY <1>6 DEF IsTable
  <2> HIDE DEF Next1
  <2> QED BY <1>4, <1>6, <1>7, <2>1, <2>2 DEF IsTable
<1>8. DOMAIN steps = 1..n
  OBVIOUS
<1>9. Keeping(g, steps)
  BY <1>6, <1>7, <1>8 DEF IsTable, Keeping, base
<1> QED BY <1>9

\* The trail after any steps is in order and ends now.
LEMMA TrailAfterIs ==
  ASSUME NEW n \in Nat \ {0}, NEW steps \in [1..n -> Nat \ {0}]
  PROVE  /\ ClockAfter(steps) \in Nat
         /\ TrailKnown(TrailAfter(steps), ClockAfter(steps))
<1>1. PICK h : Recording(steps) = h[DOMAIN steps] /\ Keeping(h, steps)
  BY KeepingExists, KeepingTable
<1> DEFINE Good(k) == TrailKnown(h[1..k].trail, h[1..k].now)
           G == {k \in 0..n : Good(k)}
<1>2. DOMAIN steps = 1..n
  OBVIOUS
<1>3. h[{}] = [now |-> 0, trail |-> << >>]
  BY <1>1 DEF Keeping
<1>4. Good(0)
  <2>1. 1..0 = {}
    OBVIOUS
  <2>2. h[1..0].now = 0 /\ h[1..0].trail = << >>
    BY <1>3, <2>1
  <2>3. << >> \in Seq(Nat) /\ 0 \in Nat /\ Ascending(<< >>)
    BY DEF Ascending
  <2> QED BY <2>2, <2>3 DEF TrailKnown
<1>5. ASSUME NEW k \in 0..(n - 1), Good(k) PROVE Good(k + 1)
  <2>1. k \in Nat /\ k + 1 \in Nat \ {0} /\ k + 1 \in 1..n /\ (k + 1) - 1 = k
    OBVIOUS
  <2> DEFINE s == 1..(k + 1)
             v == h[1..k]
             now == v.now + steps[k + 1]
  <2>2. s # {} /\ Max(s) = k + 1 /\ s \ {Max(s)} = 1..k
    BY <2>1, SegmentMax
  <2>3. s \in SUBSET (1..n)
    BY <2>1
  <2> HIDE DEF s
  <2>4. h[s] = [now |-> now, trail |-> Recorded(v.trail, now)]
    BY <1>1, <1>2, <2>2, <2>3 DEF Keeping
  <2>5. steps[k + 1] \in Nat \ {0}
    BY <2>1
  <2>6. v.now \in Nat
    BY <1>5 DEF TrailKnown
  <2>7. now \in Nat /\ now > v.now
    BY <2>5, <2>6
  <2>8. TrailKnown(v.trail, v.now)
    BY <1>5
  <2> HIDE DEF now, v
  <2>9. TrailKnown(Recorded(v.trail, now), now)
    BY <2>6, <2>7, <2>8, RecordedIs
  <2>10. h[s].trail = Recorded(v.trail, now) /\ h[s].now = now
    BY <2>4
  <2> QED BY <2>9, <2>10 DEF s
<1>6. \A k \in 0..n : k \in G
  <2> HIDE DEF Good
  <2>1. 0 \in G /\ \A k \in 0..(n - 1) : k \in G => k + 1 \in G
    BY <1>4, <1>5
  <2> HIDE DEF G
  <2> QED BY <2>1, UpTo
<1>7. Good(n)
  <2> HIDE DEF Good
  <2> QED BY <1>6
<1> QED BY <1>1, <1>2, <1>7 DEF TrailKnown, TrailAfter, ClockAfter

-----------------------------------------------------------------------------
(* Trajectories: chains of samples.                                        *)

\* What the samples of an answer are.
Samples ==
  [at : Int, how : {"recorded", "interpolated", "forward", "backward", "exact"},
   from : Int]

\* From a to b nothing is missing: a burn explains a gap of two intervals.
Linked(a, b, burns) ==
  a < b /\ (b - a >= 2 * Interval => \E c \in burns : a <= c /\ c <= b)

\* A chain of samples from an epoch on, and the epoch it ends at.
Before(from, seq, i) == IF i = 1 THEN from ELSE seq[i - 1].at
Chained(from, seq, burns) ==
  \A i \in 1..Len(seq) : Linked(Before(from, seq, i), seq[i].at, burns)
EndOf(from, seq) == IF seq = << >> THEN from ELSE seq[Len(seq)].at

\* The samples of a sequence have epochs.
LEMMA SampleFields ==
  ASSUME NEW seq \in Seq(Samples)
  PROVE  /\ Len(seq) \in Nat
         /\ \A i \in 1..Len(seq) : seq[i] \in Samples /\ seq[i].at \in Int
<1>1. Len(seq) \in Nat /\ \A i \in 1..Len(seq) : seq[i] \in Samples
  <2> HIDE DEF Samples
  <2> QED OBVIOUS
<1> QED BY <1>1 DEF Samples

\* A chain and one from its end on are a chain.
LEMMA ChainConcat ==
  ASSUME NEW from \in Int, NEW p \in Seq(Samples), NEW q \in Seq(Samples), NEW burns,
         Chained(from, p, burns), Chained(EndOf(from, p), q, burns)
  PROVE  /\ p \o q \in Seq(Samples) /\ Chained(from, p \o q, burns)
         /\ EndOf(from, p \o q) = EndOf(EndOf(from, p), q)
<1> DEFINE j == p \o q
           m == Len(p)
           n == Len(q)
<1>1. /\ j \in Seq(Samples) /\ Len(j) = m + n /\ m \in Nat /\ n \in Nat
      /\ \A i \in 1..m : j[i] = p[i]
      /\ \A i \in 1..n : j[i + m] = q[i]
  BY ConcatElements
<1>2. (p = << >> <=> m = 0) /\ (q = << >> <=> n = 0) /\ (j = << >> <=> m + n = 0)
  <2> HIDE DEF Samples
  <2> QED BY <1>1
<1> HIDE DEF j, m, n
<1>3. ASSUME NEW i \in 1..(m + n) PROVE Linked(Before(from, j, i), j[i].at, burns)
  <2>1. CASE i \in 1..m
    <3>1. i # 1 => i - 1 \in 1..m
      BY <1>1, <2>1
    <3>2. Before(from, j, i) = Before(from, p, i)
      BY <1>1, <3>1 DEF Before
    <3> QED BY <1>1, <2>1, <3>2 DEF Chained, m
  <2>2. CASE i \notin 1..m
    <3> DEFINE k == i - m
    <3>1. k \in 1..n /\ i = k + m
      BY <1>1, <2>2
    <3>2. j[i] = q[k]
      BY <1>1, <3>1
    <3>3. Before(from, j, i) = Before(EndOf(from, p), q, k)
      <4>1. CASE k = 1 /\ m = 0
        BY <1>1, <1>2, <3>1, <4>1 DEF Before, EndOf
      <4>2. CASE k = 1 /\ m # 0
        <5>1. i # 1 /\ i - 1 = m /\ m \in 1..m
          BY <1>1, <3>1, <4>2
        <5> QED BY <1>1, <1>2, <4>2, <5>1 DEF Before, EndOf, m
      <4>3. CASE k # 1
        <5>1. i # 1 /\ k - 1 \in 1..n /\ i - 1 = (k - 1) + m
          BY <1>1, <3>1, <4>3
        <5>2. j[i - 1] = q[k - 1]
          BY <1>1, <5>1
        <5> QED BY <4>3, <5>1, <5>2 DEF Before
      <4> QED BY <4>1, <4>2, <4>3
    <3> HIDE DEF k
    <3> QED BY <3>1, <3>2, <3>3 DEF Chained, n
  <2> QED BY <2>1, <2>2
<1>4. EndOf(from, j) = EndOf(EndOf(from, p), q)
  <2>1. CASE n = 0
    <3>1. Len(j) = m /\ (m # 0 => m \in 1..m) /\ (j = << >> <=> p = << >>)
      BY <1>1, <1>2, <2>1
    <3> QED BY <1>1, <1>2, <2>1, <3>1 DEF EndOf, m
  <2>2. CASE n # 0
    <3>1. n \in 1..n /\ j # << >> /\ Len(j) = n + m
      BY <1>1, <1>2, <2>2
    <3>2. j[Len(j)] = q[n]
      BY <1>1, <3>1
    <3> QED BY <1>2, <2>2, <3>1, <3>2 DEF EndOf, n
  <2> QED BY <2>1, <2>2
<1> QED BY <1>1, <1>3, <1>4 DEF Chained, j

\* The order of a chain.
LEMMA ChainOrder ==
  ASSUME NEW from \in Int, NEW seq \in Seq(Samples), NEW burns,
         Chained(from, seq, burns)
  PROVE  \A i, j \in 1..Len(seq) : i < j => seq[i].at < seq[j].at
<1> DEFINE n == Len(seq)
           Has(k) == \A i \in 1..n : i < k => seq[i].at < seq[k].at
           G == {k \in 0..n : k # 0 => Has(k)}
<1>1. n \in Nat /\ \A i \in 1..n : seq[i].at \in Int
  BY SampleFields
<1>2. \A i \in 1..n : Before(from, seq, i) < seq[i].at
  BY DEF Chained, Linked
<1> HIDE DEF n
<1>3. 0 \in G
  BY <1>1
<1>4. ASSUME NEW k \in 0..(n - 1), k \in G PROVE k + 1 \in G
  <2>1. k + 1 \in 1..n /\ k + 1 \in 0..n /\ (k + 1) - 1 = k /\ k \in Nat
    BY <1>1
  <2>2. ASSUME NEW i \in 1..n, i < k + 1 PROVE seq[i].at < seq[k + 1].at
    <3>1. k \in 1..n /\ k # 0 /\ k + 1 # 1
      BY <1>1, <2>2
    <3>2. seq[k].at < seq[k + 1].at
      BY <1>2, <2>1, <3>1 DEF Before
    <3>3. i = k \/ i < k
      BY <1>1, <2>2
    <3>4. i < k => seq[i].at < seq[k].at
      BY <1>4, <3>1
    <3> QED BY <1>1, <2>1, <3>1, <3>2, <3>3, <3>4
  <2> QED BY <2>1, <2>2
<1>5. \A k \in 0..n : k \in G
  <2> HIDE DEF G
  <2> QED BY <1>1, <1>3, <1>4, UpTo
<1>6. \A k \in 1..n : k \in 0..n /\ k # 0
  BY <1>1
<1> QED BY <1>5, <1>6 DEF n

\* n samples an interval apart, the first an interval after a.
IsEven(seq, a, n, how, from) ==
  seq = [k \in 1..n |-> Sample(a + Interval * k, how, from)]

\* They are a chain of n samples.
EvenIsChained(seq, a, n, burns) ==
  /\ seq \in Seq(Samples) /\ Len(seq) = n
  /\ Chained(a, seq, burns)
  /\ EndOf(a, seq) = a + Interval * n

\* Samples an interval apart are a chain, from an interval before the first.
LEMMA EvenChain ==
  ASSUME NEW a \in Int, NEW n \in Nat, NEW from \in Int, NEW burns,
         NEW how \in {"recorded", "interpolated", "forward", "backward", "exact"},
         NEW seq, IsEven(seq, a, n, how, from)
  PROVE  EvenIsChained(seq, a, n, burns)
<1>0. seq = [k \in 1..n |-> Sample(a + Interval * k, how, from)]
  BY DEF IsEven
<1>1. Interval \in Nat \ {0}
  BY TrackAssumption
<1>2. \A k \in 1..n : a + Interval * k \in Int
  BY <1>1
<1>3. \A k \in 1..n : Sample(a + Interval * k, how, from) \in Samples
  BY <1>2 DEF Sample, Samples
<1>4. seq \in Seq(Samples) /\ Len(seq) = n
  <2> HIDE DEF Samples
  <2> QED BY <1>0, <1>3
<1>5. \A k \in 1..n : seq[k].at = a + Interval * k
  BY <1>0 DEF Sample
<1>6. seq = << >> <=> n = 0
  <2> HIDE DEF Samples
  <2> QED BY <1>4
<1>7. ASSUME NEW i \in 1..n PROVE Linked(Before(a, seq, i), seq[i].at, burns)
  <2>1. seq[i].at = a + Interval * i
    BY <1>5
  <2>2. Before(a, seq, i) = a + Interval * (i - 1)
    <3>1. CASE i = 1
      BY <1>1, <3>1 DEF Before
    <3>2. CASE i # 1
      <4>1. i - 1 \in 1..n
        BY <3>2
      <4>2. seq[i - 1].at = a + Interval * (i - 1)
        BY <1>5, <4>1
      <4> QED BY <3>2, <4>2 DEF Before
    <3> QED BY <3>1, <3>2
  <2>3. Interval * i = Interval * (i - 1) + Interval /\ Interval * i \in Int
        /\ Interval * (i - 1) \in Int
    BY <1>1
  <2> DEFINE x == Interval * i
             y == Interval * (i - 1)
  <2> HIDE DEF x, y
  <2>4. x = y + Interval /\ x \in Int /\ y \in Int
    BY <2>3 DEF x, y
  <2>5. a + y < a + x /\ ~((a + x) - (a + y) >= 2 * Interval)
    BY <1>1, <2>4
  <2> QED BY <2>1, <2>2, <2>5 DEF Linked, x, y
<1>8. EndOf(a, seq) = a + Interval * n
  <2>1. n # 0 => n \in 1..n
    OBVIOUS
  <2>2. Interval * 0 = 0
    BY <1>1
  <2> QED BY <1>4, <1>5, <1>6, <2>1, <2>2 DEF EndOf
<1> QED BY <1>4, <1>7, <1>8 DEF Chained, EvenIsChained

\* A chain may start from any epoch that is linked to its first sample.
LEMMA ChainFrom ==
  ASSUME NEW a, NEW b, NEW seq \in Seq(Samples), NEW burns,
         Chained(a, seq, burns),
         seq # << >> => Linked(b, seq[1].at, burns)
  PROVE  Chained(b, seq, burns) /\ (seq # << >> => EndOf(b, seq) = EndOf(a, seq))
<1>1. ASSUME NEW i \in 1..Len(seq) PROVE Linked(Before(b, seq, i), seq[i].at, burns)
  <2>1. seq # << >>
    <3> HIDE DEF Samples
    <3> QED OBVIOUS
  <2>2. CASE i = 1
    BY <2>1, <2>2 DEF Before
  <2>3. CASE i # 1
    BY <2>3 DEF Before, Chained
  <2> QED BY <2>2, <2>3
<1> QED BY <1>1 DEF Chained, EndOf

-----------------------------------------------------------------------------
(* Trajectories: one segment between two recorded points.                  *)

\* Burns of a segment: a set of Nat with a first and a last.
LEMMA BurnsHaveEnds ==
  ASSUME NEW n \in Nat, NEW within \in SUBSET (1..n), within # {}
  PROVE  /\ MinOf(within) \in within /\ \A b \in within : MinOf(within) <= b
         /\ MaxOf(within) \in within /\ \A b \in within : b <= MaxOf(within)
<1>1. within \in SUBSET Nat
  OBVIOUS
<1>2. \E x \in within : \A y \in within : x <= y
  BY <1>1, LeastNatural
<1>3. \E x \in within : \A y \in within : y <= x
  <2>1. Max(within) \in within /\ \A y \in within : Max(within) >= y
    BY SetMax
  <2>2. \A x, y \in within : x >= y => y <= x
    BY <1>1
  <2> QED BY <2>1, <2>2
<1> QED BY <1>2, <1>3 DEF MinOf, MaxOf

\* Propagation up to a limit makes a number of samples, all before it.
LEMMA StepsUpTo ==
  ASSUME NEW steps \in Nat, NEW ks \in SUBSET (1..steps),
         \A k \in ks : \A j \in 1..k : j \in ks
  PROVE  Cardinality(ks) \in Nat /\ ks = 1..Cardinality(ks)
<1>1. CASE ks = {}
  <2>1. ks = 1..0 /\ Cardinality(1..0) = 0
    BY <1>1, FS_Interval
  <2> QED BY <2>1
<1>2. CASE ks # {}
  <2> DEFINE m == Max(ks)
  <2>1. m \in ks /\ \A k \in ks : m >= k
    BY <1>2, SetMax
  <2> HIDE DEF m
  <2>2. ks = 1..m /\ m \in Nat \ {0}
    <3>1. m \in 1..steps /\ \A j \in 1..m : j \in ks
      BY <2>1
    <3>2. \A k \in ks : k \in 1..steps /\ k <= m
      BY <2>1
    <3>3. \A k \in ks : k \in 1..m
      BY <3>1, <3>2
    <3>4. ks = 1..m
      BY <3>1, <3>3
    <3> QED BY <3>1, <3>4
  <2>3. Cardinality(1..m) = m
    BY <2>2, FS_Interval
  <2> QED BY <2>2, <2>3
<1> QED BY <1>1, <1>2

\* Multiples of the interval grow.
LEMMA Multiples ==
  ASSUME NEW j \in Nat, NEW k \in Nat, j <= k
  PROVE  /\ Interval * j \in Nat /\ Interval * k \in Nat
         /\ Interval * j <= Interval * k
         /\ j < k => Interval * j < Interval * k
BY TrackAssumption

\* Forward samples lie before the first burn and before r.
LEMMA ForwardIs ==
  ASSUME NEW l \in Nat, NEW r \in Nat, NEW within, MinOf(within) \in Nat,
         NEW steps \in Nat
  PROVE  \E m \in Nat :
           /\ IsEven(Forward(l, r, within, steps), l, m, "forward", l)
           /\ \A k \in 1..m : l + Interval * k < MinOf(within) /\ l + Interval * k < r
<1> DEFINE ks == {k \in 1..steps :
                    l + Interval * k < MinOf(within) /\ l + Interval * k < r}
           m == Cardinality(ks)
<1>1. \A k \in ks : \A j \in 1..k : j \in ks
  <2> TAKE k \in ks
  <2> TAKE j \in 1..k
  <2>1. j \in Nat /\ k \in Nat /\ j <= k /\ j \in 1..steps
    OBVIOUS
  <2>2. /\ Interval * j \in Nat /\ Interval * k \in Nat
        /\ Interval * j <= Interval * k
    BY <2>1, Multiples
  <2>3. l + Interval * k < MinOf(within) /\ l + Interval * k < r
    OBVIOUS
  <2> DEFINE x == Interval * j
             y == Interval * k
  <2> HIDE DEF x, y
  <2>4. l + x < MinOf(within) /\ l + x < r
    <3>1. x \in Nat /\ y \in Nat /\ x <= y /\ l + y < MinOf(within) /\ l + y < r
      BY <2>2, <2>3 DEF x, y
    <3> QED BY <3>1
  <2> QED BY <2>1, <2>4 DEF x
<1>2. ks \in SUBSET (1..steps)
  OBVIOUS
<1>3. m \in Nat /\ ks = 1..m
  <2> HIDE DEF ks
  <2> QED BY <1>1, <1>2, StepsUpTo
<1>4. Forward(l, r, within, steps)
        = [k \in 1..m |-> Sample(l + Interval * k, "forward", l)]
  BY DEF Forward
<1>5. IsEven(Forward(l, r, within, steps), l, m, "forward", l)
  BY <1>4 DEF IsEven
<1>6. \A k \in ks : l + Interval * k < MinOf(within) /\ l + Interval * k < r
  OBVIOUS
<1> HIDE DEF ks, m
<1> QED BY <1>3, <1>5, <1>6

\* n samples from an interval after a up to an interval before r, all of them
\* after l and the epoch last.
EndsBefore(seq, a, n, l, r, last) ==
  /\ IsEven(seq, a, n, "backward", r)
  /\ a + Interval * n = r - Interval
  /\ n # 0 => a + Interval > last /\ a + Interval > l

\* Backward samples lie after the last burn and after l; a is an interval
\* before the first of them.
LEMMA BackwardIs ==
  ASSUME NEW l \in Nat, NEW r \in Nat, NEW within, MaxOf(within) \in Nat,
         NEW steps \in Nat
  PROVE  \E n \in Nat, a \in Int :
           EndsBefore(Backward(l, r, within, steps), a, n, l, r, MaxOf(within))
<1> DEFINE ks == {k \in 1..steps :
                    r - Interval * k > MaxOf(within) /\ r - Interval * k > l}
           n == Cardinality(ks)
           a == r - Interval * (n + 1)
<1>1. \A k \in ks : \A j \in 1..k : j \in ks
  <2> TAKE k \in ks
  <2> TAKE j \in 1..k
  <2>1. j \in Nat /\ k \in Nat /\ j <= k /\ j \in 1..steps
    OBVIOUS
  <2>2. /\ Interval * j \in Nat /\ Interval * k \in Nat
        /\ Interval * j <= Interval * k
    BY <2>1, Multiples
  <2>3. r - Interval * k > MaxOf(within) /\ r - Interval * k > l
    OBVIOUS
  <2> DEFINE x == Interval * j
             y == Interval * k
  <2> HIDE DEF x, y
  <2>4. r - x > MaxOf(within) /\ r - x > l
    <3>1. x \in Nat /\ y \in Nat /\ x <= y /\ r - y > MaxOf(within) /\ r - y > l
      BY <2>2, <2>3 DEF x, y
    <3> QED BY <3>1
  <2> QED BY <2>1, <2>4 DEF x
<1>2. ks \in SUBSET (1..steps)
  OBVIOUS
<1>3. n \in Nat /\ ks = 1..n
  <2> HIDE DEF ks
  <2> QED BY <1>1, <1>2, StepsUpTo
<1>4. Backward(l, r, within, steps)
        = [k \in 1..n |-> Sample(r - Interval * (n - k + 1), "backward", r)]
  BY DEF Backward
<1>5. \A k \in ks : r - Interval * k > MaxOf(within) /\ r - Interval * k > l
  OBVIOUS
<1> HIDE DEF ks, n
<1>6. Interval \in Nat \ {0}
  BY TrackAssumption
<1>7. \A k \in 1..n : r - Interval * (n - k + 1) = a + Interval * k
  BY <1>3, <1>6
<1>8. Backward(l, r, within, steps)
        = [k \in 1..n |-> Sample(a + Interval * k, "backward", r)]
  <2> HIDE DEF a
  <2> QED BY <1>4, <1>7
<1>9. a \in Int /\ a + Interval * n = r - Interval /\ a + Interval = r - Interval * n
  BY <1>3, <1>6
<1>10. n # 0 => n \in ks
  BY <1>3
<1> HIDE DEF a
<1>11. IsEven(Backward(l, r, within, steps), a, n, "backward", r)
  BY <1>8 DEF IsEven
<1>12. EndsBefore(Backward(l, r, within, steps), a, n, l, r, MaxOf(within))
  BY <1>5, <1>9, <1>10, <1>11 DEF EndsBefore
<1> QED BY <1>3, <1>9, <1>12

\* The samples of a segment from l to r are on the arc they were computed on.
ArcsOf(seq, l, r, burns) ==
  \A s \in ToSet(seq) :
    /\ s.how \in {"forward", "backward", "interpolated"} /\ s.at \in Int
    /\ s.how = "forward" => s.from = l /\ \A b \in burns : ~(l < b /\ b <= s.at)
    /\ s.how = "backward" => s.from = r /\ \A b \in burns : ~(s.at <= b /\ b <= r)
    /\ s.how = "interpolated" =>
         s.from = l /\ s.at < r /\ \A b \in burns : ~(l < b /\ b <= r)

\* What fills a segment is a chain from l that r is linked to.
Fills(seq, l, r, burns) ==
  /\ seq \in Seq(Samples) /\ Chained(l, seq, burns)
  /\ Linked(EndOf(l, seq), r, burns)
  /\ ArcsOf(seq, l, r, burns)

\* What one gets of an even sequence.
LEMMA EvenElements ==
  ASSUME NEW a, NEW n, NEW how, NEW from, NEW seq,
         IsEven(seq, a, n, how, from),
         NEW s \in ToSet(seq)
  PROVE  \E k \in 1..n : s.at = a + Interval * k /\ s.how = how /\ s.from = from
<1>1. PICK k \in 1..n : s = Sample(a + Interval * k, how, from)
  BY DEF ToSet, IsEven
<1> QED BY <1>1 DEF Sample

\* Without a burn, samples are interpolated up to r.
LEMMA BetweenFills ==
  ASSUME NEW l \in Nat, NEW r \in Nat, r - l > Interval, NEW burns \in SUBSET Nat,
         BurnsWithin(burns, l, r) = {}
  PROVE  Fills(Between(l, r), l, r, burns)
<1>1. Interval \in Nat \ {0}
  BY TrackAssumption
<1> DEFINE d == r - l
           n == d \div Interval - 1
           seq == [k \in 1..n |-> Sample(l + Interval * k, "interpolated", l)]
<1>2. Between(l, r) = seq
  BY DEF Between
<1>3. d \in Nat /\ d > Interval
  BY <1>1
<1>4. n \in Nat /\ Interval * n + Interval <= d /\ d < Interval * n + 2 * Interval
  <2> DEFINE t == d \div Interval
             x == Interval * t
  <2>1. t \in Int /\ x <= d /\ d < x + Interval /\ x \in Int
    <3> HIDE DEF d
    <3> QED BY <1>1, <1>3
  <2>2. t >= 1
    <3>1. t <= 0 => x <= 0
      <4> HIDE DEF t
      <4> QED BY <1>1, <2>1
    <3> HIDE DEF x, t, d
    <3> QED BY <1>1, <1>3, <2>1, <3>1
  <2>3. n = t - 1
    OBVIOUS
  <2>4. Interval * n + Interval = x
    <3> HIDE DEF t, n
    <3> QED BY <1>1, <2>1, <2>3
  <2>5. Interval * n \in Int
    <3> HIDE DEF t, n
    <3> QED BY <1>1, <2>1, <2>3
  <2> DEFINE y == Interval * n
  <2> HIDE DEF x, t, d, n, y
  <2>6. n \in Nat
    BY <2>1, <2>2, <2>3
  <2>7. y \in Int /\ y + Interval = x
    BY <2>4, <2>5 DEF y
  <2>8. y + Interval <= d /\ d < y + 2 * Interval
    BY <1>1, <1>3, <2>1, <2>7
  <2> QED BY <2>6, <2>8 DEF y
<1> HIDE DEF n, d
<1>5. /\ seq \in Seq(Samples) /\ Chained(l, seq, burns)
      /\ EndOf(l, seq) = l + Interval * n
  <2> DEFINE how == "interpolated"
  <2>1. how \in {"recorded", "interpolated", "forward", "backward", "exact"}
    OBVIOUS
  <2>2. IsEven(seq, l, n, how, l)
    BY DEF IsEven
  <2>3. n \in Nat /\ l \in Int
    BY <1>4
  <2> HIDE DEF how, seq
  <2>4. EvenIsChained(seq, l, n, burns)
    BY <2>1, <2>2, <2>3, EvenChain
  <2> QED BY <2>4 DEF EvenIsChained
<1>6. Linked(l + Interval * n, r, burns)
  <2> DEFINE x == Interval * n
  <2>1. x \in Nat
    BY <1>1, <1>4
  <2> HIDE DEF x
  <2>2. x + Interval <= d /\ d < x + 2 * Interval
    BY <1>4 DEF x
  <2>3. l + x < r /\ ~(r - (l + x) >= 2 * Interval)
    BY <1>1, <2>1, <2>2 DEF d
  <2> QED BY <2>3 DEF Linked, x
<1>7. \A b \in burns : ~(l < b /\ b <= r)
  BY DEF BurnsWithin
<1>8. ASSUME NEW s \in ToSet(seq)
      PROVE  s.how = "interpolated" /\ s.from = l /\ s.at \in Int /\ s.at < r
  <2>1. PICK k \in 1..n : s.at = l + Interval * k /\ s.how = "interpolated" /\ s.from = l
    <3> DEFINE how == "interpolated"
    <3>1. IsEven(seq, l, n, how, l)
      BY DEF IsEven
    <3> HIDE DEF how, seq
    <3>2. \E k \in 1..n : s.at = l + Interval * k /\ s.how = how /\ s.from = l
      BY <1>8, <3>1, EvenElements
    <3> QED BY <3>2 DEF how
  <2>2. k \in Nat /\ k <= n
    BY <1>4
  <2>3. Interval * k \in Nat /\ Interval * n \in Nat /\ Interval * k <= Interval * n
    BY <1>4, <2>2, Multiples
  <2> DEFINE x == Interval * k
             y == Interval * n
  <2> HIDE DEF x, y
  <2>4. x \in Nat /\ y \in Nat /\ x <= y /\ y + Interval <= d
    BY <1>4, <2>3 DEF x, y
  <2>5. l + x \in Int /\ l + x < r
    BY <1>1, <2>4 DEF d
  <2> QED BY <2>1, <2>5 DEF x
<1> HIDE DEF seq
<1>9. ArcsOf(seq, l, r, burns)
  BY <1>7, <1>8 DEF ArcsOf
<1> QED BY <1>2, <1>5, <1>6, <1>9 DEF Fills

\* With burns, samples are propagated from both ends up to them.
LEMMA BurntFills ==
  ASSUME NEW l \in Nat, NEW r \in Nat, l < r, NEW burns \in SUBSET Nat,
         NEW within, within = BurnsWithin(burns, l, r), within # {},
         NEW steps \in Nat
  PROVE  Fills(Forward(l, r, within, steps) \o Backward(l, r, within, steps), l, r, burns)
<1>1. Interval \in Nat \ {0}
  BY TrackAssumption
<1> DEFINE first == MinOf(within)
           last == MaxOf(within)
           p == Forward(l, r, within, steps)
           q == Backward(l, r, within, steps)
<1>2. \A b \in within : b \in burns /\ b \in Nat /\ l < b /\ b <= r
  BY DEF BurnsWithin
<1>3. /\ first \in within /\ \A b \in within : first <= b
      /\ last \in within /\ \A b \in within : b <= last
  <2>1. within \in SUBSET (1..r)
    BY <1>2
  <2> QED BY <2>1, BurnsHaveEnds
<1>4. /\ first \in Nat /\ last \in Nat /\ first \in burns
      /\ l < first /\ first <= last /\ last <= r
  BY <1>2, <1>3
<1>5. \A b \in burns : l < b /\ b <= r => first <= b /\ b <= last
  BY <1>3 DEF BurnsWithin
<1> HIDE DEF first, last
<1>6. PICK m \in Nat :
        /\ IsEven(p, l, m, "forward", l)
        /\ \A k \in 1..m : l + Interval * k < first /\ l + Interval * k < r
  BY <1>4, ForwardIs DEF first
<1>7. PICK n \in Nat, a \in Int :
        /\ IsEven(q, a, n, "backward", r)
        /\ a + Interval * n = r - Interval
        /\ n # 0 => a + Interval > last /\ a + Interval > l
  <2>1. PICK n \in Nat, a \in Int : EndsBefore(q, a, n, l, r, last)
    BY <1>4, BackwardIs DEF last
  <2> QED BY <2>1 DEF EndsBefore
<1> HIDE DEF p, q
<1>8. EvenIsChained(p, l, m, burns)
  <2> DEFINE how == "forward"
  <2>1. how \in {"recorded", "interpolated", "forward", "backward", "exact"}
    OBVIOUS
  <2>2. IsEven(p, l, m, how, l)
    BY <1>6
  <2>3. l \in Int
    OBVIOUS
  <2> HIDE DEF how
  <2> QED BY <2>1, <2>2, <2>3, EvenChain
<1>9. EvenIsChained(q, a, n, burns)
  <2> DEFINE how == "backward"
  <2>1. how \in {"recorded", "interpolated", "forward", "backward", "exact"}
    OBVIOUS
  <2>2. IsEven(q, a, n, how, r)
    BY <1>7
  <2>3. r \in Int
    OBVIOUS
  <2> HIDE DEF how
  <2> QED BY <2>1, <2>2, <2>3, EvenChain
<1> DEFINE e == EndOf(l, p)
<1>10. e \in Int /\ e < first /\ l <= e
  <2>1. e = l + Interval * m
    BY <1>8 DEF EvenIsChained
  <2>2. Interval * m \in Nat
    BY <1>1
  <2>3. CASE m = 0
    <3>1. Interval * m = 0
      BY <1>1, <2>3
    <3> QED BY <1>4, <2>1, <3>1
  <2>4. CASE m # 0
    <3>1. m \in 1..m
      BY <2>4
    <3>2. l + Interval * m < first
      BY <1>6, <3>1
    <3> DEFINE x == Interval * m
    <3> HIDE DEF x, e
    <3>3. x \in Nat /\ e = l + x /\ l + x < first
      BY <2>1, <2>2, <3>2 DEF x
    <3> QED BY <3>3
  <2> QED BY <2>3, <2>4
<1> HIDE DEF e
<1>11. /\ q \in Seq(Samples) /\ Len(q) = n
       /\ p \in Seq(Samples) /\ Chained(l, p, burns)
  BY <1>8, <1>9 DEF EvenIsChained
<1>12. q = << >> <=> n = 0
  <2> HIDE DEF Samples
  <2> QED BY <1>11
\* From the last sample before the burns to any epoch after them.
<1>13. ASSUME NEW f \in Int, last <= f PROVE Linked(e, f, burns)
  <2>1. e < f /\ e <= first /\ first <= f
    BY <1>4, <1>10, <1>13
  <2> QED BY <1>4, <2>1 DEF Linked
<1>14. Chained(e, q, burns) /\ Linked(EndOf(e, q), r, burns)
  <2>1. CASE n = 0
    <3>1. Linked(e, r, burns)
      BY <1>4, <1>13
    <3>2. EndOf(e, q) = e
      BY <1>12, <2>1 DEF EndOf
    <3>3. Chained(e, q, burns)
      BY <1>11, <2>1 DEF Chained
    <3> QED BY <3>1, <3>2, <3>3
  <2>2. CASE n # 0
    <3>1. q[1].at = a + Interval
      <4>1. 1 \in 1..n
        BY <2>2
      <4>2. q[1] = Sample(a + Interval * 1, "backward", r)
        BY <1>7, <4>1 DEF IsEven
      <4>3. Interval * 1 = Interval
        BY <1>1
      <4> QED BY <4>2, <4>3 DEF Sample
    <3>2. Linked(e, q[1].at, burns)
      <4>1. a + Interval \in Int /\ last <= a + Interval
        <5>1. a + Interval > last
          BY <1>7, <2>2
        <5> QED BY <1>1, <1>4, <5>1
      <4> QED BY <1>13, <3>1, <4>1
    <3>3. Chained(a, q, burns)
      BY <1>9 DEF EvenIsChained
    <3>4. Chained(e, q, burns) /\ EndOf(e, q) = EndOf(a, q)
      BY <1>11, <1>12, <2>2, <3>2, <3>3, ChainFrom
    <3>5. EndOf(a, q) = r - Interval
      BY <1>7, <1>9 DEF EvenIsChained
    <3>6. Linked(r - Interval, r, burns)
      BY <1>1 DEF Linked
    <3> QED BY <3>4, <3>5, <3>6
  <2> QED BY <2>1, <2>2
<1>15. /\ p \o q \in Seq(Samples) /\ Chained(l, p \o q, burns)
       /\ EndOf(l, p \o q) = EndOf(e, q)
  BY <1>11, <1>14, ChainConcat DEF e
<1>16. ASSUME NEW s \in ToSet(p)
       PROVE  /\ s.how = "forward" /\ s.from = l /\ s.at \in Int
              /\ \A b \in burns : ~(l < b /\ b <= s.at)
  <2>1. PICK k \in 1..m : s.at = l + Interval * k /\ s.how = "forward" /\ s.from = l
    <3> DEFINE how == "forward"
    <3>1. IsEven(p, l, m, how, l)
      BY <1>6
    <3> HIDE DEF how
    <3>2. \E k \in 1..m : s.at = l + Interval * k /\ s.how = how /\ s.from = l
      BY <1>16, <3>1, EvenElements
    <3> QED BY <3>2 DEF how
  <2>2. l + Interval * k < first /\ l + Interval * k < r
    BY <1>6
  <2>3. l + Interval * k \in Int
    BY <1>1
  <2>4. s.at \in Int /\ s.at < first /\ s.at < r
    BY <2>1, <2>2, <2>3
  <2>5. ASSUME NEW b \in burns, l < b, b <= s.at PROVE FALSE
    <3>1. b <= r
      BY <2>4, <2>5
    <3>2. first <= b
      BY <1>5, <2>5, <3>1
    <3> QED BY <1>4, <2>4, <2>5, <3>2
  <2> QED BY <2>1, <2>4, <2>5
<1>17. ASSUME NEW s \in ToSet(q)
       PROVE  /\ s.how = "backward" /\ s.from = r /\ s.at \in Int
              /\ \A b \in burns : ~(s.at <= b /\ b <= r)
  <2>1. PICK k \in 1..n : s.at = a + Interval * k /\ s.how = "backward" /\ s.from = r
    <3> DEFINE how == "backward"
    <3>1. IsEven(q, a, n, how, r)
      BY <1>7
    <3> HIDE DEF how
    <3>2. \E k \in 1..n : s.at = a + Interval * k /\ s.how = how /\ s.from = r
      BY <1>17, <3>1, EvenElements
    <3> QED BY <3>2 DEF how
  <2>2. s.at \in Int /\ a + Interval <= s.at
    <3> DEFINE x == Interval * k
    <3>1. Interval * 1 <= Interval * k /\ Interval * k \in Nat /\ Interval * 1 = Interval
      BY <1>1, Multiples
    <3> HIDE DEF x
    <3>2. x \in Nat /\ Interval <= x /\ s.at = a + x
      BY <2>1, <3>1 DEF x
    <3> QED BY <1>1, <3>2
  <2>3. last < s.at /\ l < s.at
    <3>1. a + Interval > last /\ a + Interval > l
      BY <1>7
    <3> QED BY <1>1, <1>4, <2>2, <3>1
  <2>4. ASSUME NEW b \in burns, s.at <= b, b <= r PROVE FALSE
    <3>1. l < b
      BY <2>2, <2>3, <2>4
    <3>2. b <= last
      BY <1>5, <2>4, <3>1
    <3> QED BY <1>4, <2>2, <2>3, <2>4, <3>2
  <2> QED BY <2>1, <2>2, <2>4
<1>18. ToSet(p \o q) = ToSet(p) \cup ToSet(q)
  <2> HIDE DEF Samples
  <2> QED BY <1>11, ConcatElements
<1>19. ArcsOf(p \o q, l, r, burns)
  <2> SUFFICES ASSUME NEW s \in ToSet(p) \cup ToSet(q)
      PROVE
    /\ s.how \in {"forward", "backward", "interpolated"} /\ s.at \in Int
    /\ s.how = "forward" => s.from = l /\ \A b \in burns : ~(l < b /\ b <= s.at)
    /\ s.how = "backward" => s.from = r /\ \A b \in burns : ~(s.at <= b /\ b <= r)
    /\ s.how = "interpolated" =>
         s.from = l /\ s.at < r /\ \A b \in burns : ~(l < b /\ b <= r)
    BY <1>18 DEF ArcsOf
  <2> QED BY <1>16, <1>17
<1>20. Fills(p \o q, l, r, burns)
  BY <1>14, <1>15, <1>19 DEF Fills
<1> QED BY <1>20 DEF p, q

\* Whatever happened between two recorded points.
LEMMA InsideFills ==
  ASSUME NEW l \in Nat, NEW r \in Nat, l < r, NEW burns \in SUBSET Nat,
         NEW steps \in Nat
  PROVE  Fills(Inside(l, r, burns, steps), l, r, burns)
<1> DEFINE within == BurnsWithin(burns, l, r)
<1>1. CASE within # {}
  <2> DEFINE fill == Forward(l, r, within, steps) \o Backward(l, r, within, steps)
  <2>1. Inside(l, r, burns, steps) = fill
    BY <1>1 DEF Inside
  <2>2. Fills(fill, l, r, burns)
    <3>1. within = BurnsWithin(burns, l, r)
      OBVIOUS
    <3> HIDE DEF within
    <3> QED BY <1>1, <3>1, BurntFills
  <2> HIDE DEF fill
  <2> QED BY <2>1, <2>2
<1>2. CASE within = {} /\ r - l > Interval
  <2>1. Inside(l, r, burns, steps) = Between(l, r)
    BY <1>2 DEF Inside
  <2> QED BY <1>2, <2>1, BetweenFills
<1>3. CASE within = {} /\ ~(r - l > Interval)
  <2>1. Inside(l, r, burns, steps) = << >>
    BY <1>3 DEF Inside
  <2>2. << >> \in Seq(Samples) /\ ToSet(<< >>) = {} /\ Len(<< >>) = 0
    BY DEF ToSet
  <2>3. Linked(l, r, burns)
    <3>1. ~(r - l >= 2 * Interval)
      BY <1>3, TrackAssumption
    <3> QED BY <3>1 DEF Linked
  <2>4. EndOf(l, << >>) = l /\ Chained(l, << >>, burns) /\ ArcsOf(<< >>, l, r, burns)
    BY <2>2 DEF EndOf, Chained, ArcsOf
  <2> QED BY <2>1, <2>2, <2>3, <2>4 DEF Fills
<1> QED BY <1>1, <1>2, <1>3

-----------------------------------------------------------------------------
(* Trajectories: all the segments, and the window.                         *)

\* The end of a trail is a trail.
LEMMA SuffixKnown ==
  ASSUME NEW trail, NEW now, TrailKnown(trail, now), NEW d \in 0..Len(trail),
         NEW out \in Seq(Nat), IsEnd(out, trail, d)
  PROVE  TrailKnown(out, now)
<1>1. /\ Len(trail) \in Nat /\ now \in Nat /\ Len(out) = Len(trail) - d
      /\ \A j \in 1..Len(out) : out[j] = trail[j + d] /\ j + d \in 1..Len(trail)
  <2>1. Len(trail) \in Nat /\ now \in Nat /\ Len(out) = Len(trail) - d
    BY DEF TrailKnown, IsEnd
  <2>2. \A j \in 1..Len(out) : j + d \in 1..Len(trail)
    BY <2>1
  <2> QED BY <2>1, <2>2 DEF IsEnd
<1>2. Ascending(out)
  <2> SUFFICES ASSUME NEW i \in 1..Len(out), NEW j \in 1..Len(out), i < j
      PROVE  out[i] < out[j]
    BY DEF Ascending
  <2>1. i + d \in 1..Len(trail) /\ j + d \in 1..Len(trail)
    BY <1>1
  <2>2. i + d < j + d
    BY <1>1
  <2>3. trail[i + d] < trail[j + d]
    BY <2>1, <2>2 DEF TrailKnown, Ascending
  <2> QED BY <1>1, <2>3
<1>3. ASSUME out # << >> PROVE out[Len(out)] = now
  <2>1. Len(out) \in 1..Len(out)
    BY <1>3
  <2>2. Len(out) + d = Len(trail) /\ trail # << >>
    BY <1>1, <2>1
  <2> QED BY <1>1, <2>1, <2>2 DEF TrailKnown
<1> QED BY <1>1, <1>2, <1>3 DEF TrailKnown

\* The points in use are the recorded ones of the window and perhaps one more.
LEMMA AnchorsAre ==
  ASSUME NEW trail, NEW now, TrailKnown(trail, now)
  PROVE  /\ TrailKnown(Anchors(trail, now), now)
         /\ TrailKnown(Last90(trail, now), now)
         /\ ToSet(Last90(trail, now)) \subseteq ToSet(Anchors(trail, now))
         /\ Len(Last90(trail, now)) <= Len(Anchors(trail, now))
<1> DEFINE new == Last90(trail, now)
           set == {t \in ToSet(trail) : t < now - Window}
           old == Among(trail, set)
           n == Len(trail)
<1>1. trail \in Seq(Nat) /\ Ascending(trail) /\ now \in Nat
  BY DEF TrailKnown
<1>2. Window \in Nat
  BY TrackAssumption
<1>3. n \in Nat /\ \A i \in 1..n : trail[i] \in Nat /\ trail[i] \in ToSet(trail)
  BY <1>1, ElementsOf
<1>4. new \in Seq(Nat)
  BY <1>1, Last90Is
<1>5. PICK d \in 0..n :
        /\ IsEnd(new, trail, d)
        /\ \A i \in 1..n : trail[i] >= now - Window <=> d < i
  BY <1>1, Last90Is
<1>6. \A i \in 1..n : trail[i] \in set <=> trail[i] < now - Window
  BY <1>3
<1>7. Anchors(trail, now)
        = IF old # << >> /\ new # << >> THEN <<Last(old)>> \o new ELSE new
  BY DEF Anchors
<1> HIDE DEF set
<1>8. \A i, j \in 1..n : i < j /\ trail[j] \in set => trail[i] \in set
  BY <1>1, <1>2, <1>3, <1>6 DEF Ascending
<1>9. PICK e \in 0..n :
        /\ IsBeginning(old, trail, e)
        /\ \A i \in 1..n : trail[i] \in set <=> i <= e
  BY <1>1, <1>8, AmongPrefix
<1>10. old \in Seq(Nat)
  BY <1>1, AmongProperties DEF Drawn
<1> HIDE DEF new, old, n
<1>11. e = d
  <2>1. \A i \in 1..n : d < i <=> ~(i <= e)
    BY <1>1, <1>2, <1>3, <1>5, <1>6, <1>9
  <2>2. d # 0 => d \in 1..n
    OBVIOUS
  <2>3. e # 0 => e \in 1..n
    OBVIOUS
  <2> QED BY <1>3, <2>1, <2>2, <2>3
<1>12. TrailKnown(new, now)
  BY <1>4, <1>5, SuffixKnown DEF n
<1>13. CASE old # << >> /\ new # << >>
  <2> DEFINE a == <<Last(old)>> \o new
             m == Len(new)
  <2>1. Len(old) = d /\ d \in 1..n /\ m = n - d /\ m \in Nat
    <3>1. Len(old) = e /\ Len(old) # 0
      BY <1>9, <1>10, <1>13 DEF IsBeginning
    <3> QED BY <1>3, <1>4, <1>5, <1>11, <3>1 DEF IsEnd, n
  <2>2. Last(old) = trail[d]
    BY <1>9, <1>11, <2>1 DEF IsBeginning, Last
  <2>3. Last(old) \in Nat
    BY <1>3, <2>1, <2>2
  <2> DEFINE one == <<Last(old)>>
  <2>4. one \in Seq(Nat) /\ Len(one) = 1 /\ one[1] = trail[d]
    BY <2>2, <2>3
  <2> HIDE DEF one
  <2>5. /\ a \in Seq(Nat) /\ Len(a) = 1 + m
        /\ \A i \in 1..1 : a[i] = one[i]
        /\ \A i \in 1..m : a[i + 1] = new[i]
        /\ ToSet(a) = ToSet(one) \cup ToSet(new)
    <3>1. a = one \o new
      BY DEF one
    <3>2. /\ one \o new \in Seq(Nat) /\ Len(one \o new) = Len(one) + Len(new)
          /\ \A i \in 1..Len(one) : (one \o new)[i] = one[i]
          /\ \A i \in 1..Len(new) : (one \o new)[i + Len(one)] = new[i]
          /\ ToSet(one \o new) = ToSet(one) \cup ToSet(new)
      <4> DEFINE V == Nat
      <4>1. one \in Seq(V) /\ new \in Seq(V)
        BY <1>4, <2>4
      <4> HIDE DEF V
      <4>2. one \o new \in Seq(V)
        BY <4>1, ConcatElements
      <4> QED BY <4>1, <4>2, ConcatElements DEF V
    <3> HIDE DEF a
    <3> QED BY <2>4, <3>1, <3>2
  <2> HIDE DEF a, m
  <2>6. IsEnd(a, trail, d - 1) /\ d - 1 \in 0..n
    <3>1. Len(a) = n - (d - 1) /\ d - 1 \in 0..n
      BY <1>3, <2>1, <2>5
    <3>2. ASSUME NEW j \in 1..Len(a) PROVE a[j] = trail[j + (d - 1)]
      <4>1. CASE j = 1
        <5>1. j + (d - 1) = d /\ 1 \in 1..1
          BY <1>3, <2>1, <4>1
        <5> QED BY <2>4, <2>5, <4>1, <5>1
      <4>2. CASE j # 1
        <5>1. j - 1 \in 1..m /\ (j - 1) + 1 = j /\ (j - 1) + d = j + (d - 1)
          BY <2>1, <2>5, <4>2
        <5>2. a[j] = new[j - 1]
          BY <2>5, <5>1
        <5>3. new[j - 1] = trail[(j - 1) + d]
          BY <1>5, <5>1 DEF IsEnd, m
        <5> QED BY <5>1, <5>2, <5>3
      <4> QED BY <4>1, <4>2
    <3> QED BY <3>1, <3>2 DEF IsEnd, n
  <2>7. TrailKnown(a, now)
    BY <2>5, <2>6, SuffixKnown DEF n
  <2>8. Anchors(trail, now) = a
    BY <1>7, <1>13 DEF a
  <2>9. Len(new) <= Len(a)
    BY <2>1, <2>5 DEF m
  <2> QED BY <1>12, <2>5, <2>7, <2>8, <2>9 DEF new
<1>14. CASE ~(old # << >> /\ new # << >>)
  <2>1. Anchors(trail, now) = new
    BY <1>7, <1>14
  <2>2. Len(new) <= Len(new)
    BY <1>4
  <2> QED BY <1>12, <2>1, <2>2 DEF new
<1> QED BY <1>13, <1>14

\* The sample of a recorded epoch, and the ends of the segments in order.
Mark(t) == Sample(t, "recorded", t)
Segments(points) == [i \in 1..(Len(points) - 1) |-> i + 1]

\* The recursion of Resampled.
Filling(h, points, burns, steps) ==
  h = [s \in SUBSET (DOMAIN Segments(points)) |->
         IF s = {} THEN <<Mark(points[1])>>
         ELSE LET out == h[s \ {Max(s)}]
                  i == Segments(points)[Max(s)]
              IN  out \o Inside(points[i - 1], points[i], burns, steps)
                      \o <<Mark(points[i])>>]

\* The samples from an epoch on.
Kept90(all, from) == Among(all, {s \in ToSet(all) : s.at >= from})

\* What Resampled evaluates to filters a solution of its recursion.
LEMMA FillingTable ==
  ASSUME NEW points, NEW burns, NEW from, NEW steps,
         \E g : Filling(g, points, burns, steps)
  PROVE  \E h : /\ Resampled(points, burns, from, steps)
                     = Kept90(h[DOMAIN Segments(points)], from)
                /\ Filling(h, points, burns, steps)
BY DEF Resampled, FoldLeft, MapThenFoldSet, Filling, Kept90, Mark, Segments

\* The sample of a recorded epoch.
LEMMA MarkIs ==
  ASSUME NEW t \in Nat, NEW burns
  PROVE  /\ <<Mark(t)>> \in Seq(Samples) /\ Len(<<Mark(t)>>) = 1
         /\ <<Mark(t)>>[1].at = t /\ ToSet(<<Mark(t)>>) = {Mark(t)}
         /\ Mark(t).at = t /\ Mark(t).how = "recorded" /\ Mark(t) \in Samples
<1>1. Mark(t) \in Samples
  BY DEF Mark, Sample, Samples
<1>2. <<Mark(t)>> \in Seq(Samples) /\ Len(<<Mark(t)>>) = 1 /\ <<Mark(t)>>[1] = Mark(t)
  <2> HIDE DEF Samples
  <2> QED BY <1>1
<1>3. ToSet(<<Mark(t)>>) = {Mark(t)}
  BY DEF ToSet
<1>4. Mark(t).at = t /\ Mark(t).how = "recorded"
  BY DEF Mark, Sample
<1> QED BY <1>1, <1>2, <1>3, <1>4

\* One more segment, from points[k] to points[k + 1].
Extended(out, k, points, burns, steps) ==
  out \o Inside(points[k], points[k + 1], burns, steps) \o <<Mark(points[k + 1])>>

\* Recorded points to fill the time between.
PointsKnown(points, burns, steps) ==
  /\ points \in Seq(Nat) /\ Ascending(points) /\ Len(points) >= 1
  /\ burns \in SUBSET Nat /\ steps \in Nat

\* Between two points in use lies what fills their segment.
LEMMA PointsAre ==
  ASSUME NEW points, NEW burns, NEW steps, PointsKnown(points, burns, steps)
  PROVE  /\ Len(points) \in Nat \ {0}
         /\ \A k \in 1..Len(points) : points[k] \in Nat
         /\ \A k \in 1..(Len(points) - 1) :
              /\ points[k] \in Nat /\ points[k + 1] \in Nat
              /\ points[k] < points[k + 1]
              /\ Fills(Inside(points[k], points[k + 1], burns, steps),
                       points[k], points[k + 1], burns)
<1>1. Len(points) \in Nat \ {0} /\ \A k \in 1..Len(points) : points[k] \in Nat
  BY DEF PointsKnown
<1>2. ASSUME NEW k \in 1..(Len(points) - 1)
      PROVE  /\ points[k] \in Nat /\ points[k + 1] \in Nat
             /\ points[k] < points[k + 1]
             /\ Fills(Inside(points[k], points[k + 1], burns, steps),
                      points[k], points[k + 1], burns)
  <2>1. k \in 1..Len(points) /\ k + 1 \in 1..Len(points) /\ k < k + 1
    BY <1>1
  <2>2. points[k] \in Nat /\ points[k + 1] \in Nat /\ points[k] < points[k + 1]
    BY <1>1, <2>1 DEF PointsKnown, Ascending
  <2> QED BY <2>2, InsideFills DEF PointsKnown
<1> QED BY <1>1, <1>2

\* The recursion has a solution.
LEMMA FillingExists ==
  ASSUME NEW points, NEW burns, NEW steps, PointsKnown(points, burns, steps)
  PROVE  \E g : Filling(g, points, burns, steps)
<1> DEFINE n == Len(points) - 1
           V == Seq(Samples)
           base == <<Mark(points[1])>>
           F == [k \in 1..n |-> [v \in V |-> Extended(v, k, points, burns, steps)]]
<1>1. n \in Nat
  BY PointsAre
<1>2. ASSUME NEW v \in V, NEW k \in 1..n
      PROVE  Extended(v, k, points, burns, steps) \in V
  <2> DEFINE fill == Inside(points[k], points[k + 1], burns, steps)
             one == <<Mark(points[k + 1])>>
  <2>1. fill \in Seq(Samples) /\ points[k + 1] \in Nat
    BY PointsAre DEF Fills
  <2>2. one \in Seq(Samples)
    BY <2>1, MarkIs
  <2> HIDE DEF fill, one, n
  <2>3. v \o fill \in Seq(Samples)
    BY <2>1, ConcatElements
  <2>4. v \o fill \o one \in Seq(Samples)
    BY <2>2, <2>3, ConcatElements
  <2> QED BY <2>4 DEF Extended, fill, one
<1>3. base \in V
  <2>1. points[1] \in Nat
    BY PointsAre
  <2> QED BY <2>1, MarkIs
<1> HIDE DEF V, base, n
<1>4. F \in [1..n -> [V -> V]]
  BY <1>2
<1>5. \A k \in 1..n, v \in V : F[k][v] = Extended(v, k, points, burns, steps)
  OBVIOUS
<1> HIDE DEF F
<1>6. Foldable(n, V, base, F)
  BY <1>1, <1>3, <1>4 DEF Foldable
<1>7. PICK g : IsTable(g, n, V, base, F)
  BY <1>6, FoldTable
<1>8. DOMAIN Segments(points) = 1..n
  BY DEF Segments, n
<1>9. ASSUME NEW s \in SUBSET (1..n), s # {}
      PROVE  g[s] = LET out == g[s \ {Max(s)}]
                        i == Segments(points)[Max(s)]
                    IN  out \o Inside(points[i - 1], points[i], burns, steps)
                            \o <<Mark(points[i])>>
  <2>1. Max(s) \in 1..n
    BY <1>1, <1>9, SetMax
  <2>2. g[s \ {Max(s)}] \in V
    BY <1>7 DEF IsTable
  <2>3. g[s] = Extended(g[s \ {Max(s)}], Max(s), points, burns, steps)
    BY <1>5, <1>7, <1>9, <2>1, <2>2 DEF IsTable
  <2>4. Segments(points)[Max(s)] = Max(s) + 1 /\ (Max(s) + 1) - 1 = Max(s)
    BY <1>1, <2>1 DEF Segments, n
  <2> DEFINE m == Max(s)
             i == Segments(points)[m]
  <2> HIDE DEF m, i
  <2>5. i = m + 1 /\ i - 1 = m
    BY <2>4 DEF i, m
  <2>6. g[s] = g[s \ {m}] \o Inside(points[i - 1], points[i], burns, steps)
                 \o <<Mark(points[i])>>
    BY <2>3, <2>5 DEF Extended, m
  <2> QED BY <2>6 DEF i, m
<1>10. g = [s \in SUBSET (1..n) |-> g[s]] /\ g[{}] = base
  BY <1>7 DEF IsTable
<1>11. Filling(g, points, burns, steps)
  BY <1>8, <1>9, <1>10 DEF Filling, base
<1> QED BY <1>11

\* The samples up to points[k + 1] are a chain through the points, each on its arc.
UpToPoint(out, k, points, burns) ==
  /\ out \in Seq(Samples) /\ out # << >>
  /\ Chained(points[1] - 1, out, burns)
  /\ EndOf(points[1] - 1, out) = points[k + 1]
  /\ \A j \in 1..(k + 1) : \E s \in ToSet(out) : s.at = points[j]
  /\ \A s \in ToSet(out) : OnItsArc(s, points, burns)

\* What fills a segment is on its arc.
LEMMA FillsOnArc ==
  ASSUME NEW l \in Nat, NEW r \in Nat, NEW burns \in SUBSET Nat, NEW seq,
         Fills(seq, l, r, burns), NEW points, r \in ToSet(points),
         NEW s \in ToSet(seq)
  PROVE  OnItsArc(s, points, burns)
<1>1. /\ s.how \in {"forward", "backward", "interpolated"} /\ s.at \in Int
      /\ s.how = "forward" => s.from = l /\ \A b \in burns : ~(l < b /\ b <= s.at)
      /\ s.how = "backward" => s.from = r /\ \A b \in burns : ~(s.at <= b /\ b <= r)
      /\ s.how = "interpolated" =>
           s.from = l /\ s.at < r /\ \A b \in burns : ~(l < b /\ b <= r)
  BY DEF Fills, ArcsOf
<1>2. CASE s.how = "forward"
  <2>1. BurnsWithin(burns, s.from, s.at) = {}
    BY <1>1, <1>2 DEF BurnsWithin
  <2> QED BY <1>2, <2>1 DEF OnItsArc
<1>3. CASE s.how = "backward"
  <2>1. \A b \in burns : ~(s.at <= b /\ b <= s.from)
    BY <1>1, <1>3
  <2> QED BY <1>3, <2>1 DEF OnItsArc
<1>4. CASE s.how = "interpolated"
  <2>1. \A b \in burns : s.from < b => s.at < r /\ r < b
    BY <1>1, <1>4
  <2> QED BY <1>4, <2>1 DEF OnItsArc
<1> QED BY <1>1, <1>2, <1>3, <1>4

\* One more segment reaches the next point.
LEMMA ExtendedIs ==
  ASSUME NEW points, NEW burns, NEW steps, PointsKnown(points, burns, steps),
         NEW k \in 1..(Len(points) - 1), NEW out, UpToPoint(out, k - 1, points, burns)
  PROVE  UpToPoint(Extended(out, k, points, burns, steps), k, points, burns)
<1> DEFINE l == points[k]
           r == points[k + 1]
           a == points[1] - 1
           fill == Inside(l, r, burns, steps)
           one == <<Mark(r)>>
<1>1. /\ Len(points) \in Nat \ {0} /\ points[1] \in Nat
      /\ l \in Nat /\ r \in Nat /\ l < r /\ Fills(fill, l, r, burns)
  BY PointsAre
<1>2. k \in Nat /\ (k - 1) + 1 = k
  BY <1>1
<1>3. /\ out \in Seq(Samples) /\ Chained(a, out, burns) /\ EndOf(a, out) = l
  BY <1>2 DEF UpToPoint
<1>4. a \in Int /\ r \in ToSet(points)
  <2>1. k + 1 \in 1..Len(points)
    BY <1>1
  <2> QED BY <1>1, <2>1, ElementsOf DEF PointsKnown
<1>5. one \in Seq(Samples) /\ Len(one) = 1 /\ one[1].at = r /\ ToSet(one) = {Mark(r)}
  BY <1>1, MarkIs
<1>6. one # << >>
  OBVIOUS
<1> HIDE DEF fill, one, a, l, r
<1>7. /\ fill \in Seq(Samples) /\ Chained(l, fill, burns)
      /\ Linked(EndOf(l, fill), r, burns)
  BY <1>1 DEF Fills
<1>8. /\ out \o fill \in Seq(Samples) /\ Chained(a, out \o fill, burns)
      /\ EndOf(a, out \o fill) = EndOf(l, fill)
  BY <1>3, <1>4, <1>7, ChainConcat
<1> DEFINE e == EndOf(l, fill)
<1>9. Chained(e, one, burns) /\ EndOf(e, one) = r
  <2>1. 1..1 = {1}
    OBVIOUS
  <2>2. Chained(e, one, burns)
    BY <1>5, <1>7, <2>1 DEF Chained, Before
  <2> QED BY <1>5, <1>6, <2>2 DEF EndOf
<1> HIDE DEF e
<1> DEFINE all == (out \o fill) \o one
<1>10. /\ all \in Seq(Samples) /\ Chained(a, all, burns) /\ EndOf(a, all) = r
  BY <1>4, <1>5, <1>8, <1>9, ChainConcat DEF e
<1>11. ToSet(all) = (ToSet(out) \cup ToSet(fill)) \cup {Mark(r)}
  <2>1. ToSet(out \o fill) = ToSet(out) \cup ToSet(fill)
    BY <1>3, <1>7, ConcatElements
  <2> DEFINE p == out \o fill
  <2>2. ToSet(all) = ToSet(p) \cup ToSet(one)
    <3>1. p \in Seq(Samples) /\ all = p \o one
      BY <1>8
    <3> HIDE DEF p, all
    <3> QED BY <1>5, <3>1, ConcatElements
  <2> QED BY <1>5, <2>1, <2>2
<1>12. all # << >>
  <2> DEFINE p == out \o fill
  <2>1. Len(all) = Len(p) + Len(one) /\ Len(p) \in Nat
    <3>1. p \in Seq(Samples) /\ all = p \o one
      BY <1>8
    <3> HIDE DEF p, all
    <3> QED BY <1>5, <3>1, ConcatElements
  <2>2. Len(all) # 0
    BY <1>5, <2>1
  <2>3. Len(<< >>) = 0
    OBVIOUS
  <2> HIDE DEF all
  <2> QED BY <2>2, <2>3
<1>13. \A j \in 1..(k + 1) : \E s \in ToSet(all) : s.at = points[j]
  <2> TAKE j \in 1..(k + 1)
  <2>1. CASE j = k + 1
    <3>1. Mark(r).at = r /\ Mark(r) \in ToSet(all)
      BY <1>1, <1>11, MarkIs
    <3> QED BY <2>1, <3>1 DEF r
  <2>2. CASE j # k + 1
    <3>1. j \in 1..((k - 1) + 1)
      BY <1>2, <2>2
    <3>2. \E s \in ToSet(out) : s.at = points[j]
      BY <3>1 DEF UpToPoint
    <3> QED BY <1>11, <3>2
  <2> QED BY <2>1, <2>2
<1>14. ASSUME NEW s \in ToSet(all) PROVE OnItsArc(s, points, burns)
  <2>1. CASE s \in ToSet(out)
    BY <2>1 DEF UpToPoint
  <2>2. CASE s \in ToSet(fill)
    BY <1>1, <1>4, <2>2, FillsOnArc DEF PointsKnown
  <2>3. CASE s = Mark(r)
    <3>1. s.how = "recorded"
      BY <1>1, <2>3, MarkIs
    <3> QED BY <3>1 DEF OnItsArc
  <2> QED BY <1>11, <1>14, <2>1, <2>2, <2>3
<1> HIDE DEF all
<1>15. UpToPoint(all, k, points, burns)
  BY <1>10, <1>12, <1>13, <1>14 DEF UpToPoint, a, r
<1> QED BY <1>15 DEF all, fill, one, l, r, Extended

\* The whole sequence, before it is cut to the window.
LEMMA ResampledIs ==
  ASSUME NEW points, NEW burns, NEW steps, PointsKnown(points, burns, steps), NEW from
  PROVE  \E all : /\ UpToPoint(all, Len(points) - 1, points, burns)
                  /\ Resampled(points, burns, from, steps) = Kept90(all, from)
<1>1. PICK h : /\ Resampled(points, burns, from, steps)
                    = Kept90(h[DOMAIN Segments(points)], from)
               /\ Filling(h, points, burns, steps)
  BY FillingExists, FillingTable
<1> DEFINE n == Len(points) - 1
           G == {k \in 0..n : UpToPoint(h[1..k], k, points, burns)}
<1>2. n \in Nat /\ points[1] \in Nat
  BY PointsAre
<1>3. DOMAIN Segments(points) = 1..n /\ \A i \in 1..n : Segments(points)[i] = i + 1
  BY DEF Segments
<1> HIDE DEF n
<1>4. 0 \in G
  <2>1. 1..0 = {}
    OBVIOUS
  <2> DEFINE one == <<Mark(points[1])>>
  <2>2. h[1..0] = one
    BY <1>1, <1>3, <2>1 DEF Filling
  <2>3. /\ one \in Seq(Samples) /\ Len(one) = 1 /\ one[1].at = points[1]
        /\ ToSet(one) = {Mark(points[1])} /\ Mark(points[1]).at = points[1]
        /\ Mark(points[1]).how = "recorded"
    BY <1>2, MarkIs
  <2> HIDE DEF one
  <2>4. one # << >>
    <3> HIDE DEF Samples
    <3> QED BY <2>3
  <2>5. Linked(points[1] - 1, points[1], burns)
    <3>1. points[1] - 1 < points[1] /\ ~(points[1] - (points[1] - 1) >= 2 * Interval)
      BY <1>2, TrackAssumption
    <3> QED BY <3>1 DEF Linked
  <2>6. 1..1 = {1} /\ 0 + 1 = 1
    OBVIOUS
  <2>7. Chained(points[1] - 1, one, burns) /\ EndOf(points[1] - 1, one) = points[1]
    BY <2>3, <2>4, <2>5, <2>6 DEF Chained, Before, EndOf
  <2>8. \A s \in ToSet(one) : OnItsArc(s, points, burns)
    BY <2>3 DEF OnItsArc
  <2>9. \A j \in 1..1 : \E s \in ToSet(one) : s.at = points[j]
    BY <2>3, <2>6
  <2>10. UpToPoint(one, 0, points, burns)
    BY <2>3, <2>4, <2>6, <2>7, <2>8, <2>9 DEF UpToPoint
  <2> QED BY <1>2, <2>2, <2>10
<1>5. ASSUME NEW k \in 0..(n - 1), k \in G PROVE k + 1 \in G
  <2>1. k \in Nat /\ k + 1 \in 1..n /\ k + 1 \in 0..n /\ (k + 1) - 1 = k /\ k + 1 \in Nat \ {0}
    BY <1>2
  <2> DEFINE s == 1..(k + 1)
             out == h[1..k]
  <2>2. s # {} /\ Max(s) = k + 1 /\ s \ {Max(s)} = 1..k
    BY <2>1, SegmentMax
  <2>3. s \in SUBSET (1..n)
    <3>1. \A j \in s : j \in 1..n
      BY <1>2, <2>1
    <3> QED BY <3>1
  <2> HIDE DEF s
  <2>4. h[s] = LET i == Segments(points)[k + 1]
               IN  out \o Inside(points[i - 1], points[i], burns, steps)
                       \o <<Mark(points[i])>>
    BY <1>1, <1>3, <2>2, <2>3 DEF Filling
  <2>5. Segments(points)[k + 1] = (k + 1) + 1 /\ ((k + 1) + 1) - 1 = k + 1
    BY <1>3, <2>1
  <2>6. UpToPoint(out, k, points, burns)
    BY <1>5
  <2> HIDE DEF out
  <2> DEFINE m == k + 1
             i == Segments(points)[m]
  <2>7. m \in 1..(Len(points) - 1) /\ m - 1 = k
    BY <2>1 DEF n
  <2>8. h[s] = out \o Inside(points[i - 1], points[i], burns, steps) \o <<Mark(points[i])>>
    BY <2>4
  <2>9. i = m + 1 /\ i - 1 = m
    BY <2>5
  <2> HIDE DEF m, i
  <2>10. h[s] = Extended(out, m, points, burns, steps)
    BY <2>8, <2>9 DEF Extended
  <2>11. UpToPoint(h[s], m, points, burns)
    BY <2>6, <2>7, <2>10, ExtendedIs
  <2> QED BY <2>1, <2>11 DEF m, s
<1>6. \A k \in 0..n : k \in G
  <2> HIDE DEF G
  <2> QED BY <1>2, <1>4, <1>5, UpTo
<1>7. n \in 0..n
  BY <1>2
<1>8. UpToPoint(h[1..n], n, points, burns)
  BY <1>6, <1>7
<1> QED BY <1>1, <1>3, <1>8 DEF n

\* A chain is chronological and without unexplained gaps, from any sample on.
LEMMA ChainTells ==
  ASSUME NEW from \in Int, NEW seq \in Seq(Samples), NEW burns,
         Chained(from, seq, burns),
         NEW out \in Seq(Samples), NEW d \in 0..Len(seq), IsEnd(out, seq, d)
  PROVE  Chronological(out) /\ NoGap(out, burns)
<1>1. Len(seq) \in Nat /\ Len(out) = Len(seq) - d
  BY DEF IsEnd
<1>2. ASSUME NEW i \in 1..(Len(out) - 1)
      PROVE  Linked(out[i].at, out[i + 1].at, burns)
  <2>1. /\ i \in 1..Len(out) /\ i + 1 \in 1..Len(out)
        /\ (i + 1) + d \in 1..Len(seq) /\ (i + 1) + d # 1
        /\ ((i + 1) + d) - 1 = i + d
    BY <1>1
  <2>2. out[i] = seq[i + d] /\ out[i + 1] = seq[(i + 1) + d]
    BY <2>1 DEF IsEnd
  <2>3. Linked(Before(from, seq, (i + 1) + d), seq[(i + 1) + d].at, burns)
    BY <2>1 DEF Chained
  <2> QED BY <2>1, <2>2, <2>3 DEF Before
<1> QED BY <1>2 DEF Linked, Chronological, NoGap

\* A sequence is the end of itself.
LEMMA WholeIsSuffix ==
  ASSUME NEW seq \in Seq(Samples)
  PROVE  0 \in 0..Len(seq) /\ IsEnd(seq, seq, 0)
<1>1. Len(seq) \in Nat
  BY SampleFields
<1>2. \A j \in 1..Len(seq) : j + 0 = j
  OBVIOUS
<1>3. Len(seq) = Len(seq) - 0
  BY <1>1
<1> QED BY <1>1, <1>2, <1>3 DEF IsEnd

\* What the trail of an answer must be.
TrailIsFaithful(trail, points, recent, now, burns) ==
  /\ Chronological(trail)
  /\ Epochs(trail) \subseteq (now - Window)..now
  /\ Len(points) >= 2 => ToSet(recent) \subseteq Epochs(trail)
  /\ \A s \in ToSet(trail) : OnItsArc(s, points, burns)
  /\ Len(points) >= 2 => NoGap(trail, burns)
  /\ trail # << >> => Last(trail).at = now

\* The epochs of a sequence are those of its elements.
LEMMA EpochsOf ==
  ASSUME NEW seq
  PROVE  Epochs(seq) = {s.at : s \in ToSet(seq)}
BY DEF Epochs, ToSet

\* The samples between the recorded points.
LEMMA ResampledFaithful ==
  ASSUME NEW points, NEW now, NEW burns, NEW steps, NEW recent,
         PointsKnown(points, burns, steps), TrailKnown(points, now),
         \A t \in ToSet(recent) : t \in ToSet(points) /\ t >= now - Window
  PROVE  TrailIsFaithful(Resampled(points, burns, now - Window, steps),
                         points, recent, now, burns)
<1> DEFINE from == now - Window
           a == points[1] - 1
           n == Len(points)
<1>1. PICK all : /\ UpToPoint(all, n - 1, points, burns)
                 /\ Resampled(points, burns, from, steps) = Kept90(all, from)
  BY ResampledIs
<1>2. n \in Nat \ {0} /\ points[1] \in Nat /\ points[n] = now /\ now \in Nat
  <2>1. n \in Nat \ {0} /\ points[1] \in Nat
    BY PointsAre
  <2>2. points # << >>
    BY <2>1
  <2> QED BY <2>1, <2>2 DEF TrailKnown
<1>3. Window \in Nat /\ a \in Int /\ from \in Int
  BY <1>2, TrackAssumption
<1>4. (n - 1) + 1 = n
  BY <1>2
<1>5. /\ all \in Seq(Samples) /\ all # << >> /\ Chained(a, all, burns)
      /\ EndOf(a, all) = now
      /\ \A j \in 1..n : \E s \in ToSet(all) : s.at = points[j]
      /\ \A s \in ToSet(all) : OnItsArc(s, points, burns)
  BY <1>1, <1>2, <1>4 DEF UpToPoint
<1> DEFINE N == Len(all)
           set == {s \in ToSet(all) : s.at >= from}
           out == Among(all, set)
<1> HIDE DEF a, n
<1>6. N \in Nat \ {0} /\ \A i \in 1..N : all[i] \in Samples /\ all[i].at \in Int
  <2>1. N # 0
    <3> HIDE DEF Samples
    <3> QED BY <1>5
  <2> QED BY <1>5, <2>1, SampleFields
<1>7. all[N].at = now /\ N \in 1..N
  BY <1>5, <1>6 DEF EndOf
<1>8. \A i, j \in 1..N : i < j => all[i].at < all[j].at
  BY <1>3, <1>5, ChainOrder
<1>9. \A i \in 1..N : all[i] \in ToSet(all)
  BY <1>5, ElementsOf
<1>10. \A i \in 1..N : all[i] \in set <=> all[i].at >= from
  BY <1>9
<1>11. Kept90(all, from) = out
  BY DEF Kept90
<1> HIDE DEF set, N
<1>12. \A i, j \in 1..N : i < j /\ all[i] \in set => all[j] \in set
  BY <1>3, <1>6, <1>8, <1>10
<1>13. PICK d \in 0..N : IsEnd(out, all, d) /\ \A i \in 1..N : all[i] \in set <=> d < i
  BY <1>5, <1>12, AmongSuffix DEF N
<1>14. out \in Seq(Samples) /\ ToSet(out) = {s \in ToSet(all) : s \in set}
  BY <1>5, AmongProperties DEF Drawn
<1> HIDE DEF out
<1>15. ToSet(out) = {s \in ToSet(all) : s.at >= from}
  BY <1>14 DEF set
<1>16. Chronological(out) /\ NoGap(out, burns)
  BY <1>3, <1>5, <1>13, <1>14, ChainTells DEF N
<1>17. \A s \in ToSet(all) : s.at \in Int /\ s.at <= now
  <2>1. \A s \in ToSet(all) : \E i \in 1..N : all[i] = s
    BY <1>5, ElementsOf DEF N
  <2>2. \A i \in 1..N : i = N \/ i < N
    BY <1>6
  <2>3. \A i \in 1..N : all[i].at \in Int /\ all[i].at <= now
    BY <1>2, <1>6, <1>7, <1>8, <2>2
  <2> QED BY <2>1, <2>3
<1>18. Epochs(out) \subseteq from..now
  <2>1. \A s \in ToSet(out) : s.at \in from..now
    BY <1>2, <1>3, <1>15, <1>17
  <2> HIDE DEF from
  <2> QED BY <2>1, EpochsOf
<1>19. ToSet(recent) \subseteq Epochs(out)
  <2> SUFFICES ASSUME NEW t \in ToSet(recent) PROVE t \in Epochs(out)
    OBVIOUS
  <2>1. PICK j \in 1..n : points[j] = t
    <3>1. t \in ToSet(points)
      OBVIOUS
    <3> QED BY <3>1, ElementsOf DEF TrailKnown, n
  <2>2. PICK s \in ToSet(all) : s.at = t
    BY <1>5, <2>1
  <2>3. s \in ToSet(out)
    BY <1>15, <2>2
  <2> QED BY <2>2, <2>3, EpochsOf
<1>20. \A s \in ToSet(out) : OnItsArc(s, points, burns)
  BY <1>5, <1>15
<1>21. Last(out).at = now
  <2>1. all[N] \in set
    BY <1>2, <1>3, <1>7, <1>10
  <2>2. d < N
    BY <1>7, <1>13, <2>1
  <2>3. Len(out) = N - d /\ N - d \in 1..(N - d) /\ (N - d) + d = N
    BY <1>6, <1>13, <2>2 DEF IsEnd, N
  <2>4. out[N - d] = all[N]
    BY <1>13, <2>3 DEF IsEnd
  <2> QED BY <1>7, <2>3, <2>4 DEF Last
<1>22. TrailIsFaithful(out, points, recent, now, burns)
  BY <1>16, <1>18, <1>19, <1>20, <1>21 DEF TrailIsFaithful
<1> QED BY <1>1, <1>11, <1>22

\* A whole number of intervals makes the window.
LEMMA PointCountIs ==
  PointCount \in Nat /\ Interval * PointCount = Window
<1>1. /\ Window \in Nat \ {0} /\ Interval \in Nat \ {0} /\ Window % Interval = 0
  BY TrackAssumption
<1>2. Window \div Interval \in Int /\ Window = Interval * (Window \div Interval)
  <2> DEFINE w == Window
             i == Interval
  <2>1. w \in Int /\ i \in Int /\ i > 0 /\ w % i = 0
    BY <1>1
  <2> HIDE DEF w, i
  <2>2. w = i * (w \div i)
    BY <2>1
  <2>3. w \div i \in Int
    BY <2>1
  <2> QED BY <2>2, <2>3 DEF w, i
<1> DEFINE q == Window \div Interval
<1>3. q >= 0
  BY <1>1
<1> HIDE DEF q
<1>4. q \in Int /\ Window = Interval * q
  BY <1>1, <1>2 DEF q
<1> QED BY <1>3, <1>4 DEF PointCount, q

\* An even sequence is a faithful trail or prediction.
LEMMA EvenFaithful ==
  ASSUME NEW a \in Int, NEW n \in Nat, n <= PointCount + 1, NEW from \in Int,
         NEW seq, IsEven(seq, a, n, "exact", from), NEW points, NEW burns
  PROVE  /\ Chronological(seq)
         /\ \A e \in Epochs(seq) :
              e \in Int /\ a + Interval <= e /\ e <= a + Interval + Window
         /\ \A s \in ToSet(seq) : OnItsArc(s, points, burns)
         /\ n # 0 => /\ Head(seq).at = a + Interval
                     /\ Last(seq).at = a + Interval * n
                     /\ seq # << >>
<1>1. Interval \in Nat \ {0}
  BY TrackAssumption
<1>2. EvenIsChained(seq, a, n, burns)
  <2> DEFINE how == "exact"
  <2>1. how \in {"recorded", "interpolated", "forward", "backward", "exact"}
    OBVIOUS
  <2>2. IsEven(seq, a, n, how, from)
    OBVIOUS
  <2> HIDE DEF how
  <2> QED BY <2>1, <2>2, EvenChain
<1>3. seq \in Seq(Samples) /\ Len(seq) = n /\ Chained(a, seq, burns)
  BY <1>2 DEF EvenIsChained
<1>4. Chronological(seq)
  BY <1>3, WholeIsSuffix, ChainTells
<1>5. ASSUME NEW s \in ToSet(seq)
      PROVE  /\ s.how = "exact" /\ s.at \in Int
             /\ a + Interval <= s.at /\ s.at <= a + Interval + Window
  <2>1. PICK k \in 1..n : s.at = a + Interval * k /\ s.how = "exact"
    <3> DEFINE how == "exact"
    <3>1. IsEven(seq, a, n, how, from)
      OBVIOUS
    <3> HIDE DEF how
    <3>2. \E k \in 1..n : s.at = a + Interval * k /\ s.how = how /\ s.from = from
      BY <1>5, <3>1, EvenElements
    <3> QED BY <3>2 DEF how
  <2>2. PointCount \in Nat /\ Interval * PointCount = Window
    BY PointCountIs
  <2>3. k - 1 \in Nat /\ k - 1 <= PointCount
    BY <2>2
  <2>4. Interval * (k - 1) \in Nat /\ Interval * (k - 1) <= Interval * PointCount
    BY <2>2, <2>3, Multiples
  <2>5. Interval * k = Interval * (k - 1) + Interval
    BY <1>1
  <2> DEFINE x == Interval * (k - 1)
             y == Interval * k
             z == Interval * PointCount
  <2> HIDE DEF x, y, z
  <2>6. x \in Nat /\ x <= z /\ z = Window /\ y = x + Interval /\ Window \in Nat
    BY <2>2, <2>4, <2>5, TrackAssumption DEF x, y, z
  <2>7. s.at = a + y
    BY <2>1 DEF y
  <2> QED BY <1>1, <2>1, <2>6, <2>7
<1>6. \A s \in ToSet(seq) : OnItsArc(s, points, burns)
  BY <1>5 DEF OnItsArc
<1>7. \A e \in Epochs(seq) :
        e \in Int /\ a + Interval <= e /\ e <= a + Interval + Window
  BY <1>5, EpochsOf
<1>8. ASSUME n # 0
      PROVE  /\ Head(seq).at = a + Interval
             /\ Last(seq).at = a + Interval * n
             /\ seq # << >>
  <2>1. 1 \in 1..n /\ n \in 1..n
    BY <1>8
  <2>2. seq[1] = Sample(a + Interval * 1, "exact", from)
        /\ seq[n] = Sample(a + Interval * n, "exact", from)
    BY <2>1 DEF IsEven
  <2>3. Interval * 1 = Interval
    BY <1>1
  <2>4. Len(<< >>) = 0
    OBVIOUS
  <2>5. seq # << >>
    BY <1>3, <1>8, <2>4
  <2>6. Head(seq) = seq[1] /\ Last(seq) = seq[n]
    BY <1>3, <2>5 DEF Last
  <2> QED BY <2>2, <2>3, <2>5, <2>6 DEF Sample
<1> QED BY <1>4, <1>6, <1>7, <1>8

-----------------------------------------------------------------------------
(* Trajectories: the answer.                                               *)

\* A question about a satellite whose recording is in order.
TrajectoryKnown(q) ==
  /\ TrailKnown(q.trail, q.now) /\ q.burns \in SUBSET Nat
  /\ q.known \in BOOLEAN /\ q.reach \in Nat

\* The state of now propagated back.
LEMMA ExactFaithful ==
  ASSUME NEW now \in Nat, NEW points, ~(Len(points) >= 2), NEW recent, NEW burns
  PROVE  TrailIsFaithful(Exact(now, PointCount), points, recent, now, burns)
<1> DEFINE n == PointCount + 1
           a == now - Interval * n
           seq == Exact(now, PointCount)
<1>1. Interval \in Nat \ {0} /\ Window \in Nat
  BY TrackAssumption
<1>2. PointCount \in Nat /\ Interval * PointCount = Window
  BY PointCountIs
<1>3. n \in Nat /\ n <= PointCount + 1 /\ n # 0 /\ (n - 1) = PointCount
  BY <1>2
<1>4. seq = [k \in 1..n |-> Sample(now - Interval * (PointCount + (1 - k)), "exact", now)]
  BY DEF Exact
<1> HIDE DEF n, seq
<1>5. a \in Int /\ a + Interval = now - Window /\ a + Interval * n = now
  <2>1. Interval * n = Interval * (n - 1) + Interval
    BY <1>1, <1>3
  <2> DEFINE x == Interval * n
             y == Interval * (n - 1)
  <2> HIDE DEF x, y
  <2>2. x = y + Interval /\ y = Window
    BY <1>2, <1>3, <2>1 DEF x, y
  <2>3. a = now - x
    BY DEF x
  <2> HIDE DEF a
  <2>4. a \in Int /\ a + Interval = now - Window /\ a + x = now
    BY <1>1, <2>2, <2>3
  <2> QED BY <2>4 DEF x
<1>6. \A k \in 1..n : now - Interval * (PointCount + (1 - k)) = a + Interval * k
  <2> TAKE k \in 1..n
  <2>1. PointCount + (1 - k) = n - k /\ n \in Nat /\ k \in Nat
    BY <1>2, <1>3
  <2>2. Interval * (n - k) = Interval * n - Interval * k
    BY <1>1, <2>1
  <2>3. Interval * n \in Int /\ Interval * k \in Int
    BY <1>1, <2>1
  <2> DEFINE x == Interval * n
             y == Interval * k
  <2>4. now - (x - y) = (now - x) + y
    <3> HIDE DEF x, y, a
    <3>1. x \in Int /\ y \in Int
      BY <2>3 DEF x, y
    <3> QED BY <3>1
  <2> QED BY <2>1, <2>2, <2>4
<1>7. IsEven(seq, a, n, "exact", now)
  <2> HIDE DEF a
  <2> QED BY <1>4, <1>6 DEF IsEven
<1> HIDE DEF a
<1>8. /\ Chronological(seq)
      /\ \A e \in Epochs(seq) :
           e \in Int /\ a + Interval <= e /\ e <= a + Interval + Window
      /\ \A s \in ToSet(seq) : OnItsArc(s, points, burns)
      /\ Last(seq).at = a + Interval * n
  BY <1>3, <1>5, <1>7, EvenFaithful
<1>9. Epochs(seq) \subseteq (now - Window)..now
  BY <1>1, <1>5, <1>8
<1>10. TrailIsFaithful(seq, points, recent, now, burns)
  BY <1>5, <1>8, <1>9 DEF TrailIsFaithful
<1> QED BY <1>10 DEF seq

\* The recorded point alone, without the means to propagate it.
LEMMA PointsFaithful ==
  ASSUME NEW recent, NEW now, TrailKnown(recent, now), Len(recent) < 2,
         NEW points, ~(Len(points) >= 2), NEW burns
  PROVE  TrailIsFaithful(Points(recent), points, recent, now, burns)
<1> DEFINE seq == Points(recent)
<1>1. /\ recent \in Seq(Nat) /\ Len(recent) \in Nat /\ now \in Nat
      /\ DOMAIN recent = 1..Len(recent)
  BY DEF TrailKnown
<1>2. DOMAIN seq = 1..Len(recent) /\ \A i \in 1..Len(recent) : seq[i] = Mark(recent[i])
  BY <1>1 DEF Points, Mark
<1>3. \A i \in 1..Len(recent) : recent[i] = now /\ i = Len(recent)
  <2> TAKE i \in 1..Len(recent)
  <2>1. i = Len(recent) /\ Len(recent) # 0
    <3> DEFINE m == Len(recent)
    <3>1. m \in Nat /\ m < 2 /\ i \in 1..m
      BY <1>1
    <3> HIDE DEF m
    <3>2. i = m /\ m # 0
      BY <3>1
    <3> QED BY <3>2 DEF m
  <2>2. Len(<< >>) = 0
    OBVIOUS
  <2>3. recent # << >>
    BY <2>1, <2>2
  <2> QED BY <2>1, <2>3 DEF TrailKnown
<1>4. Len(seq) = Len(recent)
  BY <1>1, <1>2 DEF Points
<1>5. seq \in Seq(Samples)
  <2>1. \A i \in 1..Len(recent) : Mark(recent[i]) \in Samples
    <3>1. \A i \in 1..Len(recent) : recent[i] \in Nat
      BY <1>1, <1>3
    <3> QED BY <3>1, MarkIs
  <2> HIDE DEF Samples
  <2>2. seq = [i \in 1..Len(recent) |-> Mark(recent[i])]
    BY <1>1 DEF Points, Mark
  <2> HIDE DEF seq
  <2> QED BY <1>1, <2>1, <2>2
<1> HIDE DEF seq
<1>6. Chronological(seq)
  <2>1. \A i \in 1..(Len(seq) - 1) : FALSE
    BY <1>1, <1>4
  <2> QED BY <2>1 DEF Chronological
<1>7. \A s \in ToSet(seq) : s.at = now /\ s.how = "recorded"
  <2>1. \A i \in 1..Len(recent) : seq[i].at = now /\ seq[i].how = "recorded"
    BY <1>2, <1>3 DEF Mark, Sample
  <2> QED BY <1>2, <2>1 DEF ToSet
<1>8. Epochs(seq) \subseteq (now - Window)..now
  <2>1. now \in (now - Window)..now
    BY <1>1, TrackAssumption
  <2> QED BY <1>7, <2>1, EpochsOf
<1>9. \A s \in ToSet(seq) : OnItsArc(s, points, burns)
  BY <1>7 DEF OnItsArc
<1>10. ASSUME seq # << >> PROVE Last(seq).at = now
  <2>1. Len(seq) # 0
    <3> HIDE DEF Samples
    <3> QED BY <1>5, <1>10
  <2>2. Len(recent) \in 1..Len(recent)
    BY <1>1, <1>4, <2>1
  <2>3. Last(seq) = Mark(recent[Len(recent)]) /\ recent[Len(recent)] = now
    BY <1>2, <1>3, <1>4, <2>2 DEF Last
  <2> QED BY <2>3 DEF Mark, Sample
<1>11. TrailIsFaithful(seq, points, recent, now, burns)
  BY <1>6, <1>8, <1>9, <1>10 DEF TrailIsFaithful
<1> QED BY <1>11 DEF seq

\* The past half of an answer.
LEMMA TrailFaithful ==
  ASSUME NEW trail, NEW now, TrailKnown(trail, now), NEW burns \in SUBSET Nat,
         NEW known \in BOOLEAN, NEW steps \in Nat
  PROVE  TrailIsFaithful(Trail(trail, burns, now, known, steps), Anchors(trail, now),
                         Last90(trail, now), now, burns)
<1> DEFINE points == Anchors(trail, now)
           recent == Last90(trail, now)
<1>1. /\ TrailKnown(points, now) /\ TrailKnown(recent, now)
      /\ ToSet(recent) \subseteq ToSet(points)
      /\ Len(recent) <= Len(points)
  BY AnchorsAre
<1>2. /\ points \in Seq(Nat) /\ Len(points) \in Nat /\ Ascending(points) /\ now \in Nat
      /\ recent \in Seq(Nat) /\ Len(recent) \in Nat
      /\ points # << >> => points[Len(points)] = now
  BY <1>1 DEF TrailKnown
<1>3. Trail(trail, burns, now, known, steps)
        = IF Len(points) >= 2 /\ Last(points) = now
          THEN Resampled(points, burns, now - Window, steps)
          ELSE IF known /\ steps >= PointCount THEN Exact(now, PointCount)
          ELSE Points(recent)
  BY DEF Trail
<1>4. \A t \in ToSet(recent) : t >= now - Window
  <2>1. trail \in Seq(Nat)
    BY DEF TrailKnown
  <2>2. ToSet(recent) = {t \in ToSet(trail) : t \in {t1 \in ToSet(trail) : t1 >= now - Window}}
    BY <2>1, AmongProperties DEF Last90, Drawn
  <2> HIDE DEF recent
  <2> QED BY <2>2
<1> HIDE DEF points, recent
<1>5. CASE Len(points) >= 2
  <2>1. Last(points) = now
    <3>1. points # << >>
      BY <1>2, <1>5
    <3> QED BY <1>2, <3>1 DEF Last
  <2>2. Trail(trail, burns, now, known, steps) = Resampled(points, burns, now - Window, steps)
    BY <1>3, <1>5, <2>1
  <2>3. PointsKnown(points, burns, steps)
    BY <1>2, <1>5 DEF PointsKnown
  <2>4. \A t \in ToSet(recent) : t \in ToSet(points) /\ t >= now - Window
    BY <1>1, <1>4
  <2>5. TrailIsFaithful(Resampled(points, burns, now - Window, steps),
                        points, recent, now, burns)
    BY <1>1, <2>3, <2>4, ResampledFaithful
  <2> QED BY <2>2, <2>5 DEF points, recent
<1>6. CASE ~(Len(points) >= 2)
  <2>1. CASE known /\ steps >= PointCount
    <3>1. Trail(trail, burns, now, known, steps) = Exact(now, PointCount)
      BY <1>3, <1>6, <2>1
    <3> QED BY <1>2, <1>6, <3>1, ExactFaithful DEF points, recent
  <2>2. CASE ~(known /\ steps >= PointCount)
    <3>1. Trail(trail, burns, now, known, steps) = Points(recent)
      BY <1>3, <1>6, <2>2
    <3>2. Len(recent) < 2
      BY <1>1, <1>2, <1>6
    <3> QED BY <1>1, <1>6, <3>1, <3>2, PointsFaithful DEF points, recent
  <2> QED BY <2>1, <2>2
<1> QED BY <1>5, <1>6

\* The half to come starts now and stays in its window.
LEMMA PredictedIs ==
  ASSUME NEW now \in Nat, NEW known \in BOOLEAN, NEW steps \in Nat
  PROVE  LET seq == Predicted(now, known, steps) IN
         /\ Chronological(seq)
         /\ Epochs(seq) \subseteq now..(now + Window)
         /\ seq # << >> => Head(seq).at = now
<1> DEFINE seq == Predicted(now, known, steps)
<1>1. CASE ~known
  <2>1. seq = << >>
    BY <1>1 DEF Predicted
  <2>2. Epochs(<< >>) = {} /\ Chronological(<< >>)
    BY DEF Epochs, Chronological
  <2> HIDE DEF seq
  <2>3. Chronological(seq) /\ Epochs(seq) \subseteq now..(now + Window)
        /\ (seq # << >> => Head(seq).at = now)
    BY <2>1, <2>2
  <2> QED BY <2>3 DEF seq
<1>2. CASE known
  <2> DEFINE n == IF steps < PointCount THEN steps + 1 ELSE PointCount + 1
             a == now - Interval
  <2>1. Interval \in Nat \ {0} /\ Window \in Nat
    BY TrackAssumption
  <2>2. n \in Nat /\ n <= PointCount + 1 /\ n # 0
    BY PointCountIs
  <2>3. seq = [k \in 1..n |-> Sample(now + Interval * (k - 1), "exact", now)]
    BY <1>2 DEF Predicted
  <2>4. a \in Int /\ a + Interval = now
    BY <2>1
  <2> HIDE DEF n, seq
  <2>5. \A k \in 1..n : now + Interval * (k - 1) = a + Interval * k
    BY <2>1, <2>2
  <2> HIDE DEF a
  <2>6. IsEven(seq, a, n, "exact", now)
    BY <2>3, <2>5 DEF IsEven
  <2>7. /\ Chronological(seq)
        /\ \A e \in Epochs(seq) :
             e \in Int /\ a + Interval <= e /\ e <= a + Interval + Window
        /\ Head(seq).at = a + Interval
    BY <2>2, <2>4, <2>6, EvenFaithful
  <2>8. Epochs(seq) \subseteq now..(now + Window)
    BY <2>1, <2>4, <2>7
  <2> QED BY <2>4, <2>7, <2>8 DEF seq
<1> QED BY <1>1, <1>2

\* The whole answer.
LEMMA TrajectoryFaithful ==
  ASSUME NEW q, TrajectoryKnown(q), NEW answered,
         answered = Trajectory(q.trail, q.burns, q.now, q.known, q.reach)
  PROVE  TrajectoryIsFaithful(q, answered)
<1> DEFINE trail == Trail(q.trail, q.burns, q.now, q.known, q.reach)
           predicted == Predicted(q.now, q.known, q.reach)
           points == Anchors(q.trail, q.now)
           recent == Last90(q.trail, q.now)
<1>1. answered.trail = trail /\ answered.predicted = predicted
  BY DEF Trajectory
<1>2. /\ TrailKnown(q.trail, q.now) /\ q.burns \in SUBSET Nat
      /\ q.known \in BOOLEAN /\ q.reach \in Nat
  BY DEF TrajectoryKnown
<1>3. q.now \in Nat
  BY <1>2 DEF TrailKnown
<1>4. TrailIsFaithful(trail, points, recent, q.now, q.burns)
  BY <1>2, TrailFaithful
<1>5. /\ Chronological(predicted)
      /\ Epochs(predicted) \subseteq q.now..(q.now + Window)
      /\ predicted # << >> => Head(predicted).at = q.now
  BY <1>2, <1>3, PredictedIs
<1> HIDE DEF trail, predicted, points, recent
<1>6. trail # << >> /\ predicted # << >> => Last(trail).at = Head(predicted).at
  BY <1>4, <1>5 DEF TrailIsFaithful
<1> QED BY <1>1, <1>4, <1>5, <1>6 DEF TrailIsFaithful, TrajectoryIsFaithful, points, recent

-----------------------------------------------------------------------------
(* The questions, and their answers.                                       *)

RequestKnown(q) ==
  /\ q.route \in Routes /\ q.body \in BodyForms(q.route)
  /\ q.env \in Environments(Origins) /\ q.origin # "*"
  /\ q.waiting \in Nat /\ q.fate \in Fates /\ q.verdict \in Verdicts(q.route)

QuestionKnown ==
  /\ question.kind = "request" => RequestKnown(question)
  /\ question.kind = "avoidance" => Situation(question)
  /\ question.kind = "scan" => PairsKnown(question.pairs)
  /\ question.kind = "trajectory" => TrajectoryKnown(question)

AnswersAreRight ==
  /\ RequestsAreAnswered /\ ColaPlanIsBest /\ CdmScanIsSound
  /\ TrajectoriesAreFaithful

IInv == QuestionKnown /\ AnswersAreRight

\* A situation the records and the outcomes are known of.
LEMMA AvoidanceIsSituation ==
  ASSUME NEW q, NEW last \in {{}, {0}}, NEW pending, NEW contacts \in Contacts,
         NEW impulse \in Impulses,
         q = [kind |-> "avoidance", sat |-> 1, now |-> 0, latency |-> 1,
              cooldown |-> 3, last |-> last, pending |-> pending,
              contacts |-> contacts, records |-> Warnings,
              impulse |-> impulse]
  PROVE  Situation(q)
<1> DEFINE V == [sat : Int, deb : STRING, tca : Int, miss : Int,
                 severity : {"CRITICAL", "WARNING", "WATCH"},
                 failOpen : BOOLEAN, collision : BOOLEAN]
           Debris == {Warnings[i].deb : i \in DOMAIN Warnings}
<1>1. /\ Warnings \in Seq(V) /\ Contacts \subseteq SUBSET Int
      /\ impulse \in [Debris ->
           [UNION Contacts -> [ToSet(Scales) -> [Directions -> Outcomes]]]]
  BY AvoidanceAssumption
<1>2. /\ q.now = 0 /\ q.latency = 1 /\ q.cooldown = 3 /\ q.last = last
      /\ q.contacts = contacts /\ q.records = Warnings /\ q.impulse = impulse
  OBVIOUS
<1>3. \A r \in ToSet(Warnings) : r \in V /\ r.deb \in Debris
  <2>1. \A r \in ToSet(Warnings) : r.deb \in Debris
    BY DEF ToSet
  <2>2. ToSet(Warnings) \subseteq V
    <3> HIDE DEF V
    <3> QED BY <1>1, ElementsOf
  <2> QED BY <2>1, <2>2
<1>4. \A r \in ToSet(Warnings) : r.tca \in Int /\ r.miss \in Int
  BY <1>3
<1>5. \A r \in ToSet(Warnings), e \in contacts, s \in ToSet(Scales), d \in Directions :
        impulse[r.deb][e][s][d] \in Outcomes
  <2> TAKE r \in ToSet(Warnings), e \in contacts, s \in ToSet(Scales), d \in Directions
  <2>1. r.deb \in Debris /\ e \in UNION Contacts
    BY <1>3
  <2> HIDE DEF Debris, V
  <2>2. impulse[r.deb] \in [UNION Contacts -> [ToSet(Scales) -> [Directions -> Outcomes]]]
    BY <1>1, <2>1
  <2> QED BY <2>1, <2>2
<1>6. contacts \in SUBSET Int
  BY <1>1
<1> HIDE DEF V, Debris
<1>7. \E W : q.records \in Seq(W)
  BY <1>1, <1>2
<1>8. q.last = {} \/ \E l \in Int : q.last = {l}
  BY <1>2
<1> QED BY <1>2, <1>4, <1>5, <1>6, <1>7, <1>8 DEF Situation, RecordsOf

\* A trail is recorded step by step, or not at all.
LEMMA TrajectoryIsKnown ==
  ASSUME AskTrajectory
  PROVE  question.kind = "trajectory" /\ TrajectoryKnown(question)
<1>1. PICK n \in 1..MaxSteps : \E steps \in [1..n -> StepLengths] :
      \E b, c \in 1..ClockAfter(steps), burnt, recorded, known \in BOOLEAN,
         reach \in 0..PointCount :
        question = [kind |-> "trajectory", now |-> ClockAfter(steps),
                    trail |-> IF recorded THEN TrailAfter(steps) ELSE << >>,
                    burns |-> IF burnt THEN {b, c} ELSE {},
                    known |-> known, reach |-> reach]
  BY DEF AskTrajectory
<1>2. PICK steps \in [1..n -> StepLengths] :
      \E b, c \in 1..ClockAfter(steps), burnt, recorded, known \in BOOLEAN,
         reach \in 0..PointCount :
        question = [kind |-> "trajectory", now |-> ClockAfter(steps),
                    trail |-> IF recorded THEN TrailAfter(steps) ELSE << >>,
                    burns |-> IF burnt THEN {b, c} ELSE {},
                    known |-> known, reach |-> reach]
  BY <1>1
<1> DEFINE now == ClockAfter(steps)
           past == TrailAfter(steps)
<1>3. PICK b \in 1..now, c \in 1..now, burnt \in BOOLEAN, recorded \in BOOLEAN,
           known \in BOOLEAN, reach \in 0..PointCount :
        question = [kind |-> "trajectory", now |-> now,
                    trail |-> IF recorded THEN past ELSE << >>,
                    burns |-> IF burnt THEN {b, c} ELSE {},
                    known |-> known, reach |-> reach]
  BY <1>2
<1>4. n \in Nat \ {0} /\ steps \in [1..n -> Nat \ {0}]
  <2>1. n \in Nat \ {0}
    BY StepAssumption
  <2>2. \A i \in 1..n : steps[i] \in Nat \ {0}
    BY StepAssumption
  <2>3. steps = [i \in 1..n |-> steps[i]]
    OBVIOUS
  <2> QED BY <2>1, <2>2, <2>3
<1>5. now \in Nat /\ TrailKnown(past, now)
  BY <1>4, TrailAfterIs
<1> HIDE DEF now, past
<1>6. TrailKnown(<< >>, now)
  <2>1. << >> \in Seq(Nat) /\ Ascending(<< >>)
    BY DEF Ascending
  <2> QED BY <1>5, <2>1 DEF TrailKnown
<1>7. /\ question.kind = "trajectory" /\ question.now = now
      /\ question.trail = (IF recorded THEN past ELSE << >>)
      /\ question.burns = (IF burnt THEN {b, c} ELSE {})
      /\ question.known = known /\ question.reach = reach
  BY <1>3
<1>8. TrailKnown(question.trail, question.now)
  BY <1>5, <1>6, <1>7
<1>9. question.burns \in SUBSET Nat
  <2>1. b \in Nat /\ c \in Nat
    BY <1>5
  <2> QED BY <1>7, <2>1
<1>10. reach \in Nat
  BY PointCountIs
<1> QED BY <1>7, <1>8, <1>9, <1>10 DEF TrajectoryKnown

\* What is asked at the start is asked as the code would be.
LEMMA InitIsKnown ==
  Init => IInv
<1> SUFFICES ASSUME Init PROVE IInv
  OBVIOUS
<1>1. AnswersAreRight
  BY DEF Init, AnswersAreRight, RequestsAreAnswered, ColaPlanIsBest,
         CdmScanIsSound, TrajectoriesAreFaithful, Answered
<1>2. CASE AskTrajectory
  <2>1. question.kind = "trajectory" /\ TrajectoryKnown(question)
    BY <1>2, TrajectoryIsKnown
  <2> QED BY <1>1, <2>1 DEF QuestionKnown, IInv
<1>3. CASE AskScan
  <2>1. PICK pairs \in PairLists : question = [kind |-> "scan", pairs |-> pairs]
    BY <1>3 DEF AskScan
  <2>2. PairsKnown(pairs)
    BY PairAssumption DEF PairsKnown, Distance
  <2>3. question.kind = "scan" /\ question.pairs = pairs
    BY <2>1
  <2> QED BY <1>1, <2>2, <2>3 DEF QuestionKnown, IInv
<1>4. CASE AskAvoidance
  <2>1. PICK last \in {{}, {0}}, pending \in {{}, {2}, {9}}, contacts \in Contacts,
             impulse \in Impulses :
      question = [kind |-> "avoidance", sat |-> 1, now |-> 0, latency |-> 1,
                  cooldown |-> 3, last |-> last, pending |-> pending,
                  contacts |-> contacts, records |-> Warnings,
                  impulse |-> impulse]
    BY <1>4 DEF AskAvoidance
  <2>2. Situation(question)
    BY <2>1, AvoidanceIsSituation
  <2>3. question.kind = "avoidance"
    BY <2>1
  <2> QED BY <1>1, <2>2, <2>3 DEF QuestionKnown, IInv
<1>5. CASE AskRequest
  <2>1. PICK route \in Routes : \E body \in Bodies(route), env \in Envs,
     origin \in Origins, waiting \in {0, DefaultDepth}, verdict \in Verdicts(route),
     fate \in Fates :
       question = [kind |-> "request", route |-> route, body |-> body,
                   env |-> env, origin |-> origin, waiting |-> waiting,
                   fate |-> fate, verdict |-> verdict]
    BY <1>5 DEF AskRequest, Fates
  <2>2. PICK body \in Bodies(route), env \in Envs,
     origin \in Origins, waiting \in {0, DefaultDepth}, verdict \in Verdicts(route),
     fate \in Fates :
       question = [kind |-> "request", route |-> route, body |-> body,
                   env |-> env, origin |-> origin, waiting |-> waiting,
                   fate |-> fate, verdict |-> verdict]
    BY <2>1
  <2>3. body \in BodyForms(route) /\ env \in Environments(Origins) /\ origin # "*"
    BY RequestAssumption
  <2>4. waiting \in Nat
    BY HttpAssumption
  <2>5. /\ question.kind = "request" /\ question.route = route /\ question.body = body
        /\ question.env = env /\ question.origin = origin /\ question.waiting = waiting
        /\ question.fate = fate /\ question.verdict = verdict
    BY <2>2
  <2>6. RequestKnown(question)
    BY <2>3, <2>4, <2>5 DEF RequestKnown
  <2> QED BY <1>1, <2>5, <2>6 DEF QuestionKnown, IInv
<1> QED BY <1>1, <1>2, <1>3, <1>4, <1>5 DEF Init, IInv

\* An answer is right, whatever the question.
LEMMA NextIsRight ==
  IInv /\ [Next]_vars => IInv'
<1> SUFFICES ASSUME IInv, [Next]_vars PROVE IInv'
  OBVIOUS
<1> USE DEF IInv, AnswersAreRight, Asked
<1>1. CASE ShowTrajectory
  <2>1. /\ question' = question /\ question.kind = "trajectory"
        /\ answer' = Trajectory(question.trail, question.burns, question.now,
                               question.known, question.reach)
    BY <1>1 DEF ShowTrajectory
  <2>2. TrajectoryKnown(question)
    BY <2>1 DEF QuestionKnown
  <2>3. TrajectoryIsFaithful(question, answer')
    BY <2>1, <2>2, TrajectoryFaithful
  <2> QED BY <2>1, <2>3 DEF QuestionKnown, RequestsAreAnswered, ColaPlanIsBest,
                            CdmScanIsSound, TrajectoriesAreFaithful, Answered
<1>2. CASE Scan
  <2>1. /\ question' = question /\ question.kind = "scan"
        /\ answer' = CdmScan(question.pairs)
    BY <1>2 DEF Scan
  <2>2. PairsKnown(question.pairs)
    BY <2>1 DEF QuestionKnown
  <2>3. ScanIsSound(question.pairs, CdmScan(question.pairs))
    BY <2>2, ScanSoFar, ScanSound
  <2> QED BY <2>1, <2>3 DEF QuestionKnown, RequestsAreAnswered, ColaPlanIsBest,
                            CdmScanIsSound, TrajectoriesAreFaithful, Answered
<1>3. CASE PlanAvoidance
  <2>1. /\ question' = question /\ question.kind = "avoidance"
        /\ answer' = ColaPlan(question)
    BY <1>3 DEF PlanAvoidance
  <2>2. PlanIsBest(question, ColaPlan(question))
    BY <2>1, PlanIsBestOfAll DEF QuestionKnown
  <2> QED BY <2>1, <2>2 DEF QuestionKnown, RequestsAreAnswered, ColaPlanIsBest,
                            CdmScanIsSound, TrajectoriesAreFaithful, Answered
<1>4. CASE Reply
  <2>1. /\ question' = question /\ question.kind = "request"
        /\ answer' = Post(question.route, question.body, question.env,
                          question.origin, question.waiting, question.fate,
                          question.verdict)
    BY <1>4 DEF Reply
  <2>2. RequestKnown(question)
    BY <2>1 DEF QuestionKnown
  <2>3. ReplyIsTruthful(question, answer')
    BY <2>1, <2>2, PostIsTruthful DEF RequestKnown
  <2> QED BY <2>1, <2>3 DEF QuestionKnown, RequestsAreAnswered, ColaPlanIsBest,
                            CdmScanIsSound, TrajectoriesAreFaithful, Answered
<1>5. CASE UNCHANGED vars
  BY <1>5 DEF vars, QuestionKnown, RequestsAreAnswered, ColaPlanIsBest,
              CdmScanIsSound, TrajectoriesAreFaithful, Answered
<1> QED BY <1>1, <1>2, <1>3, <1>4, <1>5 DEF Next

\* The questions stay as asked and every answer given is right.
THEOREM AlgorithmsInvariant == Spec => []IInv
BY InitIsKnown, NextIsRight, PTL DEF Spec

\* The status and the code of a reply say what became of the command, and the
\* CORS headers let exactly the listed pages read it.
THEOREM RequestsAnswered == Spec => []RequestsAreAnswered
<1>1. IInv => RequestsAreAnswered
  BY DEF IInv, AnswersAreRight
<1> QED BY <1>1, AlgorithmsInvariant, PTL

\* build_auto_cola_plan returns the least burn that is safe, or the best there
\* is, and no plan only if no burn can be computed.
THEOREM AvoidanceBurnBest == Spec => []ColaPlanIsBest
<1>1. IInv => ColaPlanIsBest
  BY DEF IInv, AnswersAreRight
<1> QED BY <1>1, AlgorithmsInvariant, PTL

\* compute_cdm_warnings_24h counts every dangerous pair, lists the pairs that
\* come within the screening range in the order of their importance, each with
\* what is true of it, and leaves one out only when the list is full and every
\* record in it outranks the one left out.
THEOREM PredictiveScanSound == Spec => []CdmScanIsSound
<1>1. IInv => CdmScanIsSound
  BY DEF IInv, AnswersAreRight
<1> QED BY <1>1, AlgorithmsInvariant, PTL

\* build_trajectory_json shows the past and the future of a satellite in order,
\* with every recorded point, no sample across a burn and no gap without one.
THEOREM TrajectoriesFaithful == Spec => []TrajectoriesAreFaithful
<1>1. IInv => TrajectoriesAreFaithful
  BY DEF IInv, AnswersAreRight
<1> QED BY <1>1, AlgorithmsInvariant, PTL
=============================================================================
