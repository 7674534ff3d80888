------------------------------ MODULE HttpApi -------------------------------
(***************************************************************************)
(* The HTTP surface: settings read from the environment, the three POST    *)
(* routes from the body to the reply, the parameters of the GET routes, and *)
(* the CORS headers every reply gets.                                      *)
(*                                                                         *)
(* A body is described by what is wrong with it; malformed is what the     *)
(* parser notices before a field is asked for (simdjson reads the rest on  *)
(* demand: a later error is a fault of the field or burn it is met in).    *)
(* What happens to a command once it is whole is CommandQueue's business;  *)
(* its fate is one of CommandQueue's replies.                              *)
(***************************************************************************)
EXTENDS Integers, FiniteSets, SequencesExt

CONSTANTS
  DefaultDepth,    \* max_queue_depth_ unless the environment says otherwise
  DefaultStep,     \* max_step_seconds, likewise
  StepLimit        \* the most the environment can make of it

ASSUME HttpAssumption ==
  /\ DefaultDepth \in Nat \ {0}
  /\ StepLimit \in Nat /\ DefaultStep \in 1..StepLimit

-----------------------------------------------------------------------------
(* Settings. The raw text of a variable: not set, empty, no number at all, *)
(* a number followed by something else, or a number.                       *)

RawTexts == [form : {"unset", "empty", "garbage", "trailing", "number"}, number : Int]
Unset == [form |-> "unset", number |-> 0]
Raw(form, number) == [form |-> form, number |-> number]

\* env_u64, env_i64, env_int and env_double: an empty text counts as zero,
\* because the number ends where the text ends.
Setting(raw, default, low, high) ==
  IF raw.form \in {"unset", "garbage", "trailing"} THEN default
  ELSE IF low <= raw.number /\ raw.number <= high THEN raw.number
  ELSE default

\* max_queue_depth_: a positive number, without an upper limit.
QueueDepth(raw) ==
  IF raw.form = "number" /\ raw.number > 0 THEN raw.number ELSE DefaultDepth

\* An origin list names pages, or all of them.
Environments(pages) ==
  [success : RawTexts, maxStep : RawTexts, depth : RawTexts, cors : BOOLEAN,
   credentials : BOOLEAN, origins : Seq(pages \cup {"*"})]

\* http_policy_ of the runtime: env is the raw text of each variable.
Policy(env) ==
  [successStatus |-> Setting(env.success, 202, 200, 299),
   maxStep |-> Setting(env.maxStep, DefaultStep, 1, StepLimit)]

\* api_server_config_from_env. An origin list that is set stays what it is.
CorsConfig(env) ==
  [enabled |-> env.cors, credentials |-> env.credentials,
   origins |-> IF env.cors /\ env.origins = << >> THEN <<"http://localhost:5173">>
               ELSE env.origins]

-----------------------------------------------------------------------------
(* CORS.                                                                   *)

NoOrigin == "no Origin header"

\* resolve_allow_origin: the first entry that matches; none, or one value.
AllowOrigin(cors, origin) ==
  LET hits == {i \in DOMAIN cors.origins : cors.origins[i] \in {"*", origin}}
      entry == cors.origins[CHOOSE i \in hits : \A j \in hits : i <= j]
  IN  IF ~cors.enabled \/ origin = NoOrigin \/ hits = {} THEN {}
      ELSE IF entry = "*" /\ ~cors.credentials THEN {"*"}
      ELSE {origin}

\* apply_cors_headers.
CorsHeaders(cors, origin) ==
  LET allowed == AllowOrigin(cors, origin) IN
    [allow |-> allowed,
     vary |-> allowed # {} /\ allowed # {"*"},
     credentials |-> allowed # {} /\ cors.credentials]

-----------------------------------------------------------------------------
(* Bodies.                                                                 *)

Fault(status, code) == <<[status |-> status, code |-> code]>>
NoFault == << >>

\* The first of the checks that fails, as its fault.
FirstFault(checks) ==
  LET failing == {i \in DOMAIN checks : checks[i].fails}
  IN  IF failing = {} THEN NoFault
      ELSE checks[CHOOSE i \in failing : \A j \in failing : i <= j].fault

Check(fails, status, code) == [fails |-> fails, fault |-> Fault(status, code)]

NotJson(body) == body.json = "malformed"
NotObject(body) == body.json = "other value"

BurnFaults == <<"INVALID_BURN", "MISSING_BURN_ID", "MISSING_BURN_TIME",
  "INVALID_BURN_TIME", "MISSING_DELTAV_VECTOR", "DELTA_V_EXCEEDS_LIMIT">>

\* What the bodies of a route can be like. What the parsers of the other two
\* routes make of an empty body is malformed.
BodyForms(route) ==
  CASE route = "schedule" ->
         [json : {"object", "malformed", "other value"},
          missing : SUBSET {"satelliteId", "maneuver_sequence"},
          burns : Seq(SUBSET ToSet(BurnFaults))]
    [] route = "telemetry" ->
         [json : {"object", "malformed", "other value", "empty"},
          missing : SUBSET {"timestamp", "objects"},
          timestamp : {"valid", "invalid"}, objects : Seq({"valid", "invalid"})]
    [] route = "step" ->
         [json : {"object", "malformed", "other value"},
          missing : SUBSET {"step_seconds"}, seconds : Int]

\* What is wrong with one burn of a maneuver_sequence: a set of BurnFaults.
BurnChecks(faults) ==
  [i \in DOMAIN BurnFaults |-> Check(BurnFaults[i] \in faults, 422, BurnFaults[i])]

\* Mutant: a faulty burn is skipped, as a faulty object of telemetry is.
ScheduleFaultSkips(body) ==
  FirstFault(<<Check(NotJson(body), 400, "MALFORMED_JSON"),
               Check(NotObject(body), 400, "INVALID_REQUEST"),
               Check("satelliteId" \in body.missing, 422, "MISSING_SATELLITE_ID"),
               Check("maneuver_sequence" \in body.missing, 422,
                     "MISSING_MANEUVER_SEQUENCE"),
               Check(\A i \in DOMAIN body.burns : body.burns[i] # {}, 422,
                     "EMPTY_MANEUVER_SEQUENCE")>>)

\* parse_schedule_request: the first faulty burn ends it.
ScheduleFault(body) ==
  FirstFault(<<Check(NotJson(body), 400, "MALFORMED_JSON"),
               Check(NotObject(body), 400, "INVALID_REQUEST"),
               Check("satelliteId" \in body.missing, 422, "MISSING_SATELLITE_ID"),
               Check("maneuver_sequence" \in body.missing, 422,
                     "MISSING_MANEUVER_SEQUENCE")>>
             \o FlattenSeq([i \in DOMAIN body.burns |-> BurnChecks(body.burns[i])])
             \o <<Check(body.burns = << >>, 422, "EMPTY_MANEUVER_SEQUENCE")>>)

\* parse_telemetry_payload: faulty objects are counted and skipped.
TelemetryFault(body) ==
  FirstFault(<<Check(body.json = "empty", 400, "EMPTY_BODY"),
               Check(NotJson(body) \/ NotObject(body), 400, "MALFORMED_JSON"),
               Check("timestamp" \in body.missing, 400, "MISSING_TIMESTAMP"),
               Check(body.timestamp = "invalid", 400, "INVALID_TIMESTAMP"),
               Check("objects" \in body.missing, 400, "MISSING_OBJECTS")>>)

\* The objects of a telemetry body that are used: those nothing is wrong with.
ValidObjects(body) == SelectSeq(body.objects, LAMBDA o : o = "valid")

\* parse_step_request, whose empty body is malformed JSON; a seconds field
\* that is no integer counts as missing.
StepFault(body) ==
  FirstFault(<<Check(NotJson(body), 400, "MALFORMED_JSON"),
               Check(NotObject(body), 400, "INVALID_REQUEST"),
               Check("step_seconds" \in body.missing, 422, "MISSING_STEP_SECONDS"),
               Check(body.seconds <= 0, 422, "INVALID_STEP_SECONDS")>>)

BodyFault(route, body) ==
  CASE route = "schedule" -> ScheduleFault(body)
    [] route = "telemetry" -> TelemetryFault(body)
    [] route = "step" -> StepFault(body)

-----------------------------------------------------------------------------
(* Commands and replies.                                                   *)

\* What a command answers that the worker executed: verdict is "ok" or what
\* was wrong with it, given the state of the engine.
Executed(route, body, policy, verdict) ==
  IF route = "step" /\ body.seconds > policy.maxStep
  THEN [status |-> 422, code |-> "STEP_SECONDS_EXCEEDS_LIMIT"]
  ELSE CASE verdict = "ok" /\ route = "schedule" ->
              [status |-> policy.successStatus, code |-> "SCHEDULED"]
         [] verdict = "ok" /\ route = "telemetry" -> [status |-> 200, code |-> "ACK"]
         [] verdict = "ok" /\ route = "step" -> [status |-> 200, code |-> "STEP_COMPLETE"]
         [] verdict = "CLOCK_UNINITIALIZED" -> [status |-> 400, code |-> verdict]
         [] verdict = "SATELLITE_NOT_FOUND" -> [status |-> 404, code |-> verdict]
         [] verdict = "STALE_TELEMETRY" -> [status |-> 409, code |-> verdict]
         [] OTHER -> [status |-> 422, code |-> verdict]

\* The verdicts of each command that is not refused by its arguments alone.
Verdicts(route) ==
  {"ok"} \cup
  (CASE route = "schedule" ->
          {"COOLDOWN_VIOLATION", "SATELLITE_NOT_FOUND", "SATELLITE_OFFLINE",
           "GRAVEYARD_PENDING", "UPLOAD_WINDOW_UNAVAILABLE",
           "INSUFFICIENT_FUEL"}
     [] route = "telemetry" -> {"STALE_TELEMETRY"}
     [] route = "step" -> {"CLOCK_UNINITIALIZED", "SIM_STEP_REJECTED"})

\* What the runtime boundary returns for a command with this fate there.
Returned(route, body, policy, fate, verdict) ==
  CASE fate = "answer" -> Executed(route, body, policy, verdict)
    [] fate \in {"busy", "timeout"} -> [status |-> 503, code |-> "RUNTIME_BUSY"]
    [] fate = "stopped" -> [status |-> 500, code |-> "RUNTIME_STOPPED"]
    [] fate = "failure" -> [status |-> 500, code |-> "RUNTIME_QUEUE_FAILURE"]

\* A POST: the body is parsed, the command submitted if it is whole, and the
\* headers are set on whatever the reply is. waiting: the commands queued; fate
\* is what becomes of a command that finds room.
Post(route, body, env, origin, waiting, fate, verdict) ==
  LET fault == BodyFault(route, body)
      full == waiting >= QueueDepth(env.depth)
      result == IF fault # NoFault THEN fault[1]
                ELSE Returned(route, body, Policy(env),
                              IF full THEN "busy" ELSE fate, verdict)
  IN  [status |-> result.status, code |-> result.code,
       submitted |-> fault = NoFault,
       cors |-> CorsHeaders(CorsConfig(env), origin)]

\* is_truthy, of a parameter that is given.
Truthy(value) == value \in {"1", "true", "yes", "on"}

\* GET /api/status: either parameter asks for details.
StatusDetails(params) ==
  \E name \in {"details", "verbose"} \cap DOMAIN params : Truthy(params[name])

\* GET /api/visualization/trajectory needs its satellite.
TrajectoryStatus(params) == IF "satellite_id" \in DOMAIN params THEN 200 ELSE 400

-----------------------------------------------------------------------------
(* What the replies must be.                                               *)

\* The faults a client could name in its own body, in any order.
FaultsOf(route, body) ==
  {c \in {"MALFORMED_JSON", "INVALID_REQUEST", "EMPTY_BODY"} : body.json # "object"}
  \cup {c \in {"MISSING_SATELLITE_ID", "MISSING_MANEUVER_SEQUENCE",
               "MISSING_TIMESTAMP", "MISSING_OBJECTS", "MISSING_STEP_SECONDS"} :
          body.missing # {}}
  \cup CASE route = "schedule" ->
              (UNION ToSet(body.burns))
              \cup {c \in {"EMPTY_MANEUVER_SEQUENCE"} : body.burns = << >>}
         [] route = "telemetry" ->
              {c \in {"INVALID_TIMESTAMP"} : body.timestamp = "invalid"}
         [] route = "step" ->
              {c \in {"INVALID_STEP_SECONDS"} : body.seconds <= 0}

\* A command is submitted if and only if its whole body is good, so an order is
\* never obeyed in part; otherwise the error names a fault the body has. A 2xx
\* status means the worker executed it, whatever the environment says; a step
\* beyond the limit never succeeds, and a lone call is never refused as one too
\* many. Exactly the pages of listed origins can
\* read the reply, errors included, with their credentials if these are on:
\* a browser does not accept the wildcard then.
ReplyIsTruthful(q, reply) ==
  LET cors == CorsConfig(q.env)
      listed == /\ cors.enabled /\ q.origin # NoOrigin
                /\ ToSet(cors.origins) \cap {"*", q.origin} # {}
  IN
  /\ reply.submitted <=> FaultsOf(q.route, q.body) = {}
  /\ ~reply.submitted => /\ reply.code \in FaultsOf(q.route, q.body)
                         /\ reply.status \in {400, 422}
  /\ reply.status \in 200..299 <=>
       /\ reply.submitted /\ q.fate = "answer" /\ q.verdict = "ok"
       /\ q.waiting < QueueDepth(q.env.depth)
       /\ q.route = "step" => q.body.seconds <= Policy(q.env).maxStep
  /\ q.waiting = 0 /\ reply.code = "RUNTIME_BUSY" => q.fate = "timeout"
  /\ reply.cors.allow \subseteq {"*", q.origin}
  /\ reply.cors.allow # {} <=> listed
  /\ "*" \in reply.cors.allow => ~reply.cors.credentials
  /\ reply.cors.vary <=> reply.cors.allow = {q.origin}
  /\ reply.cors.credentials <=> listed /\ cors.credentials
=============================================================================
