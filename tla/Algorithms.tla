----------------------------- MODULE Algorithms -----------------------------
(***************************************************************************)
(* The computations of the runtime that keep no state of their own: the    *)
(* trajectory of a satellite, the predictive scan, the avoidance burn, and *)
(* the reply to a request. A behaviour answers one question.               *)
(***************************************************************************)
EXTENDS TrackView, ConjunctionScan, HttpApi

CONSTANTS
  StepLengths, MaxSteps,   \* the simulation steps behind a trajectory
  PairLists,               \* the candidates of a broad phase
  Warnings,                \* the records an avoidance burn is planned from
  Impulses,                \* the outcomes of its burns, as functions
  Contacts,                \* sets of burn epochs with an upload window
  Envs, Origins,           \* environments and the origins of pages
  Bodies(_)                \* the bodies a client may send to a route

\* A step moves the clock forward.
ASSUME StepAssumption ==
  /\ StepLengths \subseteq Nat \ {0} /\ MaxSteps \in Nat

\* A candidate is there once, and the present distance needs no propagation.
ASSUME PairAssumption ==
  \A pairs \in PairLists :
    /\ pairs \in Seq([sat : Int, deb : Int, d : Seq(Nat \cup {Failed})])
    /\ \A i \in DOMAIN pairs : pairs[i].d # << >> /\ pairs[i].d[1] # Failed
    /\ \A i, j \in DOMAIN pairs :
         pairs[i].sat = pairs[j].sat /\ pairs[i].deb = pairs[j].deb => i = j

\* What a burn comes to, if that can be computed.
Outcomes == {Failed} \cup [miss : Int, slotError : Int]

ASSUME AvoidanceAssumption ==
  /\ Warnings \in Seq([sat : Int, deb : STRING, tca : Int, miss : Int,
                       severity : {"CRITICAL", "WARNING", "WATCH"},
                       failOpen : BOOLEAN, collision : BOOLEAN])
  /\ Contacts \subseteq SUBSET Int
  /\ Impulses \subseteq
       [{Warnings[i].deb : i \in DOMAIN Warnings} ->
          [UNION Contacts -> [ToSet(Scales) -> [Directions -> Outcomes]]]]

VARIABLES question, answer

vars == <<question, answer>>
NoAnswer == [none |-> TRUE]
Routes == {"schedule", "telemetry", "step"}

\* The Origin header of a page is never the wildcard.
ASSUME RequestAssumption ==
  /\ \A route \in Routes : Bodies(route) \subseteq BodyForms(route)
  /\ Envs \subseteq Environments(Origins)
  /\ "*" \notin Origins

\* A satellite recorded from the first step on or never, with up to two burns
\* on the way, and how far its present state can be propagated.
AskTrajectory ==
  \E n \in 1..MaxSteps : \E steps \in [1..n -> StepLengths] :
  \E b, c \in 1..ClockAfter(steps), burnt, recorded, known \in BOOLEAN,
     reach \in 0..PointCount :
    question = [kind |-> "trajectory", now |-> ClockAfter(steps),
                trail |-> IF recorded THEN TrailAfter(steps) ELSE << >>,
                burns |-> IF burnt THEN {b, c} ELSE {},
                known |-> known, reach |-> reach]

AskScan ==
  \E pairs \in PairLists : question = [kind |-> "scan", pairs |-> pairs]

AskAvoidance ==
  \E last \in {{}, {0}}, pending \in {{}, {2}, {9}}, contacts \in Contacts,
     impulse \in Impulses :
    question = [kind |-> "avoidance", sat |-> 1, now |-> 0, latency |-> 1,
                cooldown |-> 3, last |-> last, pending |-> pending,
                contacts |-> contacts, records |-> Warnings,
                impulse |-> impulse]

\* Whatever the body, and for a good body whatever the environment and page.
AskRequest ==
  \E route \in Routes : \E body \in Bodies(route), env \in Envs,
     origin \in Origins, waiting \in {0, DefaultDepth}, verdict \in Verdicts(route),
     fate \in {"answer", "failure", "timeout", "stopped"} :
    /\ BodyFault(route, body) # NoFault => verdict = "ok" /\ fate = "answer"
    /\ question = [kind |-> "request", route |-> route, body |-> body,
                   env |-> env, origin |-> origin, waiting |-> waiting,
                   fate |-> fate, verdict |-> verdict]

Init ==
  /\ answer = NoAnswer
  /\ AskTrajectory \/ AskScan \/ AskAvoidance \/ AskRequest

Asked(kind) == question.kind = kind /\ answer = NoAnswer

\* trajectory_json.
ShowTrajectory ==
  /\ Asked("trajectory")
  /\ answer' = Trajectory(question.trail, question.burns, question.now,
                          question.known, question.reach)
  /\ UNCHANGED question

\* compute_cdm_warnings_24h.
Scan ==
  /\ Asked("scan")
  /\ answer' = CdmScan(question.pairs)
  /\ UNCHANGED question

\* build_auto_cola_plan.
PlanAvoidance ==
  /\ Asked("avoidance")
  /\ answer' = ColaPlan(question)
  /\ UNCHANGED question

\* A POST route of register_routes.
Reply ==
  /\ Asked("request")
  /\ answer' = Post(question.route, question.body, question.env,
                    question.origin, question.waiting, question.fate,
                    question.verdict)
  /\ UNCHANGED question

Next == ShowTrajectory \/ Scan \/ PlanAvoidance \/ Reply

Spec == Init /\ [][Next]_vars

-----------------------------------------------------------------------------
(* Properties.                                                             *)

Answered(kind) == question.kind = kind /\ answer # NoAnswer

\* GET /api/visualization/trajectory shows no point on the wrong side of a
\* burn and leaves nothing out.
TrajectoriesAreFaithful ==
  Answered("trajectory") => TrajectoryIsFaithful(question, answer)

\* The scan counts every dangerous pair and lists the worst of them.
CdmScanIsSound == Answered("scan") => ScanIsSound(question.pairs, answer)

\* The avoidance burn is the least that is safe, or the best there is.
ColaPlanIsBest == Answered("avoidance") => PlanIsBest(question, answer)

\* The status of a reply says whether the command was carried out, and the
\* pages that may read it can.
RequestsAreAnswered ==
  Answered("request") => ReplyIsTruthful(question, answer)
=============================================================================
