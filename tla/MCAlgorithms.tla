---------------------------- MODULE MCAlgorithms ----------------------------
(* Model checking of Algorithms: the questions.                            *)
EXTENDS Algorithms

\* Distances on both sides of every threshold and on it.
MCDistanceSeqs ==
  {<<a, b, c>> : a \in {1, 4, 7}, b, c \in {1, 2, 5, 6, Failed}}
MCPairLists ==
  LET pair(s, d, distances) == [sat |-> s, deb |-> d, d |-> distances]
  IN  {<<pair(1, 4, d), pair(2, 3, e)>> \o others :
         d, e \in MCDistanceSeqs,
         others \in {<<pair(1, 3, <<7, 3, 5>>)>>,
                    <<pair(1, 3, <<7, 3, 5>>), pair(2, 4, <<7, 1, 7>>)>>}}

\* One trigger more than the limit, and three records that are none.
MCWarnings ==
  LET record(s, d, tca, miss, severity, failOpen) ==
        [sat |-> s, deb |-> d, tca |-> tca, miss |-> miss,
         severity |-> severity, failOpen |-> failOpen,
         collision |-> miss < Critical /\ ~failOpen]
  IN  <<record(1, "p", 9, 1, "CRITICAL", FALSE),
        record(2, "x", 9, 1, "CRITICAL", FALSE),
        record(1, "x", 9, 0, "CRITICAL", TRUE),
        record(1, "q", 7, 2, "CRITICAL", FALSE),
        record(1, "r", 8, 2, "CRITICAL", FALSE),
        record(1, "w", 9, 3, "WARNING", FALSE)>>

\* Every outcome of two sizes of burn in two directions against p; against q,
\* of the two sizes, and a late burn does little; against r, the trigger beyond
\* the limit, every burn would do best.
MCScales == <<1, 2>>
Instants == 0..12
Outcome(miss, slotError) == [miss |-> miss, slotError |-> slotError]
MCImpulses ==
  LET against(first, second) ==
        [d \in {"p", "q", "r", "w", "x"} |-> [e \in Instants |-> [s \in ToSet(MCScales) |->
          [dir \in Directions |->
             IF d = "p" THEN first[s][dir]
             ELSE IF d = "r" THEN Outcome(9, 0)
             ELSE IF e > 3 THEN Outcome(3, 0) ELSE second[s]]]]]
  IN  {against(first, second) :
         first \in [ToSet(MCScales) -> [Directions ->
           {Failed, Outcome(1, 0), Outcome(3, 1), Outcome(5, 0)}]],
         second \in [ToSet(MCScales) -> {Failed, Outcome(4, 0), Outcome(5, 2)}]}
MCContacts == {Instants, {}, {4, 5}}

\* Every form of every variable, one variable at a time.
Texts(good) ==
  {Unset, Raw("empty", 0), Raw("garbage", 0), Raw("trailing", good),
   Raw("number", good), Raw("number", 0), Raw("number", 1000)}
Plain == [success |-> Unset, maxStep |-> Unset, depth |-> Unset, cors |-> TRUE,
          credentials |-> FALSE, origins |-> << >>]
MCEnvs ==
  {[Plain EXCEPT !.success = a] : a \in Texts(201)}
  \cup {[Plain EXCEPT !.maxStep = a] : a \in Texts(4)}
  \cup {[Plain EXCEPT !.depth = a] : a \in Texts(1)}
  \cup {[Plain EXCEPT !.cors = a, !.credentials = b, !.origins = c] :
          a, b \in BOOLEAN,
          c \in {<< >>, <<"*">>, <<"page">>, <<"page", "*">>, <<"*", "page">>}}
MCOrigins == {NoOrigin, "page"}

\* Bodies with faults anywhere, alone and together.
MCBodies(route) ==
  LET burns == {{}, {"MISSING_BURN_ID"},
                {"INVALID_BURN_TIME", "DELTA_V_EXCEEDS_LIMIT"}}
  IN
  CASE route = "schedule" ->
         [json : {"object", "malformed", "other value"},
          missing : SUBSET {"satelliteId", "maneuver_sequence"},
          burns : {<< >>} \cup {<<b>> : b \in burns} \cup (burns \X burns)]
    [] route = "telemetry" ->
         [json : {"object", "malformed", "other value", "empty"},
          missing : SUBSET {"timestamp", "objects"},
          timestamp : {"valid", "invalid"}, objects : {<<"valid", "invalid">>}]
    [] route = "step" ->
         [json : {"object", "malformed"}, missing : SUBSET {"step_seconds"},
          seconds : {-1, 0, 1, 4, 5, 8, 9}]
=============================================================================
