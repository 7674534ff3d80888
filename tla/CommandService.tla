--------------------------- MODULE CommandService ---------------------------
(***************************************************************************)
(* What the runtime boundary promises to the HTTP handlers, without its    *)
(* queue, its worker thread or its locks: commands that change the engine  *)
(* take effect one at a time, in the order in which they were accepted; a  *)
(* caller that gets an answer got it after the effect and at most once; a  *)
(* caller that gave up says nothing about the effect, which still comes;   *)
(* readers see some earlier state of the engine, and never go back.        *)
(***************************************************************************)
EXTENDS Sequences, SequencesExt

CONSTANT Requests       \* commands: one per POST handler invocation

VARIABLES
  phase,      \* phase[r]: what the caller of r knows
  backlog,    \* accepted commands that have had no effect yet, oldest first
  log,        \* commands whose effect the engine state contains, in order
  seen        \* the log as the read endpoints show it

vars == <<phase, backlog, log, seen>>

Phases == {"new", "pending", "answered", "failed", "abandoned", "refused"}

Init ==
  /\ phase = [r \in Requests |-> "new"]
  /\ backlog = << >>
  /\ log = << >>
  /\ seen = << >>

Moves(r, from, to) ==
  /\ phase[r] = from
  /\ phase' = [phase EXCEPT ![r] = to]

Accept(r) ==
  /\ Moves(r, "new", "pending")
  /\ backlog' = Append(backlog, r)
  /\ UNCHANGED <<log, seen>>

Refuse(r) ==
  /\ Moves(r, "new", "refused")
  /\ UNCHANGED <<backlog, log, seen>>

\* The oldest command takes effect ...
Apply ==
  /\ backlog # << >>
  /\ log' = Append(log, Head(backlog))
  /\ backlog' = Tail(backlog)
  /\ UNCHANGED <<phase, seen>>

\* ... or fails before it changed anything.
Skip ==
  /\ backlog # << >>
  /\ backlog' = Tail(backlog)
  /\ UNCHANGED <<phase, log, seen>>

Answer(r) ==
  /\ Moves(r, "pending", "answered")
  /\ Contains(log, r)
  /\ UNCHANGED <<backlog, log, seen>>

Fail(r) ==
  /\ Moves(r, "pending", "failed")
  /\ ~Contains(backlog, r)
  /\ UNCHANGED <<backlog, log, seen>>

Abandon(r) ==
  /\ Moves(r, "pending", "abandoned")
  /\ UNCHANGED <<backlog, log, seen>>

Show ==
  /\ seen' = log
  /\ UNCHANGED <<phase, backlog, log>>

Next ==
  \/ \E r \in Requests : \/ Accept(r) \/ Refuse(r)
                         \/ Answer(r) \/ Fail(r) \/ Abandon(r)
  \/ Apply
  \/ Skip
  \/ Show

Spec == Init /\ [][Next]_vars
=============================================================================
