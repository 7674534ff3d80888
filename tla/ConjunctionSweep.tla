-------------------------- MODULE ConjunctionSweep --------------------------
(***************************************************************************)
(* The narrow phase of a simulation step: the threads of an OpenMP loop    *)
(* take chunks of the candidate pairs, screen each pair by a linear        *)
(* approximation of its miss distance, refine the near ones, and claim     *)
(* costly full-window refinements from one shared budget with a            *)
(* compare-and-swap loop. A pair that gets no budget, or whose refinement  *)
(* fails, counts as a collision (fail open). After the loop the threads'   *)
(* statistics and events are merged.                                       *)
(*                                                                         *)
(* Distances are small integers; Screening..FastBand are the code's        *)
(* squared thresholds in increasing order of the default configuration.    *)
(* The numerics decide by nondeterministic choice.                         *)
(***************************************************************************)
EXTENDS Integers, FiniteSets, SequencesExt

CONSTANTS
  NumThreads,   \* omp_get_max_threads()
  Chunk,        \* iterations per schedule(dynamic) chunk
  NumSats,
  NumDebris,
  Screening,    \* collision_threshold_sq
  RefineBand,   \* refine_band_sq
  FullBand,     \* full_refine_band_sq, and conjunction_capture_sq
  FastBand,     \* high_rel_speed_band_sq
  PlaneFilter,  \* plane_phase_filter: its rejections are not only counted
  MoidFilter,   \* moid_filter, likewise
  BudgetMin,    \* full_refine_budget_min
  BudgetMax     \* full_refine_budget_max

ASSUME SweepAssumption ==
  /\ NumThreads \in Nat \ {0} /\ Chunk \in Nat \ {0}
  /\ NumSats \in Nat \ {0} /\ NumDebris \in Nat \ {0}
  /\ Screening \in Nat \ {0}
  /\ RefineBand \in Nat /\ FullBand \in Nat /\ FastBand \in Nat
  /\ Screening <= RefineBand /\ Screening <= FullBand /\ FullBand <= FastBand
  /\ PlaneFilter \in BOOLEAN /\ MoidFilter \in BOOLEAN
  /\ BudgetMin \in Nat \ {0} /\ BudgetMax \in Nat /\ BudgetMin <= BudgetMax

Threads == 1..NumThreads
Bigger(a, b) == IF a < b THEN b ELSE a

Distances == 0..(Bigger(RefineBand, FastBand) + 1)
Collision == 0
Failed == -1

\* The minimum distance an RK4 refinement finds, if the integration succeeds.
Refinements == Distances \cup {Failed}

VARIABLES
  phase,      \* "idle", "sweeping"
  work,       \* the pairs of the loop, in loop order
  next,       \* the scheduler's next iteration
  mine,       \* mine[t]: the rest of the chunk of thread t
  pc,         \* pc[t]: where process_pair is
  local,      \* local[t]: its d2, promoted flag, and the evidence for d2
  prev,       \* prev[t]: the budget t has read
  budget,     \* full_refine_budget_atomic
  allocated,  \* narrow_full_refine_budget_allocated
  stats,      \* stats[t]: thread_stats, with its conjunction events
  marks,      \* sat_collision_mark
  out,        \* the merged StepRunStats
  verdict     \* history: verdict[i] of the i-th pair once it is judged

threadVars == <<next, mine, pc, local, prev, budget, stats, marks, verdict>>
vars == <<phase, work, allocated, out, threadVars>>

NoStats == [checked |-> 0, collisions |-> 0, refined |-> 0, exhausted |-> 0,
            events |-> << >>]
NoLocal == [d |-> 0, promoted |-> FALSE, near |-> FALSE, why |-> "none"]
NoVerdict == [hit |-> FALSE, close |-> FALSE, near |-> FALSE, why |-> "none"]

Init ==
  /\ phase = "idle"
  /\ work = << >>
  /\ next = 1
  /\ mine = [t \in Threads |-> << >>]
  /\ pc = [t \in Threads |-> "next"]
  /\ local = [t \in Threads |-> NoLocal]
  /\ prev = [t \in Threads |-> 0]
  /\ budget = 0
  /\ allocated = 0
  /\ stats = [t \in Threads |-> NoStats]
  /\ marks = {}
  /\ out = NoStats
  /\ verdict = << >>

-----------------------------------------------------------------------------
(* Before the loop.                                                        *)

Pairs == [sat : 1..NumSats, deb : 1..NumDebris]

\* The order of (sat_idx, obj_idx).
Precedes(p, q) == p.sat < q.sat \/ (p.sat = q.sat /\ p.deb < q.deb)

\* The sorted broad-phase candidates: any of the pairs; and all of them when
\* some object could not be propagated.
Candidates ==
  {pairs \in UNION {[1..n -> Pairs] : n \in 0..(NumSats * NumDebris)} :
     \A i, j \in DOMAIN pairs : i < j => Precedes(pairs[i], pairs[j])}

\* The budget depends on the number of pairs and the step length, is halved
\* after a failure, and is clamped.
StartSweep(pairs) ==
  /\ phase' = "sweeping"
  /\ work' = pairs
  /\ next' = 1
  /\ budget' \in BudgetMin..BudgetMax
  /\ allocated' = budget'
  /\ stats' = [t \in Threads |-> NoStats]
  /\ out' = NoStats
  /\ verdict' = [i \in DOMAIN pairs |-> NoVerdict]
  /\ UNCHANGED <<mine, pc, local, prev>>

\* Mutant: the static mark buffer keeps the marks of the previous step.
BeginSweepKeepsMarks ==
  /\ phase = "idle"
  /\ \E pairs \in Candidates : StartSweep(pairs)
  /\ UNCHANGED marks

BeginSweep ==
  /\ phase = "idle"
  /\ \E pairs \in Candidates : StartSweep(pairs)
  /\ marks' = {}

-----------------------------------------------------------------------------
(* A thread of the loop.                                                   *)

Moves(t, from, to) ==
  /\ phase = "sweeping"
  /\ pc[t] = from
  /\ pc' = [pc EXCEPT ![t] = to]

\* schedule(dynamic): the thread takes the next chunk of iterations.
TakeChunk(t) ==
  /\ Moves(t, "next", "screen")
  /\ next <= Len(work)
  /\ mine' = [mine EXCEPT ![t] =
       [k \in 1..(IF next + Chunk - 1 <= Len(work)
                  THEN Chunk ELSE Len(work) - next + 1) |-> next + k - 1]]
  /\ next' = next + Chunk
  /\ UNCHANGED <<phase, work, allocated, out, local, prev, budget, stats, marks,
                 verdict>>

\* No iteration is left: the thread waits at the barrier.
ReachBarrier(t) ==
  /\ Moves(t, "next", "barrier")
  /\ next > Len(work)
  /\ UNCHANGED <<phase, work, allocated, out, next, mine, local, prev, budget,
                 stats, marks, verdict>>

\* tca_min_d2, the gates, and the micro refinement: what process_pair computes
\* without looking at the budget, for a pair at distance d.
Screened(d, fast, rejected, micro) ==
  LET promoted == fast /\ d > FullBand /\ d <= FastBand
      near == \/ d >= Screening /\ d <= RefineBand
              \/ d > Screening /\ (d <= FullBand \/ promoted)
      cut == near /\ rejected /\ ~promoted
      gated == IF cut THEN Bigger(d, Bigger(RefineBand, FullBand) + 1) ELSE d
      refine == gated >= Screening /\ gated <= RefineBand
  IN  [d |-> IF ~refine THEN gated
             ELSE IF micro = Failed THEN Collision ELSE micro,
       promoted |-> promoted,
       near |-> near,
       why |-> IF cut THEN "gate" ELSE IF refine THEN "micro" ELSE "screen"]

NeedsFull(pair) ==
  pair.d > Screening /\ (pair.d <= FullBand \/ pair.promoted)

\* The plane and phase gate and the MOID gate: orbits, not positions, decide,
\* and invalid or eccentric ones never reject. A gate in shadow mode only counts.
PlaneRejections == IF PlaneFilter THEN BOOLEAN ELSE {FALSE}
MoidRejections == IF MoidFilter THEN BOOLEAN ELSE {FALSE}

\* Whatever the numerics say of a pair.
Screenings ==
  {Screened(d, fast, plane \/ moid, micro) :
     d \in Distances, fast \in BOOLEAN, micro \in Refinements,
     plane \in PlaneRejections, moid \in MoidRejections}

ScreenPair(t) ==
  /\ \E pair \in Screenings :
       /\ local' = [local EXCEPT ![t] = pair]
       /\ Moves(t, "screen", IF NeedsFull(pair) THEN "load" ELSE "judge")
  /\ stats' = [stats EXCEPT ![t].checked = @ + 1]
  /\ UNCHANGED <<phase, work, allocated, out, next, mine, prev, budget, marks,
                 verdict>>

\* Mutant: a pair without budget keeps its screened distance (fail closed).
RefuseClosed(t) ==
  /\ local' = [local EXCEPT ![t].why = "refused"]
  /\ stats' = [stats EXCEPT ![t].exhausted = @ + 1]

\* The budget is exhausted: the pair counts as a collision.
RefusePair(t) ==
  /\ local' = [local EXCEPT ![t].d = Collision, ![t].why = "refused"]
  /\ stats' = [stats EXCEPT ![t].exhausted = @ + 1]

\* Mutant: the budget is taken without the test for zero.
LoadUnchecked(t) ==
  /\ prev' = [prev EXCEPT ![t] = budget]
  /\ Moves(t, "load", "swap")
  /\ UNCHANGED <<phase, work, allocated, out, next, mine, local, budget, stats,
                 marks, verdict>>

\* The loop that claims a unit of the budget starts with a load. A swap that
\* fails spuriously (compare_exchange_weak) reloads the same value: a stutter.
LoadBudget(t) ==
  /\ prev' = [prev EXCEPT ![t] = budget]
  /\ IF budget = 0
     THEN Moves(t, "load", "judge") /\ RefusePair(t)
     ELSE Moves(t, "load", "swap") /\ UNCHANGED <<local, stats>>
  /\ UNCHANGED <<phase, work, allocated, out, next, mine, budget, marks,
                 verdict>>

\* Mutant: a load and a store instead of a compare-and-swap.
SwapBlindly(t) ==
  /\ Moves(t, "swap", "full")
  /\ budget' = prev[t] - 1
  /\ UNCHANGED <<phase, work, allocated, out, next, mine, local, prev, stats,
                 marks, verdict>>

\* compare_exchange_weak finds the value it expects.
SwapBudget(t) ==
  /\ Moves(t, "swap", "full")
  /\ budget = prev[t]
  /\ budget' = prev[t] - 1
  /\ UNCHANGED <<phase, work, allocated, out, next, mine, local, prev, stats,
                 marks, verdict>>

\* Mutant: the expected value is not reloaded.
SwapFailsStale(t) ==
  /\ phase = "sweeping"
  /\ pc[t] = "swap"
  /\ budget # prev[t]
  /\ UNCHANGED vars

\* It finds another value and loads it; the loop ends when that is zero.
SwapFails(t) ==
  /\ budget # prev[t]
  /\ prev' = [prev EXCEPT ![t] = budget]
  /\ IF budget = 0
     THEN Moves(t, "swap", "judge") /\ RefusePair(t)
     ELSE Moves(t, "swap", "swap") /\ UNCHANGED <<local, stats>>
  /\ UNCHANGED <<phase, work, allocated, out, next, mine, budget, marks,
                 verdict>>

\* full_window_min_d2_rk4.
RefineFully(t) ==
  /\ Moves(t, "full", "judge")
  /\ \E full \in Distances \cup {Failed} :
       local' = [local EXCEPT
         ![t].d = IF full = Failed THEN Collision ELSE full,
         ![t].why = "full"]
  /\ stats' = [stats EXCEPT ![t].refined = @ + 1]
  /\ UNCHANGED <<phase, work, allocated, out, next, mine, prev, budget, marks,
                 verdict>>

\* The collision is marked and counted, the conjunction captured.
JudgePair(t) ==
  LET i == Head(mine[t])
      hit == local[t].d < Screening
      close == local[t].d <= FullBand
  IN
  /\ Moves(t, "judge", IF Len(mine[t]) = 1 THEN "next" ELSE "screen")
  /\ mine' = [mine EXCEPT ![t] = Tail(@)]
  /\ marks' = IF hit THEN marks \cup {work[i].sat} ELSE marks
  /\ stats' = [stats EXCEPT
       ![t].collisions = IF hit THEN @ + 1 ELSE @,
       ![t].events = IF close THEN Append(@, work[i]) ELSE @]
  /\ verdict' = [verdict EXCEPT ![i] =
       [hit |-> hit, close |-> close, near |-> local[t].near,
        why |-> local[t].why]]
  /\ local' = [local EXCEPT ![t] = NoLocal]
  /\ prev' = [prev EXCEPT ![t] = 0]
  /\ UNCHANGED <<phase, work, allocated, out, next, budget>>

-----------------------------------------------------------------------------
(* After the loop.                                                         *)

\* Mutant: the events of a thread replace those of the threads before it.
AddStatsReplaces(a, b) ==
  [checked |-> a.checked + b.checked,
   collisions |-> a.collisions + b.collisions,
   refined |-> a.refined + b.refined,
   exhausted |-> a.exhausted + b.exhausted,
   events |-> b.events]

AddStats(a, b) ==
  [checked |-> a.checked + b.checked,
   collisions |-> a.collisions + b.collisions,
   refined |-> a.refined + b.refined,
   exhausted |-> a.exhausted + b.exhausted,
   events |-> a.events \o b.events]

Merge ==
  /\ phase = "sweeping"
  /\ \A t \in Threads : pc[t] = "barrier"
  /\ phase' = "idle"
  /\ pc' = [t \in Threads |-> "next"]
  /\ out' = FoldLeft(AddStats, NoStats, stats)
  /\ UNCHANGED <<work, allocated, next, mine, local, prev, budget, stats, marks,
                 verdict>>

-----------------------------------------------------------------------------
ThreadNext(t) ==
  \/ TakeChunk(t) \/ ReachBarrier(t) \/ ScreenPair(t) \/ LoadBudget(t)
  \/ SwapBudget(t) \/ SwapFails(t) \/ RefineFully(t) \/ JudgePair(t)

Next == BeginSweep \/ Merge \/ \E t \in Threads : ThreadNext(t)

Spec == Init /\ [][Next]_vars

\* Threads of a running loop are scheduled, and the loop's end is reached.
SweepFairness == WF_vars(Merge) /\ \A t \in Threads : WF_vars(ThreadNext(t))

FairSpec == Spec /\ SweepFairness

-----------------------------------------------------------------------------
(* Properties.                                                             *)

Evidence == {"none", "screen", "gate", "micro", "full", "refused"}
Locals == [d : Distances, promoted : BOOLEAN, near : BOOLEAN, why : Evidence]
Verdicts == [hit : BOOLEAN, close : BOOLEAN, near : BOOLEAN, why : Evidence]
Stats == [checked : Nat, collisions : Nat, refined : Nat, exhausted : Nat,
          events : Seq(Pairs)]

\* Every variable has its type; the budget never underflows.
TypeOK ==
  /\ phase \in {"idle", "sweeping"}
  /\ work \in Seq(Pairs)
  /\ next \in Nat
  /\ mine \in [Threads -> Seq(Nat)]
  /\ pc \in [Threads -> {"next", "screen", "load", "swap", "full", "judge",
                         "barrier"}]
  /\ local \in [Threads -> Locals]
  /\ prev \in [Threads -> Nat]
  /\ budget \in Nat /\ allocated \in Nat
  /\ stats \in [Threads -> Stats]
  /\ marks \subseteq 1..NumSats
  /\ out \in Stats
  /\ verdict \in Seq(Verdicts)

\* The pairs judged on evidence e, and the threads about to judge on it.
Judged(e) == {i \in DOMAIN verdict : verdict[i].why = e}
Holding(e) == {t \in Threads : local[t].why = e}

\* Whatever the threads' interleaving, the full refinements done or under way
\* use up exactly the budget that is gone, and a pair is refused only when all
\* of it is gone.
BudgetIsConserved ==
  /\ budget + Cardinality(Judged("full")) + Cardinality(Holding("full"))
       + Cardinality({t \in Threads : pc[t] = "full"}) = allocated
  /\ Judged("refused") # {} \/ Holding("refused") # {} => budget = 0

\* No silent false negative: a pair whose screening came near the threshold is
\* cleared only by a refinement that was carried out, or by an enabled gate.
ClearedOnEvidence ==
  \A i \in DOMAIN verdict :
    verdict[i].near /\ ~verdict[i].hit =>
      verdict[i].why \in {"micro", "full"} \cup
        (IF PlaneFilter \/ MoidFilter THEN {"gate"} ELSE {})

\* What the step reports after a sweep is what its threads found: every pair
\* counted once, every collision and every close approach, and the marks of
\* the satellites hit in this step and no other.
ReportIsWhole ==
  phase = "idle" =>
    LET hits == {i \in DOMAIN verdict : verdict[i].hit}
        close == {i \in DOMAIN verdict : verdict[i].close}
    IN  /\ out.checked = Len(work)
        /\ out.collisions = Cardinality(hits)
        /\ out.refined = Cardinality(Judged("full"))
        /\ out.exhausted = Cardinality(Judged("refused"))
        /\ Len(out.events) = Cardinality(close)
        /\ ToSet(out.events) = {work[i] : i \in close}
        /\ marks = {work[i].sat : i \in hits}

\* The loop ends, however the threads race for the budget.
SweepEnds == phase = "sweeping" ~> phase = "idle"

\* A claim of the repository that the code does not keep: which pairs exhaust
\* the budget follows from the sorted order alone.
BudgetGoesInOrder ==
  phase = "idle" => \A i \in Judged("refused"), j \in Judged("full") : j < i
=============================================================================
