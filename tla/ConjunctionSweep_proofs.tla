----------------------- MODULE ConjunctionSweep_proofs ------------------------
(***************************************************************************)
(* Proofs about ConjunctionSweep, for any number of threads and pairs, any *)
(* chunk size and any budget: the compare-and-swap loop neither loses nor  *)
(* invents a unit of the budget, no pair is cleared without evidence, and  *)
(* the merged report counts every pair once.                               *)
(***************************************************************************)
EXTENDS ConjunctionSweep, FoldTheorems

-----------------------------------------------------------------------------
(* Types and the places of the threads.                                    *)

Places == {"next", "screen", "load", "swap", "full", "judge", "barrier"}

TypeInv ==
  /\ phase \in {"idle", "sweeping"}
  /\ work \in Seq(Pairs)
  /\ next \in Nat \ {0}
  /\ mine \in [Threads -> Seq(Nat)]
  /\ pc \in [Threads -> Places]
  /\ local \in [Threads -> Locals]
  /\ prev \in [Threads -> Nat]
  /\ budget \in Nat /\ allocated \in Nat
  /\ verdict \in [DOMAIN work -> Verdicts]

(* A thread outside a pair holds no result; one inside a pair has a chunk, *)
(* a run of consecutive iterations that the scheduler has given away.      *)
PlaceInv ==
  \A t \in Threads :
    /\ pc[t] \in {"next", "barrier"} <=> mine[t] = << >>
    /\ pc[t] \in {"next", "barrier", "screen"} => local[t] = NoLocal
    /\ pc[t] \in {"load", "swap", "full"} =>
         local[t].why \notin {"full", "refused"}
    /\ pc[t] = "swap" => prev[t] > 0
    /\ phase = "idle" => pc[t] = "next"
    /\ \A k \in DOMAIN mine[t] : mine[t][k] = mine[t][1] + k - 1
    /\ \A k \in DOMAIN mine[t] : mine[t][k] \in DOMAIN work /\ mine[t][k] < next

(* An iteration in a chunk, or not yet given away, is not judged; chunks   *)
(* of two threads have nothing in common.                                  *)
ChunkInv ==
  /\ \A i \in DOMAIN work : i >= next => verdict[i].why = "none"
  /\ \A t \in Threads : \A k \in DOMAIN mine[t] : verdict[mine[t][k]].why = "none"
  /\ \A t, u \in Threads : t # u =>
       \A k \in DOMAIN mine[t], l \in DOMAIN mine[u] : mine[t][k] # mine[u][l]

LEMMA BiggerType ==
  ASSUME NEW a \in Nat, NEW b \in Nat
  PROVE  Bigger(a, b) \in Nat /\ Bigger(a, b) >= a /\ Bigger(a, b) >= b
BY DEF Bigger

LEMMA DistancesType ==
  /\ Distances \subseteq Nat /\ Collision \in Distances
  /\ RefineBand + 1 \in Distances /\ FullBand + 1 \in Distances
<1> USE SweepAssumption
<1>1. Bigger(RefineBand, FastBand) \in Nat
  BY BiggerType
<1>2. Bigger(RefineBand, FastBand) >= RefineBand /\ Bigger(RefineBand, FastBand) >= FastBand
  BY BiggerType
<1> QED
  BY <1>1, <1>2 DEF Distances, Collision

(* A screened pair: its type, and when it may be judged at once.           *)
Evident(pair) ==
  pair.near /\ ~(pair.d < Screening) =>
    pair.why \in {"micro", "full"} \cup
      (IF PlaneFilter \/ MoidFilter THEN {"gate"} ELSE {})

LEMMA ScreenedPairs ==
  ASSUME NEW pair \in Screenings
  PROVE  /\ pair \in Locals
         /\ pair.why \in {"screen", "gate", "micro"}
         /\ ~NeedsFull(pair) => Evident(pair)
<1> USE SweepAssumption
<1>1. PICK d \in Distances, fast \in BOOLEAN, micro \in Refinements,
           plane \in PlaneRejections, moid \in MoidRejections :
             pair = Screened(d, fast, plane \/ moid, micro)
  BY DEF Screenings
<1> DEFINE rejected == plane \/ moid
           promoted == fast /\ d > FullBand /\ d <= FastBand
           near == \/ d >= Screening /\ d <= RefineBand
                   \/ d > Screening /\ (d <= FullBand \/ promoted)
           cut == near /\ rejected /\ ~promoted
           gated == IF cut THEN Bigger(d, Bigger(RefineBand, FullBand) + 1) ELSE d
           refine == gated >= Screening /\ gated <= RefineBand
           why == IF cut THEN "gate" ELSE IF refine THEN "micro" ELSE "screen"
           dist == IF ~refine THEN gated
                   ELSE IF micro = Failed THEN Collision ELSE micro
<1>2. /\ rejected \in BOOLEAN
      /\ rejected => PlaneFilter \/ MoidFilter
  BY DEF PlaneRejections, MoidRejections
<1>3. pair = [d |-> dist, promoted |-> promoted, near |-> near, why |-> why]
  BY <1>1 DEF Screened
<1>4. d \in Nat /\ Distances \subseteq Nat /\ Collision \in Distances
  BY DistancesType
<1>5. gated \in Distances
  <2>1. CASE ~cut
    BY <2>1
  <2>2. CASE cut
    <3>1. d <= RefineBand \/ d <= FullBand
      BY <1>4, <2>2
    <3>2. /\ Bigger(RefineBand, FullBand) \in {RefineBand, FullBand}
          /\ RefineBand <= Bigger(RefineBand, FullBand)
          /\ FullBand <= Bigger(RefineBand, FullBand)
      BY BiggerType DEF Bigger
    <3>3. gated = Bigger(RefineBand, FullBand) + 1
      BY <1>4, <2>2, <3>1, <3>2 DEF Bigger
    <3> QED
      BY <3>2, <3>3, DistancesType
  <2> QED
    BY <2>1, <2>2
<1>6. dist \in Distances
  BY <1>4, <1>5 DEF Refinements
<1>7. why \in {"screen", "gate", "micro"} /\ promoted \in BOOLEAN /\ near \in BOOLEAN
  OBVIOUS
<1>8. ASSUME near, ~(dist > Screening /\ (dist <= FullBand \/ promoted))
      PROVE  why \in {"micro", "gate"}
  <2>1. CASE ~cut /\ ~refine
    BY <1>4, <1>8, <2>1
  <2> QED
    BY <2>1
<1>9. why = "gate" => PlaneFilter \/ MoidFilter
  BY <1>2
<1> HIDE DEF why, dist, promoted, near
<1>10. /\ pair.d = dist /\ pair.promoted = promoted /\ pair.near = near
       /\ pair.why = why
  BY <1>3
<1>11. pair \in Locals
  BY <1>3, <1>6, <1>7 DEF Locals, Evidence
<1>12. ~NeedsFull(pair) => Evident(pair)
  BY <1>8, <1>9, <1>10 DEF NeedsFull, Evident
<1> QED
  BY <1>7, <1>10, <1>11, <1>12

LEMMA NoLocalType == NoLocal \in Locals /\ NoLocal.why = "none"
<1>1. 0 \in Distances
  BY DistancesType DEF Collision
<1> QED
  BY <1>1 DEF NoLocal, Locals, Evidence

(* A refusal, whichever load finds the budget exhausted.                   *)
LEMMA RefusalTypes ==
  ASSUME TypeInv, NEW t \in Threads, RefusePair(t)
  PROVE  /\ local' \in [Threads -> Locals]
         /\ local'[t].d = Collision /\ local'[t].why = "refused"
         /\ \A u \in Threads : u # t => local'[u] = local[u]
<1>1. local[t] \in Locals /\ Collision \in Distances
  BY DistancesType DEF TypeInv
<1>2. local' = [local EXCEPT ![t] =
                  [local[t] EXCEPT !.d = Collision, !.why = "refused"]]
  BY <1>1 DEF RefusePair, TypeInv, Locals
<1> DEFINE refused == [local[t] EXCEPT !.d = Collision, !.why = "refused"]
<1>3. refused \in Locals /\ refused.d = Collision /\ refused.why = "refused"
  BY <1>1 DEF Locals, Evidence
<1> HIDE DEF refused
<1> QED
  BY <1>2, <1>3 DEF TypeInv, refused

LEMMA RefinedTypes ==
  ASSUME TypeInv, NEW t \in Threads, RefineFully(t)
  PROVE  /\ local' \in [Threads -> Locals]
         /\ local'[t].why = "full"
         /\ \A u \in Threads : u # t => local'[u] = local[u]
<1>1. PICK full \in Distances \cup {Failed} :
        local' = [local EXCEPT
          ![t].d = IF full = Failed THEN Collision ELSE full,
          ![t].why = "full"]
  BY DEF RefineFully
<1> DEFINE found == IF full = Failed THEN Collision ELSE full
           refined == [local[t] EXCEPT !.d = found, !.why = "full"]
<1>2. local[t] \in Locals /\ found \in Distances
  BY DistancesType DEF TypeInv
<1> HIDE DEF found
<1>3. refined \in Locals /\ refined.why = "full"
  BY <1>2 DEF Locals, Evidence
<1>4. local' = [local EXCEPT ![t] = refined]
  BY <1>1 DEF TypeInv, found
<1> HIDE DEF refined
<1> QED
  BY <1>3, <1>4 DEF TypeInv

(* What a judged pair leaves.                                              *)
LEMMA JudgedTypes ==
  ASSUME TypeInv, PlaceInv, NEW t \in Threads, JudgePair(t)
  PROVE  LET i == mine[t][1] IN
           /\ mine[t] # << >> /\ i \in DOMAIN work /\ i \in Nat
           /\ mine' = [mine EXCEPT ![t] = Tail(mine[t])]
           /\ Tail(mine[t]) \in Seq(Nat)
           /\ pc' = [pc EXCEPT ![t] = IF Tail(mine[t]) = << >> THEN "next" ELSE "screen"]
           /\ local' = [local EXCEPT ![t] = NoLocal]
           /\ \E v \in Verdicts :
                /\ verdict' = [verdict EXCEPT ![i] = v]
                /\ v.hit = (local[t].d < Screening)
                /\ v.close = (local[t].d <= FullBand)
                /\ v.near = local[t].near /\ v.why = local[t].why
<1> DEFINE i == mine[t][1]
           hit == local[t].d < Screening
           close == local[t].d <= FullBand
           v == [hit |-> hit, close |-> close, near |-> local[t].near,
                 why |-> local[t].why]
<1>1. mine[t] \in Seq(Nat) /\ pc[t] = "judge"
  BY DEF TypeInv, JudgePair, Moves
<1>2. mine[t] # << >>
  BY <1>1 DEF PlaceInv
<1>3. /\ 1 \in DOMAIN mine[t] /\ Head(mine[t]) = i /\ i \in Nat
      /\ Tail(mine[t]) \in Seq(Nat)
      /\ Len(mine[t]) = 1 <=> Tail(mine[t]) = << >>
  <2>1. ASSUME NEW m \in Seq(Nat), m # << >>
        PROVE  /\ 1 \in DOMAIN m /\ Head(m) = m[1] /\ m[1] \in Nat
               /\ Tail(m) \in Seq(Nat) /\ Len(m) \in Nat \ {0}
               /\ Len(Tail(m)) = Len(m) - 1
    BY <2>1
  <2>2. \A m \in Seq(Nat) : m = << >> <=> Len(m) = 0
    OBVIOUS
  <2>3. /\ 1 \in DOMAIN mine[t] /\ Head(mine[t]) = i /\ i \in Nat
        /\ Tail(mine[t]) \in Seq(Nat) /\ Len(mine[t]) \in Nat \ {0}
        /\ Len(Tail(mine[t])) = Len(mine[t]) - 1
    BY <1>1, <1>2, <2>1
  <2>4. Tail(mine[t]) = << >> <=> Len(mine[t]) - 1 = 0
    BY <2>2, <2>3
  <2> QED
    BY <2>3, <2>4
<1>4. i \in DOMAIN work
  BY <1>3 DEF PlaceInv
<1>5. /\ mine' = [mine EXCEPT ![t] = Tail(mine[t])]
      /\ pc' = [pc EXCEPT ![t] = IF Len(mine[t]) = 1 THEN "next" ELSE "screen"]
      /\ local' = [local EXCEPT ![t] = NoLocal]
      /\ verdict' = [verdict EXCEPT ![i] = v]
  BY <1>3 DEF JudgePair, Moves
<1>6. v \in Verdicts
  <2>1. local[t].near \in BOOLEAN /\ local[t].why \in Evidence
    BY DEF TypeInv, Locals
  <2>2. hit \in BOOLEAN /\ close \in BOOLEAN
    OBVIOUS
  <2> QED
    BY <2>1, <2>2 DEF Verdicts
<1> QED
  BY <1>2, <1>3, <1>4, <1>5, <1>6

(* What a thread is given.                                                 *)
LEMMA ChunkTypes ==
  ASSUME TypeInv, NEW t \in Threads, TakeChunk(t)
  PROVE  \E c \in Nat \ {0} :
           /\ next + c - 1 <= Len(work) /\ c <= Chunk
           /\ c = Chunk \/ next + c - 1 = Len(work)
           /\ mine' = [mine EXCEPT ![t] = [k \in 1..c |-> next + k - 1]]
           /\ [k \in 1..c |-> next + k - 1] \in Seq(Nat)
           /\ next' = next + Chunk
<1> DEFINE c == IF next + Chunk - 1 <= Len(work) THEN Chunk ELSE Len(work) - next + 1
<1>1. /\ next \in Nat /\ Len(work) \in Nat /\ Chunk \in Nat \ {0} /\ next <= Len(work)
      /\ mine' = [mine EXCEPT ![t] = [k \in 1..c |-> next + k - 1]]
      /\ next' = next + Chunk
  BY SweepAssumption DEF TypeInv, TakeChunk
<1>2. /\ c \in Nat \ {0} /\ next + c - 1 <= Len(work) /\ c <= Chunk
      /\ c = Chunk \/ next + c - 1 = Len(work)
  BY <1>1
<1> HIDE DEF c
<1>3. \A k \in 1..c : next + k - 1 \in Nat
  BY <1>1, <1>2
<1>4. [k \in 1..c |-> next + k - 1] \in Seq(Nat)
  BY <1>2, <1>3
<1> QED
  BY <1>1, <1>2, <1>4

-----------------------------------------------------------------------------
LEMMA TypeStep == TypeInv /\ PlaceInv /\ [Next]_vars => TypeInv'
<1> USE SweepAssumption
<1> SUFFICES ASSUME TypeInv, PlaceInv, [Next]_vars PROVE TypeInv'
  OBVIOUS
<1>1. CASE BeginSweep
  <2>1. PICK pairs \in Candidates : StartSweep(pairs)
    BY <1>1 DEF BeginSweep
  <2>2. pairs \in Seq(Pairs)
    BY <2>1 DEF Candidates
  <2>3. NoVerdict \in Verdicts
    BY DEF NoVerdict, Verdicts, Evidence
  <2> QED
    BY <2>1, <2>2, <2>3 DEF StartSweep, TypeInv
<1>2. CASE Merge
  BY <1>2 DEF Merge, TypeInv, Places
<1>3. ASSUME NEW t \in Threads, TakeChunk(t) PROVE TypeInv'
  <2>1. UNCHANGED <<phase, work, allocated, local, prev, budget, verdict>>
    BY <1>3 DEF TakeChunk
  <2>2. pc' \in [Threads -> Places]
    BY <1>3 DEF TakeChunk, Moves, TypeInv, Places
  <2>3. mine' \in [Threads -> Seq(Nat)] /\ next' \in Nat \ {0}
    <3>1. PICK c \in Nat \ {0} :
            /\ mine' = [mine EXCEPT ![t] = [k \in 1..c |-> next + k - 1]]
            /\ [k \in 1..c |-> next + k - 1] \in Seq(Nat)
            /\ next' = next + Chunk
      BY <1>3, ChunkTypes
    <3> DEFINE chunk == [k \in 1..c |-> next + k - 1]
    <3> HIDE DEF chunk
    <3>2. mine' \in [Threads -> Seq(Nat)]
      BY <3>1 DEF TypeInv, chunk
    <3>3. next' \in Nat \ {0}
      BY <3>1 DEF TypeInv
    <3> QED
      BY <3>2, <3>3
  <2> QED
    BY <2>1, <2>2, <2>3 DEF TypeInv
<1>4. ASSUME NEW t \in Threads, ReachBarrier(t) PROVE TypeInv'
  BY <1>4 DEF ReachBarrier, Moves, TypeInv, Places
<1>5. ASSUME NEW t \in Threads, ScreenPair(t) PROVE TypeInv'
  <2>1. PICK pair \in Screenings :
          /\ local' = [local EXCEPT ![t] = pair]
          /\ Moves(t, "screen", IF NeedsFull(pair) THEN "load" ELSE "judge")
    BY <1>5 DEF ScreenPair
  <2>2. pair \in Locals
    BY ScreenedPairs
  <2>3. pc' \in [Threads -> Places]
    BY <2>1 DEF Moves, TypeInv, Places
  <2> QED
    BY <1>5, <2>1, <2>2, <2>3 DEF ScreenPair, TypeInv
<1>6. ASSUME NEW t \in Threads, LoadBudget(t) \/ SwapFails(t) PROVE TypeInv'
  <2>1. /\ prev' = [prev EXCEPT ![t] = budget]
        /\ UNCHANGED <<phase, work, allocated, next, mine, budget, verdict>>
        /\ RefusePair(t) \/ UNCHANGED local
    BY <1>6 DEF LoadBudget, SwapFails
  <2>2. pc' \in [Threads -> Places]
    BY <1>6 DEF LoadBudget, SwapFails, Moves, TypeInv, Places
  <2>3. local' \in [Threads -> Locals]
    BY <2>1, RefusalTypes DEF TypeInv
  <2> QED
    BY <2>1, <2>2, <2>3 DEF TypeInv
<1>7. ASSUME NEW t \in Threads, SwapBudget(t) PROVE TypeInv'
  <2>1. pc[t] = "swap" /\ budget = prev[t] /\ budget' = prev[t] - 1
    BY <1>7 DEF SwapBudget, Moves
  <2>2. budget' \in Nat
    BY <2>1 DEF PlaceInv, TypeInv
  <2> QED
    BY <1>7, <2>2 DEF SwapBudget, Moves, TypeInv, Places
<1>8. ASSUME NEW t \in Threads, RefineFully(t) PROVE TypeInv'
  <2>1. local' \in [Threads -> Locals]
    BY <1>8, RefinedTypes
  <2> QED
    BY <1>8, <2>1 DEF RefineFully, Moves, TypeInv, Places
<1>9. ASSUME NEW t \in Threads, JudgePair(t) PROVE TypeInv'
  <2>1. /\ Tail(mine[t]) \in Seq(Nat) /\ mine[t][1] \in DOMAIN work
        /\ mine' = [mine EXCEPT ![t] = Tail(mine[t])]
        /\ pc' = [pc EXCEPT ![t] = IF Tail(mine[t]) = << >> THEN "next" ELSE "screen"]
        /\ local' = [local EXCEPT ![t] = NoLocal]
        /\ \E v \in Verdicts : verdict' = [verdict EXCEPT ![mine[t][1]] = v]
    BY <1>9, JudgedTypes
  <2>2. /\ UNCHANGED <<phase, work, allocated, next, budget>>
        /\ prev' = [prev EXCEPT ![t] = 0]
    BY <1>9 DEF JudgePair
  <2>3. mine' \in [Threads -> Seq(Nat)] /\ pc' \in [Threads -> Places]
    BY <2>1 DEF TypeInv, Places
  <2>4. local' \in [Threads -> Locals] /\ prev' \in [Threads -> Nat]
    BY <2>1, <2>2, NoLocalType DEF TypeInv
  <2>5. verdict' \in [DOMAIN work -> Verdicts]
    BY <2>1 DEF TypeInv
  <2> QED
    BY <2>2, <2>3, <2>4, <2>5 DEF TypeInv
<1>10. CASE UNCHANGED vars
  BY <1>10 DEF vars, threadVars, TypeInv
<1> QED
  BY <1>1, <1>2, <1>3, <1>4, <1>5, <1>6, <1>7, <1>8, <1>9, <1>10
     DEF Next, ThreadNext

(* A step of one thread leaves the others where they are.                  *)
PlaceOf(t) ==
  /\ pc[t] \in {"next", "barrier"} <=> mine[t] = << >>
  /\ pc[t] \in {"next", "barrier", "screen"} => local[t] = NoLocal
  /\ pc[t] \in {"load", "swap", "full"} => local[t].why \notin {"full", "refused"}
  /\ pc[t] = "swap" => prev[t] > 0
  /\ phase = "idle" => pc[t] = "next"
  /\ \A k \in DOMAIN mine[t] : mine[t][k] = mine[t][1] + k - 1
  /\ \A k \in DOMAIN mine[t] : mine[t][k] \in DOMAIN work /\ mine[t][k] < next

LEMMA OthersStay ==
  ASSUME TypeInv, PlaceInv, NEW t \in Threads, ThreadNext(t)
  PROVE  /\ UNCHANGED <<phase, work, allocated>> /\ phase = "sweeping"
         /\ next' \in Nat /\ next <= next'
         /\ \A u \in Threads : u # t =>
              /\ pc'[u] = pc[u] /\ mine'[u] = mine[u]
              /\ local'[u] = local[u] /\ prev'[u] = prev[u]
<1> USE SweepAssumption
<1>1. UNCHANGED <<phase, work, allocated>> /\ phase = "sweeping"
  BY DEF ThreadNext, TakeChunk, ReachBarrier, ScreenPair, LoadBudget, SwapBudget,
         SwapFails, RefineFully, JudgePair, Moves
<1>2. next' \in {next, next + Chunk}
  BY DEF ThreadNext, TakeChunk, ReachBarrier, ScreenPair, LoadBudget, SwapBudget,
         SwapFails, RefineFully, JudgePair
<1>3. \A u \in Threads : u # t => pc'[u] = pc[u]
  BY DEF ThreadNext, TakeChunk, ReachBarrier, ScreenPair, LoadBudget, SwapBudget,
         SwapFails, RefineFully, JudgePair, Moves, TypeInv
<1>4. \A u \in Threads : u # t => mine'[u] = mine[u]
  <2>1. UNCHANGED mine \/ \E m : mine' = [mine EXCEPT ![t] = m]
    BY DEF ThreadNext, TakeChunk, ReachBarrier, ScreenPair, LoadBudget, SwapBudget,
           SwapFails, RefineFully, JudgePair
  <2> QED
    BY <2>1 DEF TypeInv
<1>5. \A u \in Threads : u # t => local'[u] = local[u]
  <2>1. CASE RefineFully(t)
    BY <2>1, RefinedTypes
  <2>2. CASE ScreenPair(t) \/ JudgePair(t)
    BY <2>2 DEF ScreenPair, JudgePair, TypeInv
  <2>3. CASE LoadBudget(t) \/ SwapFails(t)
    BY <2>3, RefusalTypes DEF LoadBudget, SwapFails
  <2>4. CASE TakeChunk(t) \/ ReachBarrier(t) \/ SwapBudget(t)
    BY <2>4 DEF TakeChunk, ReachBarrier, SwapBudget
  <2> QED
    BY <2>1, <2>2, <2>3, <2>4 DEF ThreadNext
<1>6. \A u \in Threads : u # t => prev'[u] = prev[u]
  <2>1. UNCHANGED prev \/ \E p : prev' = [prev EXCEPT ![t] = p]
    BY DEF ThreadNext, TakeChunk, ReachBarrier, ScreenPair, LoadBudget, SwapBudget,
           SwapFails, RefineFully, JudgePair
  <2> QED
    BY <2>1 DEF TypeInv
<1>7. next' \in Nat /\ next <= next'
  BY <1>2 DEF TypeInv
<1> QED
  BY <1>1, <1>3, <1>4, <1>5, <1>6, <1>7

LEMMA ThreadPlace ==
  ASSUME TypeInv, PlaceInv, NEW t \in Threads, ThreadNext(t)
  PROVE  PlaceOf(t)'
<1> USE SweepAssumption
<1>1. PlaceOf(t) /\ mine[t] \in Seq(Nat) /\ local[t] \in Locals
  BY DEF PlaceInv, PlaceOf, TypeInv
<1>2. UNCHANGED <<phase, work>> /\ phase = "sweeping"
  BY OthersStay
<1>3. CASE TakeChunk(t)
  <2>1. PICK c \in Nat \ {0} :
          /\ next + c - 1 <= Len(work) /\ c <= Chunk
          /\ mine' = [mine EXCEPT ![t] = [k \in 1..c |-> next + k - 1]]
          /\ [k \in 1..c |-> next + k - 1] \in Seq(Nat)
          /\ next' = next + Chunk
    BY <1>3, ChunkTypes
  <2>2. /\ pc[t] = "next" /\ pc'[t] = "screen" /\ local' = local
    BY <1>3 DEF TakeChunk, Moves, TypeInv
  <2>3. /\ DOMAIN mine'[t] = 1..c
        /\ \A k \in 1..c : mine'[t][k] = next + k - 1
    BY <2>1 DEF TypeInv
  <2>4. mine'[t] # << >> /\ mine'[t][1] = next
    <3>1. 1 \in 1..c /\ next + 1 - 1 = next
      BY DEF TypeInv
    <3> QED
      BY <2>3, <3>1
  <2>5. \A k \in DOMAIN mine'[t] : mine'[t][k] = mine'[t][1] + k - 1
    BY <2>3, <2>4
  <2>6. \A k \in DOMAIN mine'[t] : mine'[t][k] \in DOMAIN work /\ mine'[t][k] < next'
    <3>1. next \in Nat \ {0} /\ Len(work) \in Nat /\ DOMAIN work = 1..Len(work)
      BY DEF TypeInv
    <3>2. ASSUME NEW k \in 1..c
          PROVE  next + k - 1 \in 1..Len(work) /\ next + k - 1 < next + Chunk
      BY <2>1, <3>1
    <3> QED
      BY <2>1, <2>3, <3>1, <3>2
  <2> QED
    BY <1>1, <1>2, <2>2, <2>4, <2>5, <2>6 DEF PlaceOf
<1>4. CASE ReachBarrier(t)
  BY <1>1, <1>2, <1>4 DEF ReachBarrier, Moves, PlaceOf, TypeInv
<1>5. CASE ScreenPair(t)
  <2>1. PICK pair \in Screenings :
          /\ local' = [local EXCEPT ![t] = pair]
          /\ Moves(t, "screen", IF NeedsFull(pair) THEN "load" ELSE "judge")
    BY <1>5 DEF ScreenPair
  <2>2. pair.why \notin {"full", "refused"}
    BY ScreenedPairs
  <2> QED
    BY <1>1, <1>2, <1>5, <2>1, <2>2 DEF ScreenPair, Moves, PlaceOf, TypeInv
<1>6. CASE LoadBudget(t) \/ SwapFails(t)
  <2>1. /\ prev' = [prev EXCEPT ![t] = budget] /\ UNCHANGED <<mine, next>>
        /\ pc[t] \in {"load", "swap"}
        /\ \/ pc'[t] = "judge"
           \/ pc'[t] = "swap" /\ budget # 0 /\ UNCHANGED local
    BY <1>6 DEF LoadBudget, SwapFails, Moves, TypeInv
  <2>2. budget # 0 => budget > 0
    BY DEF TypeInv
  <2> QED
    BY <1>1, <1>2, <2>1, <2>2 DEF PlaceOf, TypeInv
<1>7. CASE SwapBudget(t)
  BY <1>1, <1>2, <1>7 DEF SwapBudget, Moves, PlaceOf, TypeInv
<1>8. CASE RefineFully(t)
  BY <1>1, <1>2, <1>8 DEF RefineFully, Moves, PlaceOf, TypeInv
<1>9. CASE JudgePair(t)
  <2>1. /\ mine[t] # << >> /\ Tail(mine[t]) \in Seq(Nat)
        /\ mine' = [mine EXCEPT ![t] = Tail(mine[t])]
        /\ pc' = [pc EXCEPT ![t] = IF Tail(mine[t]) = << >> THEN "next" ELSE "screen"]
        /\ local' = [local EXCEPT ![t] = NoLocal]
        /\ UNCHANGED next
    BY <1>9, JudgedTypes DEF JudgePair
  <2> DEFINE m == mine[t]
             r == Tail(mine[t])
  <2>2. mine'[t] = r /\ local'[t] = NoLocal
        /\ pc'[t] = IF r = << >> THEN "next" ELSE "screen"
    BY <2>1 DEF TypeInv
  <2>3. \A k \in DOMAIN r : k \in Nat \ {0} /\ k + 1 \in DOMAIN m /\ r[k] = m[k + 1]
    BY <1>1, <2>1
  <2>4. m[1] \in Nat
    BY <1>1, <2>1
  <2>5. \A k \in DOMAIN r : r[k] = m[1] + k
    BY <1>1, <2>3, <2>4 DEF PlaceOf
  <2>6. \A k \in DOMAIN r : 1 \in DOMAIN r
    BY <2>1
  <2>7. \A k \in DOMAIN r : r[k] = r[1] + k - 1
    <3>1. ASSUME NEW k \in DOMAIN r PROVE r[k] = r[1] + k - 1
      <4>1. r[k] = m[1] + k /\ r[1] = m[1] + 1 /\ k \in Nat
        BY <2>3, <2>5, <2>6
      <4> HIDE DEF m, r
      <4> QED
        BY <2>4, <4>1
    <3> QED
      BY <3>1
  <2>8. \A k \in DOMAIN r : r[k] \in DOMAIN work /\ r[k] < next
    BY <1>1, <2>3 DEF PlaceOf
  <2>9. UNCHANGED next
    BY <2>1
  <2> HIDE DEF m, r
  <2>10. pc'[t] \in {"next", "screen"} /\ (pc'[t] = "next" <=> r = << >>)
    BY <2>2
  <2> QED
    BY <1>2, <2>2, <2>7, <2>8, <2>9, <2>10 DEF PlaceOf
<1> QED
  BY <1>3, <1>4, <1>5, <1>6, <1>7, <1>8, <1>9 DEF ThreadNext

LEMMA PlaceStep == TypeInv /\ PlaceInv /\ [Next]_vars => PlaceInv'
<1> SUFFICES ASSUME TypeInv, PlaceInv, [Next]_vars PROVE PlaceInv'
  OBVIOUS
<1>1. CASE BeginSweep
  <2>1. phase = "idle" /\ phase' = "sweeping" /\ UNCHANGED <<mine, pc, local, prev>>
    BY <1>1 DEF BeginSweep, StartSweep
  <2>2. \A t \in Threads : pc[t] = "next" /\ mine[t] = << >> /\ local[t] = NoLocal
    BY <2>1 DEF PlaceInv
  <2> QED
    BY <2>1, <2>2 DEF PlaceInv
<1>2. CASE Merge
  <2>1. /\ \A t \in Threads : pc[t] = "barrier"
        /\ pc' = [t \in Threads |-> "next"]
        /\ UNCHANGED <<mine, local, prev, work, next>>
    BY <1>2 DEF Merge
  <2>2. \A t \in Threads : mine[t] = << >> /\ local[t] = NoLocal
    BY <2>1 DEF PlaceInv
  <2> QED
    BY <2>1, <2>2 DEF PlaceInv
<1>3. ASSUME NEW t \in Threads, ThreadNext(t) PROVE PlaceInv'
  <2>1. PlaceOf(t)'
    BY <1>3, ThreadPlace
  <2>2. /\ UNCHANGED <<phase, work>> /\ phase = "sweeping"
        /\ next' \in Nat /\ next <= next'
        /\ \A u \in Threads : u # t =>
             /\ pc'[u] = pc[u] /\ mine'[u] = mine[u]
             /\ local'[u] = local[u] /\ prev'[u] = prev[u]
    BY <1>3, OthersStay
  <2>3. ASSUME NEW u \in Threads, u # t PROVE PlaceOf(u)'
    <3>1. PlaceOf(u) /\ mine[u] \in Seq(Nat) /\ next \in Nat
      BY DEF PlaceInv, PlaceOf, TypeInv
    <3>2. \A k \in DOMAIN mine[u] : mine[u][k] \in Nat
      BY <3>1
    <3>3. \A k \in DOMAIN mine[u] : mine[u][k] < next'
      BY <2>2, <3>1, <3>2 DEF PlaceOf
    <3> QED
      BY <2>2, <2>3, <3>1, <3>3 DEF PlaceOf
  <2> QED
    BY <2>1, <2>3 DEF PlaceInv, PlaceOf
<1>4. CASE UNCHANGED vars
  BY <1>4 DEF vars, threadVars, PlaceInv
<1> QED
  BY <1>1, <1>2, <1>3, <1>4 DEF Next

-----------------------------------------------------------------------------
(* No iteration is judged twice.                                           *)

(* Steps other than taking a chunk and judging keep chunks and verdicts.   *)
LEMMA ChunksStay ==
  ASSUME TypeInv, NEW t \in Threads, ThreadNext(t), ~TakeChunk(t), ~JudgePair(t)
  PROVE  UNCHANGED <<next, mine, verdict>>
BY DEF ThreadNext, ReachBarrier, ScreenPair, LoadBudget, SwapBudget, SwapFails,
       RefineFully

LEMMA ChunkStep == TypeInv /\ PlaceInv /\ ChunkInv /\ [Next]_vars => ChunkInv'
<1> USE SweepAssumption
<1> SUFFICES ASSUME TypeInv, PlaceInv, ChunkInv, [Next]_vars PROVE ChunkInv'
  OBVIOUS
<1>1. CASE BeginSweep
  <2>1. PICK pairs \in Candidates : StartSweep(pairs)
    BY <1>1 DEF BeginSweep
  <2>2. \A t \in Threads : mine'[t] = << >>
    BY <1>1, <2>1 DEF BeginSweep, StartSweep, PlaceInv
  <2>3. \A i \in DOMAIN work' : verdict'[i].why = "none"
    BY <2>1 DEF StartSweep, NoVerdict
  <2> QED
    BY <2>2, <2>3 DEF ChunkInv
<1>2. CASE Merge
  BY <1>2 DEF Merge, ChunkInv
<1>3. ASSUME NEW t \in Threads, TakeChunk(t) PROVE ChunkInv'
  <2>1. PICK c \in Nat \ {0} :
          /\ next + c - 1 <= Len(work) /\ c <= Chunk
          /\ mine' = [mine EXCEPT ![t] = [k \in 1..c |-> next + k - 1]]
          /\ next' = next + Chunk
    BY <1>3, ChunkTypes
  <2>2. UNCHANGED <<work, verdict>>
    BY <1>3 DEF TakeChunk
  <2>3. /\ next \in Nat \ {0} /\ Len(work) \in Nat /\ DOMAIN work = 1..Len(work)
    BY DEF TypeInv
  <2>4. /\ DOMAIN mine'[t] = 1..c
        /\ \A k \in 1..c : mine'[t][k] = next + k - 1
        /\ \A u \in Threads : u # t => mine'[u] = mine[u]
    BY <2>1 DEF TypeInv
  <2>5. \A k \in 1..c : next + k - 1 \in DOMAIN work /\ next + k - 1 >= next
    <3>1. ASSUME NEW k \in 1..c
          PROVE  next + k - 1 \in 1..Len(work) /\ next + k - 1 >= next
      BY <2>1, <2>3
    <3> QED
      BY <2>3, <3>1
  <2>6. \A k \in DOMAIN mine'[t] : verdict[mine'[t][k]].why = "none"
    BY <2>4, <2>5 DEF ChunkInv
  <2>7. ASSUME NEW u \in Threads, u # t, NEW k \in DOMAIN mine'[t],
               NEW l \in DOMAIN mine'[u]
        PROVE  mine'[t][k] # mine'[u][l]
    <3>1. mine'[t][k] >= next /\ mine'[t][k] \in Nat
      BY <2>3, <2>4, <2>5
    <3>2. mine[u] \in Seq(Nat) /\ mine'[u] = mine[u]
      BY <2>4, <2>7 DEF TypeInv
    <3>3. mine'[u][l] < next /\ mine'[u][l] \in Nat
      BY <2>7, <3>2 DEF PlaceInv
    <3> QED
      BY <2>3, <3>1, <3>3
  <2>8. \A i \in DOMAIN work : i >= next' => i >= next
    BY <2>1, <2>3
  <2>9. ASSUME NEW u \in Threads, NEW w \in Threads, u # w,
               NEW k \in DOMAIN mine'[u], NEW l \in DOMAIN mine'[w]
        PROVE  mine'[u][k] # mine'[w][l]
    <3>1. CASE u = t
      BY <2>7, <2>9, <3>1
    <3>2. CASE w = t
      BY <2>7, <2>9, <3>2
    <3>3. CASE u # t /\ w # t
      BY <2>4, <2>9, <3>3 DEF ChunkInv
    <3> QED
      BY <3>1, <3>2, <3>3
  <2>10. \A u \in Threads : \A k \in DOMAIN mine'[u] :
           verdict[mine'[u][k]].why = "none"
    <3>1. ASSUME NEW u \in Threads, u # t, NEW k \in DOMAIN mine'[u]
          PROVE  verdict[mine'[u][k]].why = "none"
      BY <2>4, <3>1 DEF ChunkInv
    <3> QED
      BY <2>6, <3>1
  <2>11. \A i \in DOMAIN work : i >= next' => verdict[i].why = "none"
    BY <2>8 DEF ChunkInv
  <2> QED
    BY <2>2, <2>9, <2>10, <2>11 DEF ChunkInv
<1>4. ASSUME NEW t \in Threads, JudgePair(t) PROVE ChunkInv'
  <2> DEFINE i == mine[t][1]
             r == Tail(mine[t])
  <2>1. /\ mine[t] # << >> /\ i \in DOMAIN work /\ i \in Nat
        /\ mine' = [mine EXCEPT ![t] = r]
        /\ \E v \in Verdicts : verdict' = [verdict EXCEPT ![i] = v]
        /\ UNCHANGED <<work, next>>
    BY <1>4, JudgedTypes DEF JudgePair
  <2>2. mine[t] \in Seq(Nat) /\ 1 \in DOMAIN mine[t]
    BY <2>1 DEF TypeInv
  <2>3. \A k \in DOMAIN r : /\ k + 1 \in DOMAIN mine[t] /\ r[k] = mine[t][k + 1]
                            /\ k \in Nat \ {0}
    BY <2>1, <2>2
  <2>4. \A k \in DOMAIN r : r[k] # i
    <3>1. ASSUME NEW k \in DOMAIN r PROVE r[k] # i
      <4>1. r[k] = i + (k + 1) - 1 /\ k \in Nat \ {0}
        BY <2>3 DEF PlaceInv
      <4> HIDE DEF i, r
      <4> QED
        BY <2>1, <4>1
    <3> QED
      BY <3>1
  <2>5. i < next
    BY <2>2 DEF PlaceInv
  <2>6. mine'[t] = r /\ \A u \in Threads : u # t => mine'[u] = mine[u]
    BY <2>1 DEF TypeInv
  <2>7. \A j \in DOMAIN work : j # i => verdict'[j] = verdict[j]
    BY <2>1 DEF TypeInv
  <2>8. \A u \in Threads : \A k \in DOMAIN mine'[u] :
          /\ mine'[u][k] # i /\ mine'[u][k] \in DOMAIN work
          /\ verdict[mine'[u][k]].why = "none"
    <3>1. ASSUME NEW u \in Threads, u # t, NEW k \in DOMAIN mine[u]
          PROVE  mine[u][k] # i /\ mine[u][k] \in DOMAIN work
      BY <2>2, <3>1 DEF ChunkInv, PlaceInv
    <3>2. ASSUME NEW k \in DOMAIN r
          PROVE  r[k] \in DOMAIN work /\ verdict[r[k]].why = "none"
      BY <2>3 DEF PlaceInv, ChunkInv
    <3>3. ASSUME NEW u \in Threads, u # t, NEW k \in DOMAIN mine[u]
          PROVE  verdict[mine[u][k]].why = "none"
      BY DEF ChunkInv
    <3> HIDE DEF i, r
    <3>4. CASE \A u \in Threads : u # t => mine'[u] = mine[u]
      BY <2>4, <2>6, <3>1, <3>2, <3>3, <3>4
    <3> QED
      BY <2>6, <3>4
  <2>9. \A j \in DOMAIN work : j >= next => verdict'[j].why = "none"
    <3>1. \A j \in DOMAIN work : j >= next => j # i
      BY <2>1, <2>5 DEF TypeInv
    <3> QED
      BY <2>7, <3>1 DEF ChunkInv
  <2>10. ASSUME NEW u \in Threads, NEW w \in Threads, u # w,
                NEW k \in DOMAIN mine'[u], NEW l \in DOMAIN mine'[w]
         PROVE  mine'[u][k] # mine'[w][l]
    <3>1. CASE u = t
      <4>1. k \in DOMAIN r /\ mine'[u][k] = r[k]
        BY <2>6, <2>10, <3>1
      <4>2. k + 1 \in DOMAIN mine[t] /\ mine'[u][k] = mine[t][k + 1]
        BY <2>3, <4>1
      <4>3. w # t /\ mine'[w] = mine[w] /\ l \in DOMAIN mine[w]
        BY <2>6, <2>10, <3>1
      <4> QED
        BY <4>2, <4>3 DEF ChunkInv
    <3>2. CASE w = t
      <4>1. l \in DOMAIN r /\ mine'[w][l] = r[l]
        BY <2>6, <2>10, <3>2
      <4>2. l + 1 \in DOMAIN mine[t] /\ mine'[w][l] = mine[t][l + 1]
        BY <2>3, <4>1
      <4>3. u # t /\ mine'[u] = mine[u] /\ k \in DOMAIN mine[u]
        BY <2>6, <2>10, <3>2
      <4> QED
        BY <4>2, <4>3 DEF ChunkInv
    <3>3. CASE u # t /\ w # t
      BY <2>6, <2>10, <3>3 DEF ChunkInv
    <3> QED
      BY <3>1, <3>2, <3>3
  <2> HIDE DEF i, r
  <2> QED
    BY <2>1, <2>7, <2>8, <2>9, <2>10 DEF ChunkInv
<1>5. ASSUME NEW t \in Threads, ThreadNext(t), ~TakeChunk(t), ~JudgePair(t)
      PROVE  ChunkInv'
  <2>1. UNCHANGED <<next, mine, verdict, work>>
    BY <1>5, ChunksStay, OthersStay
  <2> QED
    BY <2>1 DEF ChunkInv
<1>6. CASE UNCHANGED vars
  BY <1>6 DEF vars, threadVars, ChunkInv
<1> QED
  BY <1>1, <1>2, <1>3, <1>4, <1>5, <1>6 DEF Next

-----------------------------------------------------------------------------
(* Evidence.                                                               *)

EvidenceInv ==
  /\ \A t \in Threads : pc[t] = "judge" => Evident(local[t])
  /\ ClearedOnEvidence

LEMMA EvidenceStep ==
  TypeInv /\ PlaceInv /\ EvidenceInv /\ [Next]_vars => EvidenceInv'
<1> USE SweepAssumption
<1> SUFFICES ASSUME TypeInv, PlaceInv, EvidenceInv, [Next]_vars PROVE EvidenceInv'
  OBVIOUS
<1>1. CASE BeginSweep
  <2>1. PICK pairs \in Candidates : StartSweep(pairs)
    BY <1>1 DEF BeginSweep
  <2> QED
    BY <1>1, <2>1 DEF BeginSweep, StartSweep, EvidenceInv, ClearedOnEvidence, NoVerdict
<1>2. CASE Merge
  BY <1>2 DEF Merge, EvidenceInv, ClearedOnEvidence
<1>3. ASSUME NEW t \in Threads, ThreadNext(t) PROVE EvidenceInv'
  <2>1. \A u \in Threads : u # t => pc'[u] = pc[u] /\ local'[u] = local[u]
    BY <1>3, OthersStay
  <2>2. pc'[t] = "judge" => Evident(local'[t])
    <3>1. CASE ScreenPair(t)
      <4>1. PICK pair \in Screenings :
              /\ local' = [local EXCEPT ![t] = pair]
              /\ Moves(t, "screen", IF NeedsFull(pair) THEN "load" ELSE "judge")
        BY <3>1 DEF ScreenPair
      <4> QED
        BY <4>1, ScreenedPairs DEF Moves, TypeInv
    <3>2. CASE LoadBudget(t) \/ SwapFails(t)
      <4>1. pc'[t] = "judge" => RefusePair(t)
        BY <3>2 DEF LoadBudget, SwapFails, Moves, TypeInv
      <4>2. RefusePair(t) => local'[t].d = Collision
        BY RefusalTypes
      <4> QED
        BY <4>1, <4>2 DEF Evident, Collision
    <3>3. CASE RefineFully(t)
      BY <3>3, RefinedTypes DEF Evident
    <3>4. CASE TakeChunk(t) \/ ReachBarrier(t) \/ SwapBudget(t) \/ JudgePair(t)
      BY <3>4 DEF TakeChunk, ReachBarrier, SwapBudget, JudgePair, Moves, TypeInv
    <3> QED
      BY <1>3, <3>1, <3>2, <3>3, <3>4 DEF ThreadNext
  <2>3. ClearedOnEvidence'
    <3>1. CASE ~JudgePair(t)
      <4>1. UNCHANGED verdict
        BY <1>3, <3>1 DEF ThreadNext, TakeChunk, ReachBarrier, ScreenPair, LoadBudget,
                          SwapBudget, SwapFails, RefineFully
      <4> QED
        BY <4>1 DEF EvidenceInv, ClearedOnEvidence
    <3>2. CASE JudgePair(t)
      <4> DEFINE i == mine[t][1]
      <4>1. PICK v \in Verdicts :
              /\ verdict' = [verdict EXCEPT ![i] = v]
              /\ v.hit = (local[t].d < Screening)
              /\ v.near = local[t].near /\ v.why = local[t].why
        BY <3>2, JudgedTypes
      <4>2. Evident(local[t])
        BY <3>2 DEF JudgePair, Moves, EvidenceInv
      <4> HIDE DEF i
      <4>3. v.near /\ ~v.hit => v.why \in {"micro", "full"} \cup
              (IF PlaneFilter \/ MoidFilter THEN {"gate"} ELSE {})
        BY <4>1, <4>2 DEF Evident
      <4>4. DOMAIN verdict' = DOMAIN verdict
            /\ \A j \in DOMAIN verdict : verdict'[j] = verdict[j] \/ verdict'[j] = v
        BY <4>1 DEF TypeInv
      <4> QED
        BY <4>3, <4>4 DEF EvidenceInv, ClearedOnEvidence
    <3> QED
      BY <3>1, <3>2
  <2> QED
    BY <2>1, <2>2, <2>3 DEF EvidenceInv, Evident
<1>4. CASE UNCHANGED vars
  BY <1>4 DEF vars, threadVars, EvidenceInv, ClearedOnEvidence
<1> QED
  BY <1>1, <1>2, <1>3, <1>4 DEF Next

-----------------------------------------------------------------------------
(* The budget.                                                             *)

Refining == {t \in Threads : pc[t] = "full"}

LEMMA ThreadsFinite ==
  /\ IsFiniteSet(Threads)
  /\ TypeInv => IsFiniteSet(DOMAIN work) /\ DOMAIN verdict = DOMAIN work
<1>1. IsFiniteSet(Threads)
  BY SweepAssumption, FS_Interval DEF Threads
<1>2. ASSUME TypeInv PROVE IsFiniteSet(DOMAIN work)
  <2>1. Len(work) \in Nat /\ DOMAIN work = 1..Len(work)
    BY <1>2 DEF TypeInv
  <2> QED
    BY <2>1, FS_Interval
<1> QED
  BY <1>1, <1>2 DEF TypeInv

LEMMA SetsFinite ==
  ASSUME TypeInv
  PROVE  /\ \A e : IsFiniteSet(Judged(e)) /\ Cardinality(Judged(e)) \in Nat
         /\ \A e : IsFiniteSet(Holding(e)) /\ Cardinality(Holding(e)) \in Nat
         /\ IsFiniteSet(Refining) /\ Cardinality(Refining) \in Nat
<1>1. ASSUME NEW e
      PROVE  IsFiniteSet(Judged(e)) /\ IsFiniteSet(Holding(e))
  <2>1. Judged(e) \subseteq DOMAIN work /\ Holding(e) \subseteq Threads
    BY ThreadsFinite DEF Judged, Holding
  <2> QED
    BY <2>1, ThreadsFinite, FS_Subset
<1>2. IsFiniteSet(Refining)
  BY ThreadsFinite, FS_Subset DEF Refining
<1> QED
  BY <1>1, <1>2, FS_CardinalityType

LEMMA BudgetStep ==
  TypeInv /\ PlaceInv /\ ChunkInv /\ BudgetIsConserved /\ [Next]_vars
    => BudgetIsConserved'
<1> USE SweepAssumption
<1> SUFFICES ASSUME TypeInv, PlaceInv, ChunkInv, BudgetIsConserved, [Next]_vars
             PROVE  BudgetIsConserved'
  OBVIOUS
<1> DEFINE J == Cardinality(Judged("full"))
           H == Cardinality(Holding("full"))
           R == Cardinality(Refining)
<1>1. /\ budget + J + H + R = allocated
      /\ Judged("refused") # {} \/ Holding("refused") # {} => budget = 0
  BY DEF BudgetIsConserved, Refining
<1>2. J \in Nat /\ H \in Nat /\ R \in Nat /\ budget \in Nat /\ allocated \in Nat
  BY SetsFinite DEF TypeInv
<1>3. CASE BeginSweep
  <2>1. PICK pairs \in Candidates : StartSweep(pairs)
    BY <1>3 DEF BeginSweep
  <2>2. \A t \in Threads : pc'[t] = "next" /\ local'[t] = NoLocal
    BY <1>3, <2>1 DEF BeginSweep, StartSweep, PlaceInv
  <2>3. \A e : e # "none" => Judged(e)' = {} /\ Holding(e)' = {}
    BY <2>1, <2>2 DEF StartSweep, Judged, Holding, NoVerdict, NoLocal
  <2>4. Refining' = {}
    BY <2>2 DEF Refining
  <2>5. budget' = allocated' /\ budget' \in Nat
    BY <2>1 DEF StartSweep
  <2>6. Cardinality({}) = 0 /\ budget' + 0 + 0 + 0 = allocated'
    <3>1. Cardinality({}) = 0
      BY FS_EmptySet
    <3>2. \A b \in Nat : b + 0 + 0 + 0 = b
      OBVIOUS
    <3>3. budget' + 0 + 0 + 0 = budget'
      BY <2>5, <3>2
    <3> QED
      BY <2>5, <3>1, <3>3
  <2>7. {t \in Threads : pc'[t] = "full"} = {}
    BY <2>4 DEF Refining
  <2> QED
    BY <2>3, <2>6, <2>7 DEF BudgetIsConserved
<1>4. CASE Merge
  <2>1. /\ Judged("full")' = Judged("full") /\ Holding("full")' = Holding("full")
        /\ Judged("refused")' = Judged("refused")
        /\ Holding("refused")' = Holding("refused")
        /\ UNCHANGED <<budget, allocated>>
    BY <1>4 DEF Merge, Judged, Holding
  <2>2. Refining' = Refining
    BY <1>4 DEF Merge, Refining
  <2> QED
    BY <1>1, <2>1, <2>2 DEF BudgetIsConserved, Refining
<1>5. ASSUME NEW t \in Threads, ThreadNext(t) PROVE BudgetIsConserved'
  <2>1. /\ UNCHANGED allocated
        /\ \A u \in Threads : u # t => pc'[u] = pc[u] /\ local'[u] = local[u]
    BY <1>5, OthersStay
  <2>2. CASE TakeChunk(t) \/ ReachBarrier(t) \/ ScreenPair(t)
    <3>1. UNCHANGED <<verdict, budget>>
      BY <2>2 DEF TakeChunk, ReachBarrier, ScreenPair
    <3>2. pc[t] # "full" /\ pc'[t] # "full"
      BY <2>2 DEF TakeChunk, ReachBarrier, ScreenPair, Moves, TypeInv
    <3>3. /\ local[t].why \notin {"full", "refused"}
          /\ local'[t].why \notin {"full", "refused"}
      <4>1. local[t] = NoLocal
        BY <2>2 DEF TakeChunk, ReachBarrier, ScreenPair, Moves, PlaceInv
      <4>2. CASE ScreenPair(t)
        BY <4>1, <4>2, NoLocalType, ScreenedPairs DEF ScreenPair, TypeInv
      <4>3. CASE TakeChunk(t) \/ ReachBarrier(t)
        BY <4>1, <4>3, NoLocalType DEF TakeChunk, ReachBarrier
      <4> QED
        BY <2>2, <4>2, <4>3
    <3>4. /\ Judged("full")' = Judged("full") /\ Judged("refused")' = Judged("refused")
          /\ Holding("full")' = Holding("full")
          /\ Holding("refused")' = Holding("refused")
          /\ Refining' = Refining
      BY <2>1, <3>1, <3>2, <3>3 DEF Judged, Holding, Refining
    <3> QED
      BY <1>1, <2>1, <3>1, <3>4 DEF BudgetIsConserved, Refining
  <2>3. CASE LoadBudget(t) \/ SwapFails(t)
    <3>1. /\ UNCHANGED <<verdict, budget>>
          /\ \/ RefusePair(t) /\ budget = 0
             \/ UNCHANGED local
      BY <2>3 DEF LoadBudget, SwapFails
    <3>2. pc[t] \in {"load", "swap"} /\ pc'[t] # "full"
      BY <2>3 DEF LoadBudget, SwapFails, Moves, TypeInv
    <3>3. local[t].why # "full" /\ local'[t].why # "full"
      BY <3>1, <3>2, RefusalTypes DEF PlaceInv
    <3>4. /\ Judged("full")' = Judged("full") /\ Judged("refused")' = Judged("refused")
          /\ Holding("full")' = Holding("full")
          /\ Refining' = Refining
      BY <2>1, <3>1, <3>2, <3>3 DEF Judged, Holding, Refining
    <3>5. Holding("refused")' = Holding("refused") \/ budget = 0
      BY <3>1 DEF Holding
    <3> QED
      BY <1>1, <2>1, <3>1, <3>4, <3>5 DEF BudgetIsConserved, Refining
  <2>4. CASE SwapBudget(t)
    <3>1. /\ UNCHANGED <<verdict, local>>
          /\ pc[t] = "swap" /\ pc'[t] = "full"
          /\ budget = prev[t] /\ budget' = prev[t] - 1
      BY <2>4 DEF SwapBudget, Moves, TypeInv
    <3>2. budget > 0
      BY <3>1 DEF PlaceInv
    <3>3. /\ Judged("full")' = Judged("full") /\ Judged("refused")' = Judged("refused")
          /\ Holding("full")' = Holding("full")
          /\ Holding("refused")' = Holding("refused")
      BY <3>1 DEF Judged, Holding
    <3>4. Refining' = Refining \cup {t} /\ t \notin Refining
      BY <2>1, <3>1 DEF Refining
    <3>5. Cardinality(Refining') = R + 1
      BY <3>4, SetsFinite, FS_AddElement
    <3> HIDE DEF J, H, R
    <3>6. budget' + J + H + (R + 1) = allocated
      BY <1>1, <1>2, <3>1
    <3> QED
      BY <1>1, <1>2, <2>1, <3>2, <3>3, <3>5, <3>6
         DEF BudgetIsConserved, Refining, J, H
  <2>5. CASE RefineFully(t)
    <3>1. /\ UNCHANGED <<verdict, budget>> /\ pc[t] = "full" /\ pc'[t] = "judge"
      BY <2>5 DEF RefineFully, Moves, TypeInv
    <3>2. local[t].why \notin {"full", "refused"} /\ local'[t].why = "full"
      BY <2>5, <3>1, RefinedTypes DEF PlaceInv
    <3>3. /\ Judged("full")' = Judged("full") /\ Judged("refused")' = Judged("refused")
          /\ Holding("refused")' = Holding("refused")
      BY <2>1, <3>1, <3>2 DEF Judged, Holding
    <3>4. Refining' = Refining \ {t} /\ t \in Refining
      BY <2>1, <3>1 DEF Refining
    <3>5. Holding("full")' = Holding("full") \cup {t} /\ t \notin Holding("full")
      BY <2>1, <3>2 DEF Holding
    <3>6. Cardinality(Refining') = R - 1
      BY <3>4, SetsFinite, FS_RemoveElement
    <3>7. Cardinality(Holding("full")') = H + 1
      BY <3>5, SetsFinite, FS_AddElement
    <3> HIDE DEF J, H, R
    <3>8. budget + J + (H + 1) + (R - 1) = allocated
      BY <1>1, <1>2
    <3> QED
      BY <1>1, <2>1, <3>1, <3>3, <3>6, <3>7, <3>8
         DEF BudgetIsConserved, Refining, J
  <2>6. CASE JudgePair(t)
    <3> DEFINE i == mine[t][1]
               why == local[t].why
    <3>1. /\ mine[t] # << >> /\ i \in DOMAIN work
          /\ pc' = [pc EXCEPT ![t] = IF Tail(mine[t]) = << >> THEN "next" ELSE "screen"]
          /\ local' = [local EXCEPT ![t] = NoLocal]
          /\ \E v \in Verdicts : verdict' = [verdict EXCEPT ![i] = v] /\ v.why = why
          /\ pc[t] = "judge" /\ UNCHANGED budget
      BY <2>6, JudgedTypes DEF JudgePair, Moves
    <3>2. verdict[i].why = "none" /\ DOMAIN verdict = DOMAIN work
      <4>1. 1 \in DOMAIN mine[t]
        BY <3>1 DEF TypeInv
      <4> QED
        BY <4>1 DEF ChunkInv, TypeInv
    <3> HIDE DEF i
    <3>3. /\ DOMAIN verdict' = DOMAIN verdict /\ verdict'[i].why = why
          /\ \A j \in DOMAIN verdict : j # i => verdict'[j] = verdict[j]
      BY <3>1, <3>2 DEF TypeInv
    <3>4. local'[t].why = "none" /\ pc'[t] # "full"
      BY <3>1, NoLocalType DEF TypeInv
    <3>5. Refining' = Refining
      BY <2>1, <3>1, <3>4 DEF Refining
    <3>6. ASSUME NEW e, e # "none"
          PROVE  /\ Holding(e)' = Holding(e) \ {t}
                 /\ t \in Holding(e) <=> e = why
                 /\ Judged(e)' = IF e = why THEN Judged(e) \cup {i} ELSE Judged(e)
                 /\ i \notin Judged(e)
      BY <2>1, <3>1, <3>2, <3>3, <3>4, <3>6 DEF Holding, Judged
    <3>7. (Judged("refused")' # {} \/ Holding("refused")' # {}) => budget = 0
      <4>1. Judged("refused")' \subseteq Judged("refused") \/ t \in Holding("refused")
        BY <3>6
      <4> QED
        BY <1>1, <3>6, <4>1
    <3>8. CASE why = "full"
      <4>1. Cardinality(Judged("full")') = J + 1
        BY <3>6, <3>8, SetsFinite, FS_AddElement
      <4>2. Cardinality(Holding("full")') = H - 1
        BY <3>6, <3>8, SetsFinite, FS_RemoveElement
      <4> HIDE DEF J, H, R
      <4>3. budget + (J + 1) + (H - 1) + R = allocated
        BY <1>1, <1>2
      <4> QED
        BY <2>1, <3>1, <3>5, <3>7, <4>1, <4>2, <4>3
           DEF BudgetIsConserved, Refining, R
    <3>9. CASE why # "full"
      <4>1. Judged("full")' = Judged("full") /\ Holding("full")' = Holding("full")
        BY <3>6, <3>9
      <4> QED
        BY <1>1, <2>1, <3>1, <3>5, <3>7, <4>1 DEF BudgetIsConserved, Refining
    <3> QED
      BY <3>8, <3>9
  <2> QED
    BY <1>5, <2>2, <2>3, <2>4, <2>5, <2>6 DEF ThreadNext
<1>6. CASE UNCHANGED vars
  BY <1>6 DEF vars, threadVars, BudgetIsConserved, Judged, Holding
<1> QED
  BY <1>3, <1>4, <1>5, <1>6 DEF Next

-----------------------------------------------------------------------------
SweepInv == TypeInv /\ PlaceInv /\ ChunkInv /\ EvidenceInv /\ BudgetIsConserved

LEMMA SweepInvHolds == Spec => []SweepInv
<1>1. Init => SweepInv
  <2> SUFFICES ASSUME Init PROVE SweepInv
    OBVIOUS
  <2>1. /\ work = << >> /\ verdict = << >> /\ DOMAIN work = {} /\ DOMAIN verdict = {}
        /\ \A t \in Threads : mine[t] = << >> /\ pc[t] = "next" /\ local[t] = NoLocal
    BY DEF Init
  <2>2. TypeInv
    BY <2>1, NoLocalType DEF Init, TypeInv, Places
  <2>3. PlaceInv
    BY <2>1 DEF Init, PlaceInv
  <2>4. ChunkInv
    BY <2>1 DEF ChunkInv
  <2>5. EvidenceInv
    BY <2>1 DEF EvidenceInv, ClearedOnEvidence
  <2>6. /\ Judged("full") = {} /\ Judged("refused") = {}
        /\ Holding("full") = {} /\ Holding("refused") = {}
        /\ {t \in Threads : pc[t] = "full"} = {}
    BY <2>1, NoLocalType DEF Judged, Holding
  <2>7. BudgetIsConserved
    <3>1. Cardinality({}) = 0 /\ budget = 0 /\ allocated = 0
      BY FS_EmptySet DEF Init
    <3> QED
      BY <2>6, <3>1 DEF BudgetIsConserved
  <2> QED
    BY <2>2, <2>3, <2>4, <2>5, <2>7 DEF SweepInv
<1>2. SweepInv /\ [Next]_vars => SweepInv'
  BY TypeStep, PlaceStep, ChunkStep, EvidenceStep, BudgetStep DEF SweepInv
<1> QED
  BY <1>1, <1>2, PTL DEF Spec

(* However the threads interleave, a unit of the budget is spent once and  *)
(* none is lost, and no pair is refused while a unit is left.              *)
THEOREM BudgetCorrect == Spec => []BudgetIsConserved
BY SweepInvHolds, PTL DEF SweepInv

(* A near pair is cleared by a refinement or an enabled gate, never by the *)
(* linear estimate, an empty budget or a failed integration.               *)
THEOREM EvidenceCorrect == Spec => []ClearedOnEvidence
<1>1. SweepInv => ClearedOnEvidence
  BY DEF SweepInv, EvidenceInv
<1> QED
  BY <1>1, SweepInvHolds, PTL

-----------------------------------------------------------------------------
(* The merge: a fold over the threads' statistics.                         *)
LEMMA StatsTypes ==
  /\ NoStats \in Stats
  /\ \A a \in Stats, b \in Stats : AddStats(a, b) \in Stats
<1>1. ASSUME NEW a \in Stats, NEW b \in Stats
      PROVE  AddStats(a, b) \in Stats
  <2>1. /\ a.checked \in Nat /\ a.collisions \in Nat /\ a.refined \in Nat
        /\ a.exhausted \in Nat /\ a.events \in Seq(Pairs)
        /\ b.checked \in Nat /\ b.collisions \in Nat /\ b.refined \in Nat
        /\ b.exhausted \in Nat /\ b.events \in Seq(Pairs)
    BY DEF Stats
  <2>2. a.events \o b.events \in Seq(Pairs)
    BY <2>1
  <2> QED BY <2>1, <2>2 DEF AddStats, Stats
<1>2. << >> \in Seq(Pairs)
  OBVIOUS
<1> QED BY <1>1, <1>2 DEF NoStats, Stats

(* The recursion FoldLeft is defined by.                                   *)
Recursion(h, st) ==
  h = [s \in SUBSET (DOMAIN st) |->
         IF s = {} THEN NoStats ELSE AddStats(h[s \ {Max(s)}], st[Max(s)])]

LEMMA StatsTable ==
  ASSUME NEW st, \E g : Recursion(g, st)
  PROVE  \E h : FoldLeft(AddStats, NoStats, st) = h[DOMAIN st] /\ Recursion(h, st)
BY DEF FoldLeft, MapThenFoldSet, Recursion

LEMMA StatsRun ==
  ASSUME NEW st \in [Threads -> Stats]
  PROVE  \E run \in [0..NumThreads -> Stats] :
           /\ run[0] = NoStats
           /\ \A k \in Threads : run[k] = AddStats(run[k - 1], st[k])
           /\ run[NumThreads] = FoldLeft(AddStats, NoStats, st)
<1> DEFINE F == [k \in Threads |-> [v \in Stats |-> AddStats(v, st[k])]]
<1>1. /\ NumThreads \in Nat /\ Threads = 1..NumThreads /\ DOMAIN st = Threads
      /\ NoStats \in Stats /\ F \in [Threads -> [Stats -> Stats]]
  BY SweepAssumption, StatsTypes DEF Threads
<1>2. Foldable(NumThreads, Stats, NoStats, F)
  BY <1>1 DEF Foldable
<1>3. \A k \in Threads, v \in Stats : F[k][v] = AddStats(v, st[k])
  OBVIOUS
<1> HIDE DEF F
<1>4. PICK g : IsTable(g, NumThreads, Stats, NoStats, F)
  BY <1>2, FoldTable
<1>5. Recursion(g, st)
  <2>1. ASSUME NEW s \in SUBSET (1..NumThreads), s # {}
        PROVE  g[s] = AddStats(g[s \ {Max(s)}], st[Max(s)])
    <3>1. Max(s) \in Threads
      BY <1>1, <2>1, SetMax
    <3>2. g[s \ {Max(s)}] \in Stats
      BY <1>4 DEF IsTable
    <3> QED BY <1>3, <1>4, <2>1, <3>1, <3>2 DEF IsTable
  <2> QED BY <1>1, <1>4, <2>1 DEF IsTable, Recursion
<1>6. PICK h : FoldLeft(AddStats, NoStats, st) = h[DOMAIN st] /\ Recursion(h, st)
  BY <1>5, StatsTable
<1>7. h[{}] = NoStats
  BY <1>6 DEF Recursion
<1>8. ASSUME NEW k \in 1..NumThreads, h[1..(k - 1)] \in Stats
      PROVE  h[1..k] = F[k][h[1..(k - 1)]]
  <2>1. 1..k # {} /\ Max(1..k) = k /\ (1..k) \ {Max(1..k)} = 1..(k - 1)
    BY SegmentMax
  <2>2. 1..k \in SUBSET (1..NumThreads)
    BY <1>1
  <2>3. h[1..k] = AddStats(h[1..(k - 1)], st[k])
    BY <1>1, <1>6, <2>1, <2>2 DEF Recursion
  <2> QED BY <1>1, <1>3, <1>8, <2>3
<1>9. PICK run : /\ IsRun(run, NumThreads, Stats, NoStats, F)
                 /\ run[NumThreads] = h[1..NumThreads]
  BY <1>2, <1>7, <1>8, FoldRun
<1>10. \A k \in Threads : run[k - 1] \in Stats
  BY <1>1, <1>9 DEF IsRun
<1> QED
  BY <1>1, <1>3, <1>6, <1>9, <1>10 DEF IsRun

(* What a merge of the statistics st reports.                              *)
Total(st) == FoldLeft(AddStats, NoStats, st)

LEMMA TotalOfNone ==
  Total([t \in Threads |-> NoStats]) = NoStats
<1> USE SweepAssumption
<1> DEFINE st == [t \in Threads |-> NoStats]
<1>1. st \in [Threads -> Stats]
  BY StatsTypes
<1>2. PICK run \in [0..NumThreads -> Stats] :
           /\ run[0] = NoStats
           /\ \A k \in Threads : run[k] = AddStats(run[k - 1], st[k])
           /\ run[NumThreads] = FoldLeft(AddStats, NoStats, st)
  <2> HIDE DEF st
  <2> QED BY <1>1, StatsRun
<1>3. AddStats(NoStats, NoStats) = NoStats
  BY DEF AddStats, NoStats
<1> DEFINE G == {k \in 0..NumThreads : run[k] = NoStats}
<1>4. 0 \in G /\ \A k \in 0..(NumThreads - 1) : k \in G => k + 1 \in G
  <2>1. ASSUME NEW k \in 0..(NumThreads - 1), run[k] = NoStats
        PROVE  run[k + 1] = NoStats
    <3>1. k + 1 \in Threads /\ (k + 1) - 1 = k
      BY DEF Threads
    <3> QED BY <1>2, <1>3, <2>1, <3>1
  <2> QED BY <1>2, <2>1
<1>5. \A k \in 0..NumThreads : k \in G
  <2> HIDE DEF G
  <2> QED BY <1>4, UpTo
<1> QED BY <1>2, <1>5 DEF Total

Counted(a) ==
  /\ a.checked \in Nat /\ a.collisions \in Nat /\ a.refined \in Nat
  /\ a.exhausted \in Nat /\ Len(a.events) \in Nat

(* c is the sum of a and b; the order of the events is left out.           *)
Sums(c, a, b) ==
  /\ c.checked = a.checked + b.checked
  /\ c.collisions = a.collisions + b.collisions
  /\ c.refined = a.refined + b.refined
  /\ c.exhausted = a.exhausted + b.exhausted
  /\ Len(c.events) = Len(a.events) + Len(b.events)
  /\ ToSet(c.events) = ToSet(a.events) \cup ToSet(b.events)

LEMMA AddStatsFields ==
  ASSUME NEW a \in Stats, NEW b \in Stats
  PROVE  Sums(AddStats(a, b), a, b) /\ Counted(a)
<1>1. /\ a.events \in Seq(Pairs) /\ b.events \in Seq(Pairs)
      /\ a.checked \in Nat /\ a.collisions \in Nat
      /\ a.refined \in Nat /\ a.exhausted \in Nat
  BY DEF Stats
<1>2. /\ Len(a.events \o b.events) = Len(a.events) + Len(b.events)
      /\ Len(a.events) \in Nat
      /\ ToSet(a.events \o b.events) = ToSet(a.events) \cup ToSet(b.events)
  BY <1>1, ConcatElements
<1> QED BY <1>1, <1>2 DEF AddStats, Sums, Counted

LEMMA SumsHere ==
  ASSUME NEW a \in Stats, NEW p \in Stats, NEW r \in Stats, NEW gain \in Stats,
         Sums(r, p, gain)
  PROVE  Sums(AddStats(a, r), AddStats(a, p), gain)
<1> DEFINE c == AddStats(a, p)
           d == AddStats(a, r)
<1>1. Sums(c, a, p) /\ Sums(d, a, r)
  BY AddStatsFields
<1>2. Counted(a) /\ Counted(p) /\ Counted(r) /\ Counted(gain)
  BY AddStatsFields
<1> HIDE DEF c, d
<1>3. ToSet(d.events) = ToSet(c.events) \cup ToSet(gain.events)
  BY <1>1 DEF Sums
<1>4. d.checked = c.checked + gain.checked
  <2>1. /\ c.checked = a.checked + p.checked /\ d.checked = a.checked + r.checked
        /\ r.checked = p.checked + gain.checked
        /\ a.checked \in Nat /\ p.checked \in Nat /\ r.checked \in Nat /\ gain.checked \in Nat
    BY <1>1, <1>2 DEF Sums, Counted
  <2> QED BY <2>1
<1>5. d.collisions = c.collisions + gain.collisions
  <2>1. /\ c.collisions = a.collisions + p.collisions /\ d.collisions = a.collisions + r.collisions
        /\ r.collisions = p.collisions + gain.collisions
        /\ a.collisions \in Nat /\ p.collisions \in Nat /\ r.collisions \in Nat /\ gain.collisions \in Nat
    BY <1>1, <1>2 DEF Sums, Counted
  <2> QED BY <2>1
<1>6. d.refined = c.refined + gain.refined
  <2>1. /\ c.refined = a.refined + p.refined /\ d.refined = a.refined + r.refined
        /\ r.refined = p.refined + gain.refined
        /\ a.refined \in Nat /\ p.refined \in Nat /\ r.refined \in Nat /\ gain.refined \in Nat
    BY <1>1, <1>2 DEF Sums, Counted
  <2> QED BY <2>1
<1>7. d.exhausted = c.exhausted + gain.exhausted
  <2>1. /\ c.exhausted = a.exhausted + p.exhausted /\ d.exhausted = a.exhausted + r.exhausted
        /\ r.exhausted = p.exhausted + gain.exhausted
        /\ a.exhausted \in Nat /\ p.exhausted \in Nat /\ r.exhausted \in Nat /\ gain.exhausted \in Nat
    BY <1>1, <1>2 DEF Sums, Counted
  <2> QED BY <2>1
<1>8. Len(d.events) = Len(c.events) + Len(gain.events)
  <2> DEFINE la == Len(a.events)
             lp == Len(p.events)
             lr == Len(r.events)
             lg == Len(gain.events)
             lc == Len(c.events)
             ld == Len(d.events)
  <2>1. /\ lc = la + lp /\ ld = la + lr /\ lr = lp + lg
        /\ la \in Nat /\ lp \in Nat /\ lr \in Nat /\ lg \in Nat
    BY <1>1, <1>2 DEF Sums, Counted
  <2>2. ld = lc + lg
    <3> HIDE DEF la, lp, lr, lg, lc, ld
    <3> QED BY <2>1
  <2> QED BY <2>2
<1>9. Sums(d, c, gain)
  BY <1>3, <1>4, <1>5, <1>6, <1>7, <1>8 DEF Sums
<1> QED BY <1>9 DEF c, d

LEMMA SumsOn ==
  ASSUME NEW a \in Stats, NEW b \in Stats, NEW gain \in Stats, Sums(b, a, gain),
         NEW e \in Stats
  PROVE  Sums(AddStats(b, e), AddStats(a, e), gain)
<1> DEFINE c == AddStats(a, e)
           d == AddStats(b, e)
<1>1. Sums(c, a, e) /\ Sums(d, b, e)
  BY AddStatsFields
<1>2. Counted(a) /\ Counted(b) /\ Counted(e) /\ Counted(gain)
  BY AddStatsFields
<1> HIDE DEF c, d
<1>3. ToSet(d.events) = ToSet(c.events) \cup ToSet(gain.events)
  BY <1>1 DEF Sums
<1>4. d.checked = c.checked + gain.checked
  <2>1. /\ c.checked = a.checked + e.checked /\ d.checked = b.checked + e.checked
        /\ b.checked = a.checked + gain.checked
        /\ a.checked \in Nat /\ b.checked \in Nat /\ e.checked \in Nat /\ gain.checked \in Nat
    BY <1>1, <1>2 DEF Sums, Counted
  <2> QED BY <2>1
<1>5. d.collisions = c.collisions + gain.collisions
  <2>1. /\ c.collisions = a.collisions + e.collisions /\ d.collisions = b.collisions + e.collisions
        /\ b.collisions = a.collisions + gain.collisions
        /\ a.collisions \in Nat /\ b.collisions \in Nat /\ e.collisions \in Nat /\ gain.collisions \in Nat
    BY <1>1, <1>2 DEF Sums, Counted
  <2> QED BY <2>1
<1>6. d.refined = c.refined + gain.refined
  <2>1. /\ c.refined = a.refined + e.refined /\ d.refined = b.refined + e.refined
        /\ b.refined = a.refined + gain.refined
        /\ a.refined \in Nat /\ b.refined \in Nat /\ e.refined \in Nat /\ gain.refined \in Nat
    BY <1>1, <1>2 DEF Sums, Counted
  <2> QED BY <2>1
<1>7. d.exhausted = c.exhausted + gain.exhausted
  <2>1. /\ c.exhausted = a.exhausted + e.exhausted /\ d.exhausted = b.exhausted + e.exhausted
        /\ b.exhausted = a.exhausted + gain.exhausted
        /\ a.exhausted \in Nat /\ b.exhausted \in Nat /\ e.exhausted \in Nat /\ gain.exhausted \in Nat
    BY <1>1, <1>2 DEF Sums, Counted
  <2> QED BY <2>1
<1>8. Len(d.events) = Len(c.events) + Len(gain.events)
  <2> DEFINE la == Len(a.events)
             lb == Len(b.events)
             le == Len(e.events)
             lg == Len(gain.events)
             lc == Len(c.events)
             ld == Len(d.events)
  <2>1. /\ lc = la + le /\ ld = lb + le /\ lb = la + lg
        /\ la \in Nat /\ lb \in Nat /\ le \in Nat /\ lg \in Nat
    BY <1>1, <1>2 DEF Sums, Counted
  <2>2. ld = lc + lg
    <3> HIDE DEF la, lb, le, lg, lc, ld
    <3> QED BY <2>1
  <2> QED BY <2>2
<1>9. Sums(d, c, gain)
  BY <1>3, <1>4, <1>5, <1>6, <1>7, <1>8 DEF Sums
<1> QED BY <1>9 DEF c, d

LEMMA TotalOfOne ==
  ASSUME NEW st \in [Threads -> Stats], NEW t \in Threads, NEW r \in Stats,
         NEW gain \in Stats, Sums(r, st[t], gain)
  PROVE  LET a == Total(st)
             b == Total([st EXCEPT ![t] = r])
         IN  a \in Stats /\ b \in Stats /\ Sums(b, a, gain)
<1> USE SweepAssumption
<1> DEFINE su == [st EXCEPT ![t] = r]
<1>1. /\ su \in [Threads -> Stats] /\ su[t] = r
      /\ \A u \in Threads : u # t => su[u] = st[u]
  OBVIOUS
<1>2. PICK one \in [0..NumThreads -> Stats] :
           /\ one[0] = NoStats
           /\ \A k \in Threads : one[k] = AddStats(one[k - 1], st[k])
           /\ one[NumThreads] = FoldLeft(AddStats, NoStats, st)
  BY StatsRun
<1> HIDE DEF su
<1>3. PICK two \in [0..NumThreads -> Stats] :
           /\ two[0] = NoStats
           /\ \A k \in Threads : two[k] = AddStats(two[k - 1], su[k])
           /\ two[NumThreads] = FoldLeft(AddStats, NoStats, su)
  BY <1>1, StatsRun
<1> DEFINE Has(k) == IF k < t THEN two[k] = one[k] ELSE Sums(two[k], one[k], gain)
           G == {k \in 0..NumThreads : Has(k)}
<1>4. Has(0)
  BY <1>2, <1>3 DEF Threads
<1>6. ASSUME NEW k \in 0..(NumThreads - 1), Has(k) PROVE Has(k + 1)
  <2>1. /\ k + 1 \in Threads /\ (k + 1) - 1 = k /\ t \in Nat
        /\ one[k] \in Stats /\ two[k] \in Stats
        /\ st[k + 1] \in Stats /\ su[k + 1] \in Stats /\ st[t] \in Stats
    BY <1>1, <1>2, <1>3 DEF Threads
  <2>2. one[k + 1] = AddStats(one[k], st[k + 1]) /\ two[k + 1] = AddStats(two[k], su[k + 1])
    BY <1>2, <1>3, <2>1
  <2>3. CASE k + 1 < t
    BY <1>1, <1>6, <2>1, <2>2, <2>3
  <2>4. CASE k + 1 = t
    <3>1. two[k] = one[k] /\ su[k + 1] = r /\ st[k + 1] = st[t]
      BY <1>1, <1>6, <2>1, <2>4
    <3>2. Sums(two[k + 1], one[k + 1], gain)
      BY <2>1, <2>2, <3>1, SumsHere
    <3> QED BY <2>1, <2>4, <3>2
  <2>5. CASE k + 1 > t
    <3>1. Sums(two[k], one[k], gain) /\ su[k + 1] = st[k + 1]
      BY <1>1, <1>6, <2>1, <2>5
    <3>2. Sums(two[k + 1], one[k + 1], gain)
      BY <2>1, <2>2, <3>1, SumsOn
    <3> QED BY <2>1, <2>5, <3>2
  <2> QED BY <2>1, <2>3, <2>4, <2>5
<1>7. \A k \in 0..NumThreads : Has(k)
  <2> HIDE DEF Has
  <2>1. 0 \in G /\ \A k \in 0..(NumThreads - 1) : k \in G => k + 1 \in G
    BY <1>4, <1>6
  <2>2. \A k \in 0..NumThreads : k \in G
    <3> HIDE DEF G
    <3> QED BY <2>1, UpTo
  <2> QED BY <2>2
<1>8. Sums(two[NumThreads], one[NumThreads], gain)
  <2>1. ~(NumThreads < t) /\ NumThreads \in 0..NumThreads
    BY DEF Threads
  <2> QED BY <1>7, <2>1
<1>9. NumThreads \in 0..NumThreads
  OBVIOUS
<1> QED
  BY <1>2, <1>3, <1>8, <1>9 DEF Total, su

-----------------------------------------------------------------------------
(* The counts.                                                             *)
Done == {i \in DOMAIN verdict : verdict[i].why # "none"}
Hits == {i \in DOMAIN verdict : verdict[i].hit}
Close == {i \in DOMAIN verdict : verdict[i].close}
Busy == {t \in Threads : pc[t] \in {"load", "swap", "full", "judge"}}

(* While the loop runs: what the merge would report agrees with the pairs  *)
(* judged so far and with those the threads are busy with.                 *)
Agrees(total) ==
  /\ total \in Stats
  /\ total.checked = Cardinality(Done) + Cardinality(Busy)
  /\ total.collisions = Cardinality(Hits)
  /\ total.refined = Cardinality(Judged("full")) + Cardinality(Holding("full"))
  /\ total.exhausted =
       Cardinality(Judged("refused")) + Cardinality(Holding("refused"))
  /\ Len(total.events) = Cardinality(Close)
  /\ ToSet(total.events) = {work[i] : i \in Close}

CountInv ==
  /\ stats \in [Threads -> Stats]
  /\ marks = {work[i].sat : i \in Hits}
  /\ \A t \in Busy : local[t].why # "none"
  /\ Hits \subseteq Done /\ Close \subseteq Done
  /\ Agrees(Total(stats))

LEMMA CountedSetsFinite ==
  ASSUME TypeInv
  PROVE  /\ IsFiniteSet(Done) /\ Cardinality(Done) \in Nat
         /\ IsFiniteSet(Hits) /\ Cardinality(Hits) \in Nat
         /\ IsFiniteSet(Close) /\ Cardinality(Close) \in Nat
         /\ IsFiniteSet(Busy) /\ Cardinality(Busy) \in Nat
<1>1. Done \subseteq DOMAIN work /\ Hits \subseteq DOMAIN work /\ Close \subseteq DOMAIN work
  BY ThreadsFinite DEF Done, Hits, Close
<1>2. Busy \subseteq Threads
  BY DEF Busy
<1>3. /\ IsFiniteSet(Done) /\ IsFiniteSet(Hits) /\ IsFiniteSet(Close)
      /\ IsFiniteSet(Busy)
  BY <1>1, <1>2, ThreadsFinite, FS_Subset
<1> QED BY <1>3, FS_CardinalityType

(* What one thread adds to its statistics the merge reports.               *)
LEMMA ThreadGains ==
  ASSUME stats \in [Threads -> Stats], NEW t \in Threads, NEW r \in Stats,
         NEW gain \in Stats, Sums(r, stats[t], gain),
         stats' = [stats EXCEPT ![t] = r]
  PROVE  /\ stats' \in [Threads -> Stats]
         /\ Total(stats') \in Stats /\ Sums(Total(stats'), Total(stats), gain)
BY TotalOfOne

LEMMA NothingCounted ==
  /\ NoStats \in Stats /\ Cardinality({}) = 0
  /\ NoStats.checked = 0 /\ NoStats.collisions = 0 /\ NoStats.refined = 0
  /\ NoStats.exhausted = 0 /\ NoStats.events = << >>
  /\ Len(<< >>) = 0 /\ ToSet(<< >>) = {}
BY StatsTypes, FS_EmptySet DEF NoStats, ToSet

LEMMA ScreenGains ==
  ASSUME stats \in [Threads -> Stats], NEW t \in Threads,
         stats' = [stats EXCEPT ![t].checked = @ + 1]
  PROVE  \E gain \in Stats :
           /\ stats' \in [Threads -> Stats]
           /\ Total(stats') \in Stats /\ Sums(Total(stats'), Total(stats), gain)
           /\ gain.collisions = 0 /\ gain.events = << >>
           /\ gain.checked = 1 /\ gain.refined = 0 /\ gain.exhausted = 0
<1> DEFINE p == stats[t]
           r == [p EXCEPT !.checked = p.checked + 1]
           gain == [checked |-> 1, collisions |-> 0, refined |-> 0,
                    exhausted |-> 0, events |-> << >>]
<1>1. /\ p \in Stats /\ p.events \in Seq(Pairs) /\ Counted(p)
  <2>1. p \in Stats
    OBVIOUS
  <2>2. \A q \in Stats : q.events \in Seq(Pairs)
    BY DEF Stats
  <2> QED BY <2>1, <2>2, AddStatsFields
<1>2. << >> \in Seq(Pairs) /\ Len(<< >>) = 0 /\ ToSet(<< >>) = {}
  BY DEF ToSet
<1>3. gain \in Stats
  BY <1>2 DEF Stats
<1>4. r \in Stats
  <2>1. \A q \in Stats, n \in Nat : [q EXCEPT !.checked = n] \in Stats
    BY DEF Stats
  <2>2. p.checked + 1 \in Nat
    BY <1>1 DEF Counted
  <2> QED BY <1>1, <2>1, <2>2
<1>5. Sums(r, p, gain)
  <2>1. /\ r.checked = p.checked + 1 /\ r.collisions = p.collisions /\ r.refined = p.refined
        /\ r.exhausted = p.exhausted /\ r.events = p.events
    BY <1>1 DEF Stats
  <2>2. Len(r.events) = Len(p.events) + Len(gain.events)
    BY <1>1, <1>2, <2>1
  <2>3. ToSet(r.events) = ToSet(p.events) \cup ToSet(gain.events)
    BY <1>2, <2>1
  <2> QED BY <1>1, <2>1, <2>2, <2>3 DEF Sums, Counted
<1>6. stats' = [stats EXCEPT ![t] = r]
  OBVIOUS
<1> HIDE DEF r
<1>7. /\ stats' \in [Threads -> Stats]
      /\ Total(stats') \in Stats /\ Sums(Total(stats'), Total(stats), gain)
  BY <1>3, <1>4, <1>5, <1>6, ThreadGains
<1> QED BY <1>3, <1>7

LEMMA RefineGains ==
  ASSUME stats \in [Threads -> Stats], NEW t \in Threads,
         stats' = [stats EXCEPT ![t].refined = @ + 1]
  PROVE  \E gain \in Stats :
           /\ stats' \in [Threads -> Stats]
           /\ Total(stats') \in Stats /\ Sums(Total(stats'), Total(stats), gain)
           /\ gain.collisions = 0 /\ gain.events = << >>
           /\ gain.checked = 0 /\ gain.refined = 1 /\ gain.exhausted = 0
<1> DEFINE p == stats[t]
           r == [p EXCEPT !.refined = p.refined + 1]
           gain == [checked |-> 0, collisions |-> 0, refined |-> 1,
                    exhausted |-> 0, events |-> << >>]
<1>1. /\ p \in Stats /\ p.events \in Seq(Pairs) /\ Counted(p)
  <2>1. p \in Stats
    OBVIOUS
  <2>2. \A q \in Stats : q.events \in Seq(Pairs)
    BY DEF Stats
  <2> QED BY <2>1, <2>2, AddStatsFields
<1>2. << >> \in Seq(Pairs) /\ Len(<< >>) = 0 /\ ToSet(<< >>) = {}
  BY DEF ToSet
<1>3. gain \in Stats
  BY <1>2 DEF Stats
<1>4. r \in Stats
  <2>1. \A q \in Stats, n \in Nat : [q EXCEPT !.refined = n] \in Stats
    BY DEF Stats
  <2>2. p.refined + 1 \in Nat
    BY <1>1 DEF Counted
  <2> QED BY <1>1, <2>1, <2>2
<1>5. Sums(r, p, gain)
  <2>1. /\ r.refined = p.refined + 1 /\ r.checked = p.checked /\ r.collisions = p.collisions
        /\ r.exhausted = p.exhausted /\ r.events = p.events
    BY <1>1 DEF Stats
  <2>2. Len(r.events) = Len(p.events) + Len(gain.events)
    BY <1>1, <1>2, <2>1
  <2>3. ToSet(r.events) = ToSet(p.events) \cup ToSet(gain.events)
    BY <1>2, <2>1
  <2> QED BY <1>1, <2>1, <2>2, <2>3 DEF Sums, Counted
<1>6. stats' = [stats EXCEPT ![t] = r]
  OBVIOUS
<1> HIDE DEF r
<1>7. /\ stats' \in [Threads -> Stats]
      /\ Total(stats') \in Stats /\ Sums(Total(stats'), Total(stats), gain)
  BY <1>3, <1>4, <1>5, <1>6, ThreadGains
<1> QED BY <1>3, <1>7

LEMMA RefusalGains ==
  ASSUME stats \in [Threads -> Stats], NEW t \in Threads,
         stats' = [stats EXCEPT ![t].exhausted = @ + 1]
  PROVE  \E gain \in Stats :
           /\ stats' \in [Threads -> Stats]
           /\ Total(stats') \in Stats /\ Sums(Total(stats'), Total(stats), gain)
           /\ gain.collisions = 0 /\ gain.events = << >>
           /\ gain.checked = 0 /\ gain.refined = 0 /\ gain.exhausted = 1
<1> DEFINE p == stats[t]
           r == [p EXCEPT !.exhausted = p.exhausted + 1]
           gain == [checked |-> 0, collisions |-> 0, refined |-> 0,
                    exhausted |-> 1, events |-> << >>]
<1>1. /\ p \in Stats /\ p.events \in Seq(Pairs) /\ Counted(p)
  <2>1. p \in Stats
    OBVIOUS
  <2>2. \A q \in Stats : q.events \in Seq(Pairs)
    BY DEF Stats
  <2> QED BY <2>1, <2>2, AddStatsFields
<1>2. << >> \in Seq(Pairs) /\ Len(<< >>) = 0 /\ ToSet(<< >>) = {}
  BY DEF ToSet
<1>3. gain \in Stats
  BY <1>2 DEF Stats
<1>4. r \in Stats
  <2>1. \A q \in Stats, n \in Nat : [q EXCEPT !.exhausted = n] \in Stats
    BY DEF Stats
  <2>2. p.exhausted + 1 \in Nat
    BY <1>1 DEF Counted
  <2> QED BY <1>1, <2>1, <2>2
<1>5. Sums(r, p, gain)
  <2>1. /\ r.exhausted = p.exhausted + 1 /\ r.checked = p.checked /\ r.collisions = p.collisions
        /\ r.refined = p.refined /\ r.events = p.events
    BY <1>1 DEF Stats
  <2>2. Len(r.events) = Len(p.events) + Len(gain.events)
    BY <1>1, <1>2, <2>1
  <2>3. ToSet(r.events) = ToSet(p.events) \cup ToSet(gain.events)
    BY <1>2, <2>1
  <2> QED BY <1>1, <2>1, <2>2, <2>3 DEF Sums, Counted
<1>6. stats' = [stats EXCEPT ![t] = r]
  OBVIOUS
<1> HIDE DEF r
<1>7. /\ stats' \in [Threads -> Stats]
      /\ Total(stats') \in Stats /\ Sums(Total(stats'), Total(stats), gain)
  BY <1>3, <1>4, <1>5, <1>6, ThreadGains
<1> QED BY <1>3, <1>7

LEMMA JudgeGains ==
  ASSUME TypeInv, PlaceInv, stats \in [Threads -> Stats], NEW t \in Threads, JudgePair(t)
  PROVE  \E gain \in Stats :
           /\ stats' \in [Threads -> Stats]
           /\ Total(stats') \in Stats /\ Sums(Total(stats'), Total(stats), gain)
           /\ gain.checked = 0 /\ gain.refined = 0 /\ gain.exhausted = 0
           /\ gain.collisions = IF local[t].d < Screening THEN 1 ELSE 0
           /\ gain.events = IF local[t].d <= FullBand THEN <<work[mine[t][1]]>> ELSE << >>
<1> DEFINE p == stats[t]
           i == mine[t][1]
           hit == local[t].d < Screening
           close == local[t].d <= FullBand
           r == [p EXCEPT !.collisions = IF hit THEN p.collisions + 1 ELSE p.collisions,
                          !.events = IF close THEN Append(p.events, work[i]) ELSE p.events]
           gain == [checked |-> 0, collisions |-> IF hit THEN 1 ELSE 0, refined |-> 0,
                    exhausted |-> 0, events |-> IF close THEN <<work[i]>> ELSE << >>]
<1>1. /\ p \in Stats /\ p.checked \in Nat /\ p.collisions \in Nat /\ p.refined \in Nat
      /\ p.exhausted \in Nat /\ p.events \in Seq(Pairs) /\ Len(p.events) \in Nat
  <2>1. p \in Stats
    OBVIOUS
  <2>2. /\ p.checked \in Nat /\ p.collisions \in Nat /\ p.refined \in Nat
        /\ p.exhausted \in Nat /\ p.events \in Seq(Pairs)
    BY <2>1 DEF Stats
  <2> QED BY <2>1, <2>2
<1>2. i \in DOMAIN work /\ Head(mine[t]) = i /\ work[i] \in Pairs
  <2>1. mine[t] # << >> /\ i \in DOMAIN work
    BY JudgedTypes
  <2>2. mine[t] \in Seq(Nat) /\ work \in Seq(Pairs)
    BY DEF TypeInv
  <2> QED BY <2>1, <2>2
<1>3. stats' = [stats EXCEPT ![t] = r]
  BY <1>2 DEF JudgePair
<1> HIDE DEF i
<1>4. r \in Stats /\ gain \in Stats
  <2>1. Append(p.events, work[i]) \in Seq(Pairs) /\ <<work[i]>> \in Seq(Pairs)
        /\ << >> \in Seq(Pairs)
    BY <1>1, <1>2
  <2>2. /\ (IF close THEN Append(p.events, work[i]) ELSE p.events) \in Seq(Pairs)
        /\ (IF close THEN <<work[i]>> ELSE << >>) \in Seq(Pairs)
        /\ (IF hit THEN p.collisions + 1 ELSE p.collisions) \in Nat
        /\ (IF hit THEN 1 ELSE 0) \in Nat
    BY <1>1, <2>1
  <2> QED BY <1>1, <2>2 DEF Stats
<1>5. Sums(r, p, gain)
  <2>1. /\ r.checked = p.checked /\ r.refined = p.refined /\ r.exhausted = p.exhausted
        /\ r.collisions = (IF hit THEN p.collisions + 1 ELSE p.collisions)
        /\ r.events = (IF close THEN Append(p.events, work[i]) ELSE p.events)
    BY <1>1 DEF Stats
  <2>2. ASSUME NEW q \in Seq(Pairs), NEW e \in Pairs
        PROVE  /\ Len(Append(q, e)) = Len(q) + 1 /\ Len(<<e>>) = 1 /\ Len(<< >>) = 0
               /\ ToSet(Append(q, e)) = ToSet(q) \cup {e} /\ ToSet(<<e>>) = {e}
               /\ ToSet(<< >>) = {}
    BY DEF ToSet
  <2>3. /\ Len(r.events) = Len(p.events) + Len(gain.events)
        /\ ToSet(r.events) = ToSet(p.events) \cup ToSet(gain.events)
    <3>1. CASE close
      BY <1>1, <1>2, <2>1, <2>2, <3>1
    <3>2. CASE ~close
      <4>1. r.events = p.events /\ gain.events = << >>
        BY <2>1, <3>2
      <4>2. Len(<< >>) = 0 /\ ToSet(<< >>) = {}
        BY DEF ToSet
      <4>3. Len(r.events) = Len(p.events) + Len(gain.events)
        <5>1. Len(gain.events) = 0
          BY <4>1, <4>2
        <5> HIDE DEF gain
        <5>2. Len(r.events) = Len(p.events)
          BY <4>1
        <5> QED BY <1>1, <5>1, <5>2
      <4>4. ToSet(r.events) = ToSet(p.events) \cup ToSet(gain.events)
        BY <4>1, <4>2
      <4> QED BY <4>3, <4>4
    <3> QED BY <3>1, <3>2
  <2>4. r.collisions = p.collisions + gain.collisions
    BY <1>1, <2>1
  <2>5. /\ r.checked = p.checked + gain.checked /\ r.refined = p.refined + gain.refined
        /\ r.exhausted = p.exhausted + gain.exhausted
    BY <1>1, <2>1
  <2> HIDE DEF r, gain
  <2> QED BY <2>3, <2>4, <2>5 DEF Sums
<1> HIDE DEF r
<1>6. /\ stats' \in [Threads -> Stats]
      /\ Total(stats') \in Stats /\ Sums(Total(stats'), Total(stats), gain)
  BY <1>3, <1>4, <1>5, ThreadGains
<1> QED BY <1>4, <1>6 DEF i

(* What a judged pair adds to the sets the report counts.                  *)
LEMMA JudgedSets ==
  ASSUME TypeInv, PlaceInv, ChunkInv, CountInv, NEW t \in Threads, JudgePair(t)
  PROVE  \E i \in DOMAIN work :
           /\ i = mine[t][1] /\ t \in Busy
           /\ Busy' = Busy \ {t}
           /\ i \notin Done /\ Done' = Done \cup {i}
           /\ i \notin Hits /\ i \notin Close
           /\ Hits' = IF local[t].d < Screening THEN Hits \cup {i} ELSE Hits
           /\ Close' = IF local[t].d <= FullBand THEN Close \cup {i} ELSE Close
           /\ \A e : e # "none" =>
                /\ i \notin Judged(e)
                /\ t \in Holding(e) <=> e = local[t].why
                /\ Judged(e)' = IF e = local[t].why THEN Judged(e) \cup {i} ELSE Judged(e)
                /\ Holding(e)' = Holding(e) \ {t}
<1> DEFINE i == mine[t][1]
<1>1. /\ mine[t] # << >> /\ i \in DOMAIN work
      /\ pc' = [pc EXCEPT ![t] = IF Tail(mine[t]) = << >> THEN "next" ELSE "screen"]
      /\ local' = [local EXCEPT ![t] = NoLocal]
  BY JudgedTypes
<1>2. PICK v \in Verdicts :
        /\ verdict' = [verdict EXCEPT ![i] = v]
        /\ v.hit = (local[t].d < Screening)
        /\ v.close = (local[t].d <= FullBand)
        /\ v.why = local[t].why
  BY JudgedTypes
<1>3. pc[t] = "judge" /\ t \in Busy /\ local[t].why # "none"
  BY DEF JudgePair, Moves, Busy, CountInv
<1>4. verdict[i].why = "none" /\ DOMAIN verdict = DOMAIN work
  <2>1. 1 \in DOMAIN mine[t]
    BY <1>1 DEF TypeInv
  <2> QED BY <2>1 DEF ChunkInv, TypeInv
<1>5. i \notin Done /\ i \notin Hits /\ i \notin Close
  BY <1>4 DEF Done, CountInv
<1> HIDE DEF i
<1>6. /\ DOMAIN verdict' = DOMAIN verdict /\ verdict'[i] = v
      /\ \A j \in DOMAIN verdict : j # i => verdict'[j] = verdict[j]
  BY <1>1, <1>2, <1>4 DEF TypeInv
<1>7. Done' = Done \cup {i}
  BY <1>1, <1>2, <1>3, <1>4, <1>6 DEF Done
<1>8. Hits' = IF local[t].d < Screening THEN Hits \cup {i} ELSE Hits
  BY <1>1, <1>2, <1>4, <1>5, <1>6 DEF Hits
<1>9. Close' = IF local[t].d <= FullBand THEN Close \cup {i} ELSE Close
  BY <1>1, <1>2, <1>4, <1>5, <1>6 DEF Close
<1>10. /\ pc'[t] \notin {"load", "swap", "full", "judge"} /\ local'[t].why = "none"
       /\ \A u \in Threads : u # t => pc'[u] = pc[u] /\ local'[u] = local[u]
  BY <1>1, NoLocalType DEF TypeInv
<1>11. Busy' = Busy \ {t}
  BY <1>10 DEF Busy
<1>12. ASSUME NEW e, e # "none"
       PROVE  /\ i \notin Judged(e)
              /\ t \in Holding(e) <=> e = local[t].why
              /\ Judged(e)' = IF e = local[t].why THEN Judged(e) \cup {i} ELSE Judged(e)
              /\ Holding(e)' = Holding(e) \ {t}
  BY <1>1, <1>2, <1>3, <1>4, <1>6, <1>10, <1>12 DEF Holding, Judged
<1> QED
  BY <1>1, <1>3, <1>5, <1>7, <1>8, <1>9, <1>11, <1>12 DEF i

LEMMA JudgeCounts ==
  ASSUME TypeInv, PlaceInv, ChunkInv, CountInv, NEW t \in Threads, JudgePair(t)
  PROVE  CountInv'
<1>1. PICK i \in DOMAIN work :
           /\ i = mine[t][1] /\ t \in Busy
           /\ Busy' = Busy \ {t}
           /\ i \notin Done /\ Done' = Done \cup {i}
           /\ i \notin Hits /\ i \notin Close
           /\ Hits' = IF local[t].d < Screening THEN Hits \cup {i} ELSE Hits
           /\ Close' = IF local[t].d <= FullBand THEN Close \cup {i} ELSE Close
           /\ \A e : e # "none" =>
                /\ i \notin Judged(e)
                /\ t \in Holding(e) <=> e = local[t].why
                /\ Judged(e)' = IF e = local[t].why THEN Judged(e) \cup {i} ELSE Judged(e)
                /\ Holding(e)' = Holding(e) \ {t}
  BY JudgedSets
<1>2. PICK gain \in Stats :
           /\ stats' \in [Threads -> Stats]
           /\ Total(stats') \in Stats /\ Sums(Total(stats'), Total(stats), gain)
           /\ gain.checked = 0 /\ gain.refined = 0 /\ gain.exhausted = 0
           /\ gain.collisions = IF local[t].d < Screening THEN 1 ELSE 0
           /\ gain.events = IF local[t].d <= FullBand THEN <<work[i]>> ELSE << >>
  BY <1>1, JudgeGains DEF CountInv
<1> DEFINE a == Total(stats)
           b == Total(stats')
<1>3. Agrees(a) /\ Sums(b, a, gain) /\ b \in Stats
  BY <1>2 DEF CountInv
<1> HIDE DEF a, b
<1>4. a.checked \in Nat /\ a.collisions \in Nat /\ a.refined \in Nat /\ a.exhausted \in Nat
  BY <1>3 DEF Agrees, Stats
<1>5. b.checked = Cardinality(Done') + Cardinality(Busy')
  <2>1. Cardinality(Done') = Cardinality(Done) + 1
    BY <1>1, CountedSetsFinite, FS_AddElement
  <2>2. Cardinality(Busy') = Cardinality(Busy) - 1
    BY <1>1, CountedSetsFinite, FS_RemoveElement
  <2>3. b.checked = a.checked + 0 /\ a.checked = Cardinality(Done) + Cardinality(Busy)
    BY <1>2, <1>3 DEF Agrees, Sums
  <2> QED BY <1>4, <2>1, <2>2, <2>3, CountedSetsFinite
<1>6. b.collisions = Cardinality(Hits')
  <2>1. Cardinality(Hits \cup {i}) = Cardinality(Hits) + 1
    BY <1>1, CountedSetsFinite, FS_AddElement
  <2>2. b.collisions = a.collisions + gain.collisions /\ a.collisions = Cardinality(Hits)
    BY <1>3 DEF Agrees, Sums
  <2> QED BY <1>1, <1>2, <1>4, <2>1, <2>2
<1>7. ASSUME NEW e, e # "none"
      PROVE  Cardinality(Judged(e)') + Cardinality(Holding(e)')
               = Cardinality(Judged(e)) + Cardinality(Holding(e))
  <2> DEFINE J == Cardinality(Judged(e))
             H == Cardinality(Holding(e))
  <2>1. /\ IsFiniteSet(Judged(e)) /\ IsFiniteSet(Holding(e)) /\ J \in Nat /\ H \in Nat
    BY SetsFinite
  <2>2. CASE e = local[t].why
    <3>1. Judged(e)' = Judged(e) \cup {i} /\ i \notin Judged(e)
      BY <1>1, <1>7, <2>2
    <3>2. Holding(e)' = Holding(e) \ {t} /\ t \in Holding(e)
      BY <1>1, <1>7, <2>2
    <3>3. Cardinality(Judged(e)') = J + 1
      BY <2>1, <3>1, FS_AddElement
    <3>4. Cardinality(Holding(e)') = H - 1
      BY <2>1, <3>2, FS_RemoveElement
    <3> HIDE DEF J, H
    <3>5. (J + 1) + (H - 1) = J + H
      BY <2>1
    <3> QED BY <3>3, <3>4, <3>5 DEF J, H
  <2>3. CASE e # local[t].why
    BY <1>1, <1>7, <2>3
  <2> QED BY <2>2, <2>3
<1>8. /\ b.refined = Cardinality(Judged("full")') + Cardinality(Holding("full")')
      /\ b.exhausted = Cardinality(Judged("refused")') + Cardinality(Holding("refused")')
  <2>1. b.refined = a.refined + 0 /\ b.exhausted = a.exhausted + 0
    BY <1>2, <1>3 DEF Sums
  <2>2. b.refined = a.refined /\ b.exhausted = a.exhausted
    BY <1>4, <2>1
  <2> QED BY <1>3, <1>7, <2>2 DEF Agrees
<1>9. Len(b.events) = Cardinality(Close')
  <2>1. Cardinality(Close \cup {i}) = Cardinality(Close) + 1
    BY <1>1, CountedSetsFinite, FS_AddElement
  <2>2. Len(b.events) = Len(a.events) + Len(gain.events) /\ Len(a.events) = Cardinality(Close)
    BY <1>3 DEF Agrees, Sums
  <2>3. Len(<<work[i]>>) = 1 /\ Len(<< >>) = 0
    OBVIOUS
  <2>4. Len(gain.events) = IF local[t].d <= FullBand THEN 1 ELSE 0
    BY <1>2, <2>3
  <2> QED BY <1>1, <2>1, <2>2, <2>4, CountedSetsFinite
<1>10. UNCHANGED work
  BY DEF JudgePair
<1>11. ToSet(b.events) = {work'[j] : j \in Close'}
  <2>1. ToSet(b.events) = ToSet(a.events) \cup ToSet(gain.events)
    BY <1>3 DEF Sums
  <2>2. ToSet(a.events) = {work[j] : j \in Close}
    BY <1>3 DEF Agrees
  <2>3. ToSet(<<work[i]>>) = {work[i]} /\ ToSet(<< >>) = {}
    BY DEF ToSet
  <2>4. ToSet(gain.events) = IF local[t].d <= FullBand THEN {work[i]} ELSE {}
    BY <1>2, <2>3
  <2>5. {work[j] : j \in Close \cup {i}} = {work[j] : j \in Close} \cup {work[i]}
    OBVIOUS
  <2> QED BY <1>1, <1>10, <2>1, <2>2, <2>4, <2>5
<1>12. marks' = {work'[j].sat : j \in Hits'}
  <2>1. marks' = IF local[t].d < Screening THEN marks \cup {work[i].sat} ELSE marks
    <3>1. mine[t] \in Seq(Nat) /\ mine[t] # << >>
      BY JudgedTypes DEF TypeInv
    <3>2. Head(mine[t]) = i
      BY <1>1, <3>1
    <3> QED BY <3>2 DEF JudgePair
  <2>2. {work[j].sat : j \in Hits \cup {i}} = {work[j].sat : j \in Hits} \cup {work[i].sat}
    OBVIOUS
  <2> QED BY <1>1, <1>10, <2>1, <2>2 DEF CountInv
<1>13. \A u \in Busy' : local'[u].why # "none"
  <2>1. local' = [local EXCEPT ![t] = NoLocal]
    BY JudgedTypes
  <2> QED BY <1>1, <2>1 DEF CountInv, Busy, TypeInv
<1>14. Hits' \subseteq Done' /\ Close' \subseteq Done'
  BY <1>1 DEF CountInv
<1>15. Agrees(Total(stats))'
  BY <1>3, <1>5, <1>6, <1>8, <1>9, <1>11 DEF Agrees, b
<1> QED
  BY <1>2, <1>12, <1>13, <1>14, <1>15 DEF CountInv

(* The steps that judge nothing.                                           *)
LEMMA QuietCounts ==
  ASSUME TypeInv, PlaceInv, CountInv, NEW t \in Threads, ThreadNext(t), ~JudgePair(t)
  PROVE  CountInv'
<1>1. /\ UNCHANGED <<phase, work, allocated>>
      /\ \A u \in Threads : u # t => pc'[u] = pc[u] /\ local'[u] = local[u]
  BY OthersStay
<1>2. UNCHANGED <<verdict, marks>>
  BY DEF ThreadNext, TakeChunk, ReachBarrier, ScreenPair, LoadBudget, SwapBudget,
         SwapFails, RefineFully
<1>3. /\ UNCHANGED <<Done, Hits, Close>> /\ \A e : Judged(e)' = Judged(e)
      /\ marks' = {work'[i].sat : i \in Hits'}
      /\ {work'[i] : i \in Close'} = {work[i] : i \in Close}
      /\ Hits' \subseteq Done' /\ Close' \subseteq Done'
  BY <1>1, <1>2 DEF Done, Hits, Close, Judged, CountInv
<1>4. stats \in [Threads -> Stats] /\ Agrees(Total(stats))
  BY DEF CountInv
<1> DEFINE a == Total(stats)
           b == Total(stats')
<1>5. /\ a.checked \in Nat /\ a.collisions \in Nat /\ a.refined \in Nat
      /\ a.exhausted \in Nat /\ Len(a.events) \in Nat
  <2>1. a \in Stats
    BY <1>4 DEF Agrees
  <2> HIDE DEF a
  <2> QED BY <2>1, AddStatsFields DEF Counted
<1>6. ASSUME NEW gain \in Stats, gain.events = << >>, Sums(b, a, gain)
      PROVE  /\ Len(b.events) = Cardinality(Close')
             /\ ToSet(b.events) = {work'[i] : i \in Close'}
  <2>1. Len(gain.events) = 0 /\ ToSet(gain.events) = {}
    BY <1>6 DEF ToSet
  <2> HIDE DEF a, b
  <2>2. Len(b.events) = Len(a.events) /\ ToSet(b.events) = ToSet(a.events)
    BY <1>5, <1>6, <2>1 DEF Sums
  <2> QED BY <1>3, <1>4, <2>2 DEF Agrees, a
<1>7. CASE UNCHANGED <<stats, local>> /\ Busy' = Busy
  <2>1. \A e : Holding(e)' = Holding(e)
    BY <1>7 DEF Holding
  <2>2. Agrees(Total(stats))'
    BY <1>3, <1>4, <1>7, <2>1 DEF Agrees
  <2>3. \A u \in Busy' : local'[u].why # "none"
    BY <1>7 DEF CountInv
  <2> QED BY <1>3, <1>4, <1>7, <2>2, <2>3 DEF CountInv
<1>8. CASE ScreenPair(t)
  <2>1. PICK pair \in Screenings :
          /\ local' = [local EXCEPT ![t] = pair]
          /\ Moves(t, "screen", IF NeedsFull(pair) THEN "load" ELSE "judge")
    BY <1>8 DEF ScreenPair
  <2>2. stats' = [stats EXCEPT ![t].checked = @ + 1]
    BY <1>8 DEF ScreenPair
  <2>3. /\ pc[t] = "screen" /\ pc'[t] \in {"load", "judge"}
        /\ local[t].why = "none" /\ local'[t].why \in {"screen", "gate", "micro"}
    <3>1. pc[t] = "screen" /\ local'[t] = pair /\ pc'[t] \in {"load", "judge"}
      BY <2>1 DEF Moves, TypeInv
    <3> QED BY <3>1, ScreenedPairs, NoLocalType DEF PlaceInv
  <2>4. t \notin Busy /\ Busy' = Busy \cup {t}
    BY <1>1, <2>3 DEF Busy
  <2>5. \A e \in {"full", "refused"} : Holding(e)' = Holding(e)
    BY <1>1, <2>3 DEF Holding
  <2>6. PICK gain \in Stats :
           /\ stats' \in [Threads -> Stats]
           /\ b \in Stats /\ Sums(b, a, gain)
           /\ gain.collisions = 0 /\ gain.events = << >>
           /\ gain.checked = 1 /\ gain.refined = 0 /\ gain.exhausted = 0
    BY <1>4, <2>2, ScreenGains
  <2>7. Cardinality(Busy') = Cardinality(Busy) + 1
    BY <2>4, CountedSetsFinite, FS_AddElement
  <2>8. /\ b.checked = a.checked + 1 /\ b.collisions = a.collisions + 0
        /\ b.refined = a.refined + 0 /\ b.exhausted = a.exhausted + 0
    BY <2>6 DEF Sums
  <2>9. /\ b.checked = Cardinality(Done') + Cardinality(Busy')
        /\ b.collisions = a.collisions /\ b.refined = a.refined
        /\ b.exhausted = a.exhausted
    <3>1. a.checked = Cardinality(Done) + Cardinality(Busy)
      BY <1>4 DEF Agrees
    <3> HIDE DEF a, b
    <3> QED BY <1>3, <1>5, <2>7, <2>8, <3>1, CountedSetsFinite
  <2>10. Agrees(Total(stats))'
    BY <1>3, <1>4, <1>6, <2>5, <2>6, <2>9 DEF Agrees
  <2>11. \A u \in Busy' : local'[u].why # "none"
    BY <1>1, <2>3, <2>4 DEF CountInv, Busy
  <2> QED BY <1>3, <2>6, <2>10, <2>11 DEF CountInv
<1>9. CASE RefusePair(t) /\ (LoadBudget(t) \/ SwapFails(t))
  <2>1. /\ pc[t] \in {"load", "swap"} /\ pc'[t] \in {"load", "swap", "full", "judge"}
        /\ local[t].why \notin {"full", "refused"} /\ local'[t].why = "refused"
    <3>1. pc[t] \in {"load", "swap"} /\ pc'[t] \in {"load", "swap", "full", "judge"}
      BY <1>9 DEF LoadBudget, SwapFails, Moves, TypeInv
    <3> QED BY <1>9, <3>1, RefusalTypes DEF PlaceInv
  <2>2. stats' = [stats EXCEPT ![t].exhausted = @ + 1]
    BY <1>9 DEF RefusePair
  <2>3. Busy' = Busy
    BY <1>1, <2>1 DEF Busy
  <2>4. /\ Holding("full")' = Holding("full")
        /\ t \notin Holding("refused") /\ Holding("refused")' = Holding("refused") \cup {t}
    BY <1>1, <2>1 DEF Holding
  <2>5. Cardinality(Holding("refused")') = Cardinality(Holding("refused")) + 1
    BY <2>4, SetsFinite, FS_AddElement
  <2>6. PICK gain \in Stats :
           /\ stats' \in [Threads -> Stats]
           /\ b \in Stats /\ Sums(b, a, gain)
           /\ gain.collisions = 0 /\ gain.events = << >>
           /\ gain.checked = 0 /\ gain.refined = 0 /\ gain.exhausted = 1
    BY <1>4, <2>2, RefusalGains
  <2>7. /\ b.checked = a.checked + 0 /\ b.collisions = a.collisions + 0
        /\ b.refined = a.refined + 0 /\ b.exhausted = a.exhausted + 1
    BY <2>6 DEF Sums
  <2>8. /\ b.exhausted = Cardinality(Judged("refused")') + Cardinality(Holding("refused")')
        /\ b.collisions = a.collisions /\ b.refined = a.refined
        /\ b.checked = a.checked
    <3>1. a.exhausted = Cardinality(Judged("refused")) + Cardinality(Holding("refused"))
      BY <1>4 DEF Agrees
    <3> HIDE DEF a, b
    <3> QED BY <1>3, <1>5, <2>5, <2>7, <3>1, SetsFinite
  <2>9. Agrees(Total(stats))'
    BY <1>3, <1>4, <1>6, <2>3, <2>4, <2>6, <2>8 DEF Agrees
  <2>10. \A u \in Busy' : local'[u].why # "none"
    BY <1>1, <2>1, <2>3 DEF CountInv, Busy
  <2> QED BY <1>3, <2>6, <2>9, <2>10 DEF CountInv
<1>10. CASE RefineFully(t)
  <2>1. /\ pc[t] = "full" /\ pc'[t] = "judge"
        /\ local[t].why \notin {"full", "refused"} /\ local'[t].why = "full"
    <3>1. pc[t] = "full" /\ pc'[t] = "judge"
      BY <1>10 DEF RefineFully, Moves, TypeInv
    <3> QED BY <1>10, <3>1, RefinedTypes DEF PlaceInv
  <2>2. stats' = [stats EXCEPT ![t].refined = @ + 1]
    BY <1>10 DEF RefineFully
  <2>3. Busy' = Busy
    BY <1>1, <2>1 DEF Busy
  <2>4. /\ Holding("refused")' = Holding("refused")
        /\ t \notin Holding("full") /\ Holding("full")' = Holding("full") \cup {t}
    BY <1>1, <2>1 DEF Holding
  <2>5. Cardinality(Holding("full")') = Cardinality(Holding("full")) + 1
    BY <2>4, SetsFinite, FS_AddElement
  <2>6. PICK gain \in Stats :
           /\ stats' \in [Threads -> Stats]
           /\ b \in Stats /\ Sums(b, a, gain)
           /\ gain.collisions = 0 /\ gain.events = << >>
           /\ gain.checked = 0 /\ gain.refined = 1 /\ gain.exhausted = 0
    BY <1>4, <2>2, RefineGains
  <2>7. /\ b.checked = a.checked + 0 /\ b.collisions = a.collisions + 0
        /\ b.refined = a.refined + 1 /\ b.exhausted = a.exhausted + 0
    BY <2>6 DEF Sums
  <2>8. /\ b.refined = Cardinality(Judged("full")') + Cardinality(Holding("full")')
        /\ b.collisions = a.collisions /\ b.exhausted = a.exhausted
        /\ b.checked = a.checked
    <3>1. a.refined = Cardinality(Judged("full")) + Cardinality(Holding("full"))
      BY <1>4 DEF Agrees
    <3> HIDE DEF a, b
    <3> QED BY <1>3, <1>5, <2>5, <2>7, <3>1, SetsFinite
  <2>9. Agrees(Total(stats))'
    BY <1>3, <1>4, <1>6, <2>3, <2>4, <2>6, <2>8 DEF Agrees
  <2>10. \A u \in Busy' : local'[u].why # "none"
    BY <1>1, <2>1, <2>3 DEF CountInv, Busy
  <2> QED BY <1>3, <2>6, <2>9, <2>10 DEF CountInv
<1>11. ASSUME TakeChunk(t) \/ ReachBarrier(t) \/ SwapBudget(t) \/
              ((LoadBudget(t) \/ SwapFails(t)) /\ ~RefusePair(t))
       PROVE  UNCHANGED <<stats, local>> /\ Busy' = Busy
  <2>1. UNCHANGED <<stats, local>>
    BY <1>11 DEF TakeChunk, ReachBarrier, SwapBudget, LoadBudget, SwapFails
  <2>2. t \in Busy <=> pc'[t] \in {"load", "swap", "full", "judge"}
    BY <1>11 DEF TakeChunk, ReachBarrier, SwapBudget, LoadBudget, SwapFails, Moves,
                 Busy, TypeInv
  <2> QED BY <1>1, <2>1, <2>2 DEF Busy
<1> QED
  BY <1>7, <1>8, <1>9, <1>10, <1>11 DEF ThreadNext

LEMMA CountStep ==
  TypeInv /\ PlaceInv /\ ChunkInv /\ CountInv /\ [Next]_vars => CountInv'
<1> SUFFICES ASSUME TypeInv, PlaceInv, ChunkInv, CountInv, [Next]_vars PROVE CountInv'
  OBVIOUS
<1>1. CASE BeginSweep
  <2>1. PICK pairs \in Candidates : StartSweep(pairs)
    BY <1>1 DEF BeginSweep
  <2>2. /\ stats' = [t \in Threads |-> NoStats] /\ marks' = {}
        /\ verdict' = [i \in DOMAIN pairs |-> NoVerdict] /\ UNCHANGED <<pc, local>>
        /\ phase = "idle"
    BY <1>1, <2>1 DEF BeginSweep, StartSweep
  <2>3. Done' = {} /\ Hits' = {} /\ Close' = {}
    BY <2>2 DEF Done, Hits, Close, NoVerdict
  <2>4. \A t \in Threads : pc'[t] = "next" /\ local'[t].why = "none"
    BY <2>2, NoLocalType DEF PlaceInv
  <2>5. Busy' = {}
    BY <2>4 DEF Busy
  <2>6. /\ Judged("full")' = {} /\ Judged("refused")' = {}
        /\ Holding("full")' = {} /\ Holding("refused")' = {}
    BY <2>2, <2>4 DEF Judged, Holding, NoVerdict
  <2>7. Total(stats') = NoStats /\ stats' \in [Threads -> Stats]
    BY <2>2, TotalOfNone, StatsTypes
  <2>8. Agrees(Total(stats))'
    <3>1. /\ {work'[i] : i \in {}} = {} /\ Cardinality({}) + Cardinality({}) = 0
      BY NothingCounted
    <3>2. Total(stats)' = NoStats
      BY <2>7
    <3>3. /\ Total(stats)'.checked = 0 /\ Total(stats)'.collisions = 0
          /\ Total(stats)'.refined = 0 /\ Total(stats)'.exhausted = 0
          /\ Len(Total(stats)'.events) = 0 /\ ToSet(Total(stats)'.events) = {}
      BY <3>2, NothingCounted
    <3> QED BY <2>3, <2>5, <2>6, <3>1, <3>2, <3>3, NothingCounted DEF Agrees
  <2>9. {work'[i].sat : i \in {}} = {}
    OBVIOUS
  <2> QED BY <2>2, <2>3, <2>5, <2>7, <2>8, <2>9 DEF CountInv
<1>2. CASE Merge
  <2>1. /\ UNCHANGED <<stats, marks, work, verdict, local>>
        /\ pc' = [t \in Threads |-> "next"] /\ \A t \in Threads : pc[t] = "barrier"
    BY <1>2 DEF Merge
  <2>2. Busy = {} /\ Busy' = {}
    BY <2>1 DEF Busy
  <2>3. /\ UNCHANGED <<Done, Hits, Close>>
        /\ \A e : Judged(e)' = Judged(e) /\ Holding(e)' = Holding(e)
    BY <2>1 DEF Done, Hits, Close, Judged, Holding
  <2> QED BY <2>1, <2>2, <2>3 DEF CountInv, Agrees
<1>3. ASSUME NEW t \in Threads, ThreadNext(t) PROVE CountInv'
  BY <1>3, JudgeCounts, QuietCounts
<1>4. CASE UNCHANGED vars
  <2>1. /\ UNCHANGED <<Done, Hits, Close, Busy>>
        /\ \A e : Judged(e)' = Judged(e) /\ Holding(e)' = Holding(e)
    BY <1>4 DEF vars, threadVars, Done, Hits, Close, Busy, Judged, Holding
  <2> QED BY <1>4, <2>1 DEF vars, threadVars, CountInv, Agrees
<1> QED
  BY <1>1, <1>2, <1>3, <1>4 DEF Next

-----------------------------------------------------------------------------
(* No pair is lost: an iteration given away is judged or in a chunk.       *)
HandInv ==
  /\ \A i \in DOMAIN work : i < next =>
       \/ verdict[i].why # "none"
       \/ \E t \in Threads : \E k \in DOMAIN mine[t] : mine[t][k] = i
  /\ \A t \in Threads : pc[t] = "barrier" => next > Len(work)

LEMMA HandStep ==
  TypeInv /\ PlaceInv /\ ChunkInv /\ CountInv /\ HandInv /\ [Next]_vars => HandInv'
<1> USE SweepAssumption
<1> SUFFICES ASSUME TypeInv, PlaceInv, ChunkInv, CountInv, HandInv, [Next]_vars
             PROVE  HandInv'
  OBVIOUS
<1>1. CASE BeginSweep
  <2>1. PICK pairs \in Candidates : StartSweep(pairs)
    BY <1>1 DEF BeginSweep
  <2>2. pairs \in Seq(Pairs) /\ work' = pairs /\ next' = 1
    BY <2>1 DEF Candidates, StartSweep
  <2>3. \A i \in DOMAIN work' : ~(i < next')
    BY <2>2
  <2>4. \A t \in Threads : pc'[t] # "barrier"
    BY <1>1, <2>1 DEF BeginSweep, StartSweep, PlaceInv
  <2> QED BY <2>3, <2>4 DEF HandInv
<1>2. CASE Merge
  <2>1. UNCHANGED <<work, next, mine, verdict>> /\ \A t \in Threads : pc'[t] # "barrier"
    BY <1>2 DEF Merge
  <2> QED BY <2>1 DEF HandInv
<1>3. ASSUME NEW t \in Threads, ThreadNext(t) PROVE HandInv'
  <2>1. /\ UNCHANGED work /\ next' \in Nat /\ next <= next' /\ next \in Nat
        /\ Len(work) \in Nat
        /\ \A u \in Threads : u # t => pc'[u] = pc[u] /\ mine'[u] = mine[u]
    BY <1>3, OthersStay DEF TypeInv
  <2>2. \A u \in Threads : pc'[u] = "barrier" => next' > Len(work')
    <3>1. pc'[t] = "barrier" => next > Len(work)
      BY <1>3 DEF ThreadNext, TakeChunk, ReachBarrier, ScreenPair, LoadBudget,
                  SwapBudget, SwapFails, RefineFully, JudgePair, Moves, TypeInv
    <3> QED BY <2>1, <3>1 DEF HandInv
  <2>3. ASSUME NEW i \in DOMAIN work, i < next'
        PROVE  \/ verdict'[i].why # "none"
               \/ \E u \in Threads : \E k \in DOMAIN mine'[u] : mine'[u][k] = i
    <3>1. CASE TakeChunk(t)
      <4>1. UNCHANGED verdict
        BY <3>1 DEF TakeChunk
      <4>2. PICK c \in Nat \ {0} :
              /\ next + c - 1 <= Len(work) /\ c <= Chunk
              /\ c = Chunk \/ next + c - 1 = Len(work)
              /\ mine' = [mine EXCEPT ![t] = [k \in 1..c |-> next + k - 1]]
              /\ next' = next + Chunk
        BY <3>1, ChunkTypes
      <4>3. mine'[t] = [k \in 1..c |-> next + k - 1]
        BY <4>2 DEF TypeInv
      <4>4. CASE i < next
        <5>1. mine[t] = << >>
          BY <3>1 DEF TakeChunk, Moves, PlaceInv
        <5>2. DOMAIN mine[t] = {}
          BY <5>1
        <5> QED BY <2>1, <4>1, <4>4, <5>2 DEF HandInv
      <4>5. CASE ~(i < next)
        <5>1. i \in 1..Len(work)
          BY DEF TypeInv
        <5>2. i - next + 1 \in 1..c
          BY <2>1, <2>3, <4>2, <4>5, <5>1
        <5>3. i - next + 1 \in DOMAIN mine'[t] /\ mine'[t][i - next + 1] = i
          BY <2>1, <4>3, <5>1, <5>2
        <5> QED BY <5>3
      <4> QED BY <4>4, <4>5
    <3>2. CASE JudgePair(t)
      <4>1. UNCHANGED next
        BY <3>2 DEF JudgePair
      <4>2. PICK j \in DOMAIN work : j = mine[t][1] /\ Done' = Done \cup {j}
        BY <3>2, JudgedSets
      <4>3. DOMAIN verdict = DOMAIN work /\ DOMAIN verdict' = DOMAIN work
        BY <1>3, <2>1, TypeStep DEF TypeInv, Next
      <4>4. CASE i \in Done'
        BY <4>3, <4>4 DEF Done
      <4>5. CASE i \notin Done'
        <5>1. i \notin Done /\ i # j
          BY <4>2, <4>5
        <5>0. PICK u \in Threads : \E k \in DOMAIN mine[u] : mine[u][k] = i
          BY <2>3, <4>1, <4>3, <5>1 DEF HandInv, Done
        <5>2. PICK k \in DOMAIN mine[u] : mine[u][k] = i
          BY <5>0
        <5>3. CASE u # t
          BY <2>1, <5>2, <5>3
        <5>4. CASE u = t
          <6>1. mine[t] \in Seq(Nat) /\ mine'[t] = Tail(mine[t]) /\ mine[t] # << >>
            BY <3>2, JudgedTypes DEF TypeInv
          <6>2. k # 1
            BY <4>2, <5>1, <5>2, <5>4
          <6>3. k - 1 \in DOMAIN mine'[t] /\ mine'[t][k - 1] = i
            <7>1. ASSUME NEW m \in Seq(Nat), m # << >>, NEW l \in DOMAIN m, l # 1
                  PROVE  l - 1 \in DOMAIN Tail(m) /\ Tail(m)[l - 1] = m[l]
              BY <7>1
            <7> QED BY <5>2, <5>4, <6>1, <6>2, <7>1
          <6> QED BY <6>3
        <5> QED BY <5>3, <5>4
      <4> QED BY <4>4, <4>5
    <3>3. CASE ~TakeChunk(t) /\ ~JudgePair(t)
      <4>1. UNCHANGED <<next, mine, verdict>>
        BY <1>3, <3>3, ChunksStay
      <4> QED BY <2>3, <4>1 DEF HandInv
    <3> QED BY <3>1, <3>2, <3>3
  <2> QED BY <2>1, <2>2, <2>3 DEF HandInv
<1>4. CASE UNCHANGED vars
  BY <1>4 DEF vars, threadVars, HandInv
<1> QED
  BY <1>1, <1>2, <1>3, <1>4 DEF Next

-----------------------------------------------------------------------------
(* The report.                                                             *)
ReportInv == out \in Stats /\ ReportIsWhole

LEMMA ReportStep ==
  TypeInv /\ PlaceInv /\ CountInv /\ HandInv /\ ReportInv /\ [Next]_vars
    => ReportInv'
<1> SUFFICES ASSUME TypeInv, PlaceInv, CountInv, HandInv, ReportInv, [Next]_vars
             PROVE  ReportInv'
  OBVIOUS
<1>1. CASE BeginSweep
  BY <1>1, StatsTypes DEF BeginSweep, StartSweep, ReportInv, ReportIsWhole
<1>2. CASE Merge
  <2>1. /\ UNCHANGED <<work, marks, verdict>> /\ out' = Total(stats)
        /\ \A t \in Threads : pc[t] = "barrier"
    BY <1>2 DEF Merge, Total
  <2>2. /\ Agrees(Total(stats)) /\ marks = {work[i].sat : i \in Hits}
    BY DEF CountInv
  <2>3. \A t \in Threads : mine[t] = << >> /\ local[t].why = "none"
    BY <2>1, NoLocalType DEF PlaceInv
  <2>4. Busy = {} /\ Holding("full") = {} /\ Holding("refused") = {}
    BY <2>1, <2>3 DEF Busy, Holding
  <2>5. Done = DOMAIN work
    <3>1. 1 \in Threads
      BY SweepAssumption DEF Threads
    <3>2. next > Len(work) /\ next \in Nat /\ DOMAIN work = 1..Len(work) /\ Len(work) \in Nat
      BY <2>1, <3>1 DEF HandInv, TypeInv
    <3>3. \A i \in DOMAIN work : i < next
      BY <3>2
    <3>4. \A t \in Threads : DOMAIN mine[t] = {}
      BY <2>3
    <3> QED BY <3>3, <3>4 DEF HandInv, TypeInv, Done
  <2>6. Cardinality(Done) = Len(work) /\ Cardinality({}) = 0
    <3>1. Len(work) \in Nat /\ DOMAIN work = 1..Len(work)
      BY DEF TypeInv
    <3>2. Cardinality(1..Len(work)) = Len(work)
      <4>1. Cardinality(1..Len(work)) =
              IF 1 > Len(work) THEN 0 ELSE Len(work) - 1 + 1
        BY <3>1, FS_Interval
      <4> QED BY <3>1, <4>1
    <3> QED BY <2>5, <3>1, <3>2, FS_EmptySet
  <2>7. /\ Total(stats).checked = Len(work)
        /\ Total(stats).refined = Cardinality(Judged("full"))
        /\ Total(stats).exhausted = Cardinality(Judged("refused"))
    <3>1. /\ Total(stats).checked = Cardinality(Done) + Cardinality(Busy)
          /\ Total(stats).refined = Cardinality(Judged("full")) + Cardinality(Holding("full"))
          /\ Total(stats).exhausted =
               Cardinality(Judged("refused")) + Cardinality(Holding("refused"))
      BY <2>2 DEF Agrees
    <3>2. Len(work) \in Nat
      BY DEF TypeInv
    <3>3. Cardinality(Judged("full")) \in Nat /\ Cardinality(Judged("refused")) \in Nat
      BY SetsFinite
    <3>4. /\ Cardinality(Busy) = 0 /\ Cardinality(Holding("full")) = 0
          /\ Cardinality(Holding("refused")) = 0 /\ Cardinality(Done) = Len(work)
      BY <2>4, <2>6
    <3> QED BY <3>1, <3>2, <3>3, <3>4
  <2>8. Total(stats) \in Stats
    BY <2>2 DEF Agrees
  <2>9. /\ Total(stats).collisions = Cardinality(Hits)
        /\ Len(Total(stats).events) = Cardinality(Close)
        /\ ToSet(Total(stats).events) = {work[i] : i \in Close}
    BY <2>2 DEF Agrees
  <2> QED
    BY <2>1, <2>2, <2>7, <2>8, <2>9 DEF ReportInv, ReportIsWhole, Hits, Close, Judged
<1>3. ASSUME NEW t \in Threads, ThreadNext(t) PROVE ReportInv'
  <2>1. phase' # "idle"
    BY <1>3, OthersStay
  <2>2. UNCHANGED out
    BY <1>3 DEF ThreadNext, TakeChunk, ReachBarrier, ScreenPair, LoadBudget,
                SwapBudget, SwapFails, RefineFully, JudgePair
  <2> QED BY <2>1, <2>2 DEF ReportInv, ReportIsWhole
<1>4. CASE UNCHANGED vars
  BY <1>4 DEF vars, threadVars, ReportInv, ReportIsWhole, Judged
<1> QED
  BY <1>1, <1>2, <1>3, <1>4 DEF Next

WholeInv == SweepInv /\ CountInv /\ HandInv /\ ReportInv

LEMMA WholeInvHolds == Spec => []WholeInv
<1>1. Init => CountInv /\ HandInv /\ ReportInv
  <2> SUFFICES ASSUME Init PROVE CountInv /\ HandInv /\ ReportInv
    OBVIOUS
  <2>1. /\ work = << >> /\ verdict = << >> /\ DOMAIN work = {} /\ DOMAIN verdict = {}
        /\ \A t \in Threads : pc[t] = "next" /\ local[t].why = "none"
    BY NoLocalType DEF Init
  <2>2. Done = {} /\ Hits = {} /\ Close = {} /\ Busy = {}
    BY <2>1 DEF Done, Hits, Close, Busy
  <2>3. /\ Judged("full") = {} /\ Judged("refused") = {}
        /\ Holding("full") = {} /\ Holding("refused") = {}
    BY <2>1 DEF Judged, Holding
  <2>4. Total(stats) = NoStats /\ stats \in [Threads -> Stats] /\ marks = {}
    BY TotalOfNone, StatsTypes DEF Init
  <2>5. CountInv
    <3>1. /\ {work[i] : i \in {}} = {} /\ Cardinality({}) + Cardinality({}) = 0
          /\ {work[i].sat : i \in {}} = {}
      BY NothingCounted
    <3>2. /\ Total(stats).checked = 0 /\ Total(stats).collisions = 0
          /\ Total(stats).refined = 0 /\ Total(stats).exhausted = 0
          /\ Len(Total(stats).events) = 0 /\ ToSet(Total(stats).events) = {}
      BY <2>4, NothingCounted
    <3>3. Agrees(Total(stats))
      BY <2>2, <2>3, <2>4, <3>1, <3>2, NothingCounted DEF Agrees
    <3> QED BY <2>2, <2>4, <3>1, <3>3 DEF CountInv
  <2>6. HandInv
    BY <2>1 DEF HandInv
  <2>7. ReportInv
    <3>1. out = NoStats /\ Len(work) = 0
      BY <2>1 DEF Init
    <3> QED
      BY <2>1, <2>2, <2>3, <2>4, <3>1, NothingCounted
         DEF ReportInv, ReportIsWhole, Hits, Close, Judged
  <2> QED BY <2>5, <2>6, <2>7
<1>2. WholeInv /\ [Next]_vars => CountInv' /\ HandInv' /\ ReportInv'
  BY CountStep, HandStep, ReportStep DEF WholeInv, SweepInv
<1> QED
  BY <1>1, <1>2, SweepInvHolds, PTL DEF Spec, WholeInv

(* Every variable has its type, the threads' statistics and the merged     *)
(* report included.                                                        *)
THEOREM SweepTypeCorrect == Spec => []TypeOK
<1>1. WholeInv => TypeOK
  <2> SUFFICES ASSUME WholeInv PROVE TypeOK
    OBVIOUS
  <2>1. TypeInv /\ CountInv /\ out \in Stats
    BY DEF WholeInv, SweepInv, ReportInv
  <2>2. verdict \in Seq(Verdicts)
    BY <2>1 DEF TypeInv
  <2>3. marks \subseteq 1..NumSats
    <3>1. \A i \in Hits : work[i].sat \in 1..NumSats
      <4>1. Hits \subseteq DOMAIN work /\ work \in Seq(Pairs)
        BY <2>1 DEF Hits, TypeInv
      <4>2. \A i \in DOMAIN work : work[i] \in Pairs
        BY <4>1
      <4> QED BY <4>1, <4>2 DEF Pairs
    <3> QED BY <2>1, <3>1 DEF CountInv
  <2> QED
    BY <2>1, <2>2, <2>3 DEF TypeOK, TypeInv, CountInv, Places
<1> QED
  BY <1>1, WholeInvHolds, PTL

(* Whatever the schedule, the step reports every pair once, every collision *)
(* and close approach it found, and marks exactly the satellites hit.      *)
THEOREM ReportCorrect == Spec => []ReportIsWhole
BY WholeInvHolds, PTL DEF WholeInv, ReportInv
=============================================================================
