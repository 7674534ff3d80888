------------------------ MODULE EventHistories_proofs -------------------------
(***************************************************************************)
(* Proofs about EventHistories, for any satellites, burns, limits and      *)
(* number of steps: comparing the queue by id loses no executed burn, the  *)
(* fuel figures are what the tanks lost, the counterfactual of a listed    *)
(* evasion is its own and present, and the endpoints agree.                *)
(*                                                                         *)
(* A step is one action that filters, executes, compares, charges and      *)
(* truncates sequences. What each of those folds computes is a lemma by    *)
(* induction over the sequence; the step is then a list of plain facts     *)
(* about sets of burns (Digest), and the invariant follows from those.     *)
(***************************************************************************)
EXTENDS EventHistories, FoldTheorems

-----------------------------------------------------------------------------
(* A bounded history keeps its newest records.                             *)
Newest(kept, V, seq, k) ==
  /\ kept \in Seq(V) /\ Len(kept) <= k /\ Len(kept) <= Len(seq)
  /\ \A i \in 1..Len(kept) : /\ i + (Len(seq) - Len(kept)) \in 1..Len(seq)
                             /\ kept[i] = seq[i + (Len(seq) - Len(kept))]
  /\ \A m \in 1..Len(seq) :
       Len(seq) - m < k => m - (Len(seq) - Len(kept)) \in 1..Len(kept)

(* Kept returns the newest k elements in their order. *)
LEMMA KeptProperties ==
  ASSUME NEW V, NEW seq \in Seq(V), NEW k \in Nat
  PROVE  Newest(Kept(seq, k), V, seq, k)
<1>1. Len(seq) \in Nat /\ DOMAIN seq = 1..Len(seq) /\ \A i \in 1..Len(seq) : seq[i] \in V
  OBVIOUS
<1>2. CASE Len(seq) <= k
  BY <1>1, <1>2 DEF Kept, Newest
<1>3. CASE Len(seq) > k
  <2> DEFINE m == Len(seq) - k + 1
             kept == SubSeq(seq, m, Len(seq))
  <2>1. /\ m \in Int /\ Len(seq) \in Int
        /\ \A i \in m..Len(seq) : seq[i] \in V
    BY <1>1, <1>3
  <2>2. /\ kept \in Seq(V)
        /\ Len(kept) = IF m <= Len(seq) THEN Len(seq) - m + 1 ELSE 0
        /\ \A i \in 1..(Len(seq) - m + 1) : kept[i] = seq[m + i - 1]
    <3> HIDE DEF m
    <3> QED BY <2>1, SubSeqProperties
  <2>3. Kept(seq, k) = kept
    BY <1>1, <1>3 DEF Kept
  <2> HIDE DEF kept
  <2>4. Len(kept) = k
    BY <1>1, <1>3, <2>2
  <2>5. \A i \in 1..k : kept[i] = seq[i + (Len(seq) - k)] /\ i + (Len(seq) - k) \in 1..Len(seq)
    <3> SUFFICES ASSUME NEW i \in 1..k
        PROVE  kept[i] = seq[i + (Len(seq) - k)] /\ i + (Len(seq) - k) \in 1..Len(seq)
      OBVIOUS
    <3>1. i \in 1..(Len(seq) - m + 1) /\ m + i - 1 = i + (Len(seq) - k)
      BY <1>1
    <3>2. i + (Len(seq) - k) \in 1..Len(seq)
      BY <1>1, <1>3
    <3> QED BY <2>2, <3>1, <3>2
  <2>6. \A j \in 1..Len(seq) : Len(seq) - j < k => j - (Len(seq) - k) \in 1..k
    BY <1>1, <1>3
  <2>7. kept \in Seq(V) /\ Len(kept) <= k /\ Len(kept) <= Len(seq)
    BY <1>1, <1>3, <2>2, <2>4
  <2>8. /\ \A i \in 1..Len(kept) : i + (Len(seq) - Len(kept)) \in 1..Len(seq)
                                   /\ kept[i] = seq[i + (Len(seq) - Len(kept))]
        /\ \A j \in 1..Len(seq) :
             Len(seq) - j < k => j - (Len(seq) - Len(kept)) \in 1..Len(kept)
    BY <2>4, <2>5, <2>6
  <2> QED BY <2>3, <2>7, <2>8 DEF Newest
<1> QED BY <1>1, <1>2, <1>3

-----------------------------------------------------------------------------
(* What the executor makes of the queue.                                   *)
Runs == [fuel : Tanks, kept : Seq(Burn), fired : Seq(Burn)]

Executing(h, burns, due) ==
  h = [s \in SUBSET (DOMAIN burns) |->
         IF s = {} THEN [fuel |-> fuel, kept |-> << >>, fired |-> << >>]
         ELSE Execute(h[s \ {Max(s)}], burns[Max(s)], due)]

(* What Executor evaluates to solves its recursion. *)
LEMMA ExecutorTable ==
  ASSUME NEW burns, NEW due, \E g : Executing(g, burns, due)
  PROVE  \E h : Executor(burns, due) = h[DOMAIN burns] /\ Executing(h, burns, due)
BY DEF Executor, FoldLeft, MapThenFoldSet, Executing

(* One burn.                                                               *)
OneMore(next, run, b, due) ==
  /\ ToSet(next.kept) = ToSet(run.kept) \cup (IF b.n \in due THEN {} ELSE {b})
  /\ ToSet(run.fired) \subseteq ToSet(next.fired)
  /\ ToSet(next.fired) \subseteq
       ToSet(run.fired) \cup (IF b.n \in due THEN {b} ELSE {})
  /\ \A s \in Sats :
       /\ next.fuel[s] <= run.fuel[s]
       /\ next.fuel[s] # run.fuel[s] => b.sat = s /\ b \in ToSet(next.fired)

(* One burn of the queue is kept, fired or lost, and takes fuel only if fired. *)
LEMMA ExecuteOne ==
  ASSUME NEW run \in Runs, NEW b \in Burn, NEW due
  PROVE  /\ Execute(run, b, due) \in Runs
         /\ OneMore(Execute(run, b, due), run, b, due)
<1>1. /\ run.fuel \in Tanks /\ run.kept \in Seq(Burn) /\ run.fired \in Seq(Burn)
      /\ run = [fuel |-> run.fuel, kept |-> run.kept, fired |-> run.fired]
  BY DEF Runs
<1>2. b.sat \in Sats /\ Cost[b.kind] \in Nat \ {0}
  BY HistoryAssumption DEF Burn
<1>3. CASE b.n \notin due
  <2> DEFINE next == [run EXCEPT !.kept = Append(run.kept, b)]
  <2>1. Execute(run, b, due) = next
    BY <1>3 DEF Execute
  <2>2. Append(run.kept, b) \in Seq(Burn) /\ ToSet(Append(run.kept, b)) = ToSet(run.kept) \cup {b}
    BY <1>1, AppendElements
  <2>3. /\ next.fuel = run.fuel /\ next.fired = run.fired
        /\ next.kept = Append(run.kept, b)
        /\ next \in Runs
    BY <1>1, <2>2 DEF Runs
  <2> HIDE DEF next
  <2>4. \A s \in Sats : run.fuel[s] <= run.fuel[s]
    BY <1>1 DEF Tanks
  <2> QED BY <1>3, <2>1, <2>2, <2>3, <2>4 DEF OneMore
<1>4. CASE b.n \in due /\ Cost[b.kind] > run.fuel[b.sat]
  <2>1. Execute(run, b, due) = run
    BY <1>4 DEF Execute
  <2>2. \A s \in Sats : run.fuel[s] <= run.fuel[s]
    BY <1>1 DEF Tanks
  <2> QED BY <1>4, <2>1, <2>2 DEF OneMore
<1>5. CASE b.n \in due /\ ~(Cost[b.kind] > run.fuel[b.sat])
  <2> DEFINE left == [run.fuel EXCEPT ![b.sat] = run.fuel[b.sat] - Cost[b.kind]]
             next == [run EXCEPT !.fuel = left, !.fired = Append(run.fired, b)]
  <2>1. Execute(run, b, due) = next
    BY <1>1, <1>5 DEF Execute, Tanks
  <2>2. Append(run.fired, b) \in Seq(Burn) /\ ToSet(Append(run.fired, b)) = ToSet(run.fired) \cup {b}
    BY <1>1, AppendElements
  <2>3. run.fuel[b.sat] \in 0..FullTank /\ run.fuel[b.sat] - Cost[b.kind] \in 0..FullTank
    <3>1. run.fuel[b.sat] \in 0..FullTank /\ FullTank \in Nat
      BY <1>1, <1>2, HistoryAssumption DEF Tanks
    <3> QED BY <1>2, <1>5, <3>1
  <2>4. /\ left \in Tanks /\ left[b.sat] = run.fuel[b.sat] - Cost[b.kind]
        /\ \A s \in Sats : s # b.sat => left[s] = run.fuel[s]
    BY <1>1, <1>2, <2>3 DEF Tanks
  <2> HIDE DEF left
  <2>5. /\ next.fuel = left /\ next.kept = run.kept
        /\ next.fired = Append(run.fired, b)
        /\ next \in Runs
    BY <1>1, <2>2, <2>4 DEF Runs
  <2> HIDE DEF next
  <2>6. \A s \in Sats : left[s] <= run.fuel[s] /\ (left[s] # run.fuel[s] => b.sat = s)
    BY <1>1, <1>2, <2>3, <2>4 DEF Tanks
  <2> QED BY <1>5, <2>1, <2>2, <2>5, <2>6 DEF OneMore
<1> QED BY <1>3, <1>4, <1>5

IsExecution(run, burns, due) ==
  /\ run \in [0..Len(burns) -> Runs]
  /\ run[0] = [fuel |-> fuel, kept |-> << >>, fired |-> << >>]
  /\ \A k \in 1..Len(burns) : run[k] = Execute(run[k - 1], burns[k], due)
  /\ run[Len(burns)] = Executor(burns, due)

(* Executor is the end of the run of its partial results. *)
LEMMA ExecutorRun ==
  ASSUME fuel \in Tanks, NEW burns \in Seq(Burn), NEW due
  PROVE  \E run : IsExecution(run, burns, due)
<1> DEFINE n == Len(burns)
           base == [fuel |-> fuel, kept |-> << >>, fired |-> << >>]
           F == [k \in 1..n |-> [v \in Runs |-> Execute(v, burns[k], due)]]
<1>1. n \in Nat /\ DOMAIN burns = 1..n /\ \A k \in 1..n : burns[k] \in Burn
  OBVIOUS
<1>2. \A v \in Runs, k \in 1..n : Execute(v, burns[k], due) \in Runs
  BY <1>1, ExecuteOne
<1>3. base \in Runs
  <2>1. << >> \in Seq(Burn)
    OBVIOUS
  <2> QED BY <2>1 DEF Runs
<1>4. F \in [1..n -> [Runs -> Runs]]
  BY <1>2
<1>5. \A k \in 1..n, v \in Runs : F[k][v] = Execute(v, burns[k], due)
  OBVIOUS
<1> HIDE DEF F, n
<1>6. Foldable(n, Runs, base, F)
  <2> HIDE DEF base
  <2> QED BY <1>1, <1>3, <1>4 DEF Foldable
<1>7. PICK g : IsTable(g, n, Runs, base, F)
  <2> HIDE DEF base
  <2> QED BY <1>6, FoldTable
<1>8. Executing(g, burns, due)
  <2>1. ASSUME NEW s \in SUBSET (1..n), s # {}
        PROVE  g[s] = Execute(g[s \ {Max(s)}], burns[Max(s)], due)
    <3> HIDE DEF base
    <3>1. Max(s) \in 1..n
      BY <1>1, <2>1, SetMax
    <3>2. g[s \ {Max(s)}] \in Runs
      BY <1>7 DEF IsTable
    <3> QED BY <1>5, <1>7, <2>1, <3>1, <3>2 DEF IsTable
  <2> QED BY <1>1, <1>7, <2>1 DEF IsTable, Executing
<1>9. PICK h : Executor(burns, due) = h[DOMAIN burns] /\ Executing(h, burns, due)
  BY <1>8, ExecutorTable
<1>10. h[{}] = base
  BY <1>9 DEF Executing
<1> HIDE DEF base
<1>11. ASSUME NEW k \in 1..n, h[1..(k - 1)] \in Runs
       PROVE  h[1..k] = F[k][h[1..(k - 1)]]
  <2>1. 1..k # {} /\ Max(1..k) = k /\ (1..k) \ {Max(1..k)} = 1..(k - 1)
    BY SegmentMax
  <2>2. 1..k \in SUBSET (1..n)
    BY <1>1
  <2>3. h[1..k] = Execute(h[1..(k - 1)], burns[k], due)
    BY <1>1, <1>9, <2>1, <2>2 DEF Executing
  <2> QED BY <1>5, <1>11, <2>3
<1>12. PICK run : IsRun(run, n, Runs, base, F) /\ run[n] = h[1..n]
  BY <1>6, <1>10, <1>11, FoldRun
<1>13. \A k \in 1..n : run[k - 1] \in Runs
  BY <1>1, <1>12 DEF IsRun
<1>14. \A k \in 1..n : run[k] = Execute(run[k - 1], burns[k], due)
  BY <1>5, <1>12, <1>13 DEF IsRun
<1> QED
  BY <1>1, <1>9, <1>12, <1>14 DEF IsRun, IsExecution, n, base

Executed(run, burns, due) ==
  /\ run \in Runs
  /\ ToSet(run.kept) = {b \in ToSet(burns) : b.n \notin due}
  /\ ToSet(run.fired) \subseteq {b \in ToSet(burns) : b.n \in due}
  /\ \A s \in Sats :
       /\ run.fuel[s] <= fuel[s]
       /\ run.fuel[s] # fuel[s] => \E b \in ToSet(run.fired) : b.sat = s

(* execute_due_maneuvers: what it keeps, what it fires and whose fuel it takes. *)
LEMMA ExecutorProperties ==
  ASSUME fuel \in Tanks, NEW burns \in Seq(Burn), NEW due
  PROVE  Executed(Executor(burns, due), burns, due)
<1>1. PICK run : IsExecution(run, burns, due)
  BY ExecutorRun
<1>2. Len(burns) \in Nat /\ DOMAIN burns = 1..Len(burns) /\ \A k \in 1..Len(burns) : burns[k] \in Burn
  OBVIOUS
<1> DEFINE Some(k) == {burns[m] : m \in 1..k}
           Has(k) ==
             /\ ToSet(run[k].kept) = {b \in Some(k) : b.n \notin due}
             /\ ToSet(run[k].fired) \subseteq {b \in Some(k) : b.n \in due}
             /\ \A s \in Sats :
                  /\ run[k].fuel[s] <= fuel[s]
                  /\ run[k].fuel[s] # fuel[s] =>
                       \E b \in ToSet(run[k].fired) : b.sat = s
<1>3. Has(0)
  <2>1. ToSet(<< >>) = {} /\ Some(0) = {}
    BY DEF ToSet
  <2>2. run[0].fuel = fuel /\ run[0].kept = << >> /\ run[0].fired = << >>
    BY <1>1 DEF IsExecution
  <2>3. \A s \in Sats : fuel[s] <= fuel[s]
    BY DEF Tanks
  <2> HIDE DEF Some
  <2> QED BY <2>1, <2>2, <2>3
<1>4. ASSUME NEW k \in 0..(Len(burns) - 1), Has(k) PROVE Has(k + 1)
  <2> DEFINE b == burns[k + 1]
  <2>1. k + 1 \in 1..Len(burns) /\ (k + 1) - 1 = k /\ k \in 0..Len(burns)
    BY <1>2
  <2>2. run[k + 1] = Execute(run[k], b, due) /\ run[k] \in Runs /\ b \in Burn
        /\ run[k + 1] \in Runs
    BY <1>1, <1>2, <2>1 DEF IsExecution
  <2>3. Some(k + 1) = Some(k) \cup {b}
    <3>1. 1..(k + 1) = (1..k) \cup {k + 1}
      BY <2>1
    <3> QED BY <3>1
  <2> DEFINE next == run[k + 1]
             old == run[k]
  <2>4. /\ ToSet(next.kept) = ToSet(old.kept) \cup (IF b.n \in due THEN {} ELSE {b})
        /\ ToSet(old.fired) \subseteq ToSet(next.fired)
        /\ ToSet(next.fired) \subseteq ToSet(old.fired) \cup (IF b.n \in due THEN {b} ELSE {})
        /\ \A s \in Sats :
             /\ next.fuel[s] <= old.fuel[s]
             /\ next.fuel[s] # old.fuel[s] => b.sat = s /\ b \in ToSet(next.fired)
    <3>1. OneMore(next, old, b, due)
      <4> HIDE DEF b
      <4> QED BY <2>2, ExecuteOne
    <3> HIDE DEF b, next, old
    <3> QED BY <3>1 DEF OneMore
  <2>5. \A s \in Sats : next.fuel[s] \in Int /\ old.fuel[s] \in Int /\ fuel[s] \in Int
    BY <2>2 DEF Runs, Tanks
  <2>6. /\ ToSet(old.kept) = {c \in Some(k) : c.n \notin due}
        /\ ToSet(old.fired) \subseteq {c \in Some(k) : c.n \in due}
        /\ \A s \in Sats :
             /\ old.fuel[s] <= fuel[s]
             /\ old.fuel[s] # fuel[s] => \E c \in ToSet(old.fired) : c.sat = s
    BY <1>4
  <2> HIDE DEF b, next, old, Some
  <2>7. ToSet(next.kept) = {c \in Some(k + 1) : c.n \notin due}
    BY <2>3, <2>4, <2>6
  <2>8. ToSet(next.fired) \subseteq {c \in Some(k + 1) : c.n \in due}
    BY <2>3, <2>4, <2>6
  <2>9. ASSUME NEW s \in Sats
        PROVE  /\ next.fuel[s] <= fuel[s]
               /\ next.fuel[s] # fuel[s] => \E c \in ToSet(next.fired) : c.sat = s
    <3>1. next.fuel[s] <= fuel[s]
      BY <2>4, <2>5, <2>6
    <3>2. ASSUME next.fuel[s] # fuel[s] PROVE \E c \in ToSet(next.fired) : c.sat = s
      <4>1. CASE next.fuel[s] # old.fuel[s]
        BY <2>4, <4>1
      <4>2. CASE next.fuel[s] = old.fuel[s]
        BY <2>4, <2>6, <3>2, <4>2
      <4> QED BY <4>1, <4>2
    <3> QED BY <3>1, <3>2
  <2> QED BY <2>7, <2>8, <2>9 DEF next
<1>5. Has(Len(burns))
  <2> HIDE DEF Has
  <2> DEFINE G == {k \in 0..Len(burns) : Has(k)}
  <2>1. 0 \in G /\ \A k \in 0..(Len(burns) - 1) : k \in G => k + 1 \in G
    BY <1>2, <1>3, <1>4
  <2>2. \A k \in 0..Len(burns) : k \in G
    <3> HIDE DEF G
    <3> QED BY <1>2, <2>1, UpTo
  <2> QED BY <1>2, <2>2
<1>6. Some(Len(burns)) = ToSet(burns)
  BY <1>2 DEF ToSet
<1>7. run[Len(burns)] = Executor(burns, due) /\ run[Len(burns)] \in Runs
  BY <1>1, <1>2 DEF IsExecution
<1> HIDE DEF Some
<1> QED BY <1>5, <1>6, <1>7 DEF Executed

\* The records of a step in which satellite s lost loss[s].
Losing(records, loss) ==
  /\ records \in Seq(Entry)
  /\ loss \in [Sats -> Nat]
  /\ \A i \in 1..Len(records) :
       records[i].before - records[i].after = loss[records[i].sat]

Charging(h, records) ==
  h = [s \in SUBSET (DOMAIN records) |->
         IF s = {} THEN stats ELSE Charge(h[s \ {Max(s)}], records[Max(s)])]

(* What charging the records evaluates to solves its recursion. *)
LEMMA ChargeTable ==
  ASSUME NEW records, \E g : Charging(g, records)
  PROVE  \E h : FoldLeft(Charge, stats, records) = h[DOMAIN records] /\ Charging(h, records)
BY DEF FoldLeft, MapThenFoldSet, Charging

OneCharge(next, st, r) ==
  /\ next[r.sat].fuel = st[r.sat].fuel + (r.before - r.after)
  /\ \A s \in Sats : s # r.sat => next[s] = st[s]

(* A record changes the figures of its satellite only, by what it lost. *)
LEMMA ChargeOne ==
  ASSUME NEW st \in FigureTable, NEW r \in Entry, r.before - r.after \in Nat
  PROVE  Charge(st, r) \in FigureTable /\ OneCharge(Charge(st, r), st, r)
<1> DEFINE f == st[r.sat]
           g == [f EXCEPT !.burns = f.burns + 1, !.fuel = f.fuel + r.before - r.after,
               !.saved = f.saved + Flag(Avoidance(r) /\ r.saved),
               !.avoidance = f.avoidance + Flag(Avoidance(r)),
               !.avoidanceFuel =
                  f.avoidanceFuel + (r.before - r.after) * Flag(Avoidance(r)),
               !.recovery = f.recovery + Flag(r.kind = "recovery"),
               !.graveyard = f.graveyard + Flag(r.kind = "graveyard")]
<1>1. /\ r.sat \in Sats /\ f \in Figures
      /\ r.before \in 0..FullTank /\ r.after \in 0..FullTank
  BY DEF Entry, FigureTable
<1>2. \A p : Flag(p) \in {0, 1}
  BY DEF Flag
<1>3. /\ f.burns + 1 \in Nat /\ f.fuel + r.before - r.after \in Nat
      /\ f.fuel + r.before - r.after = f.fuel + (r.before - r.after)
  <2>1. f.burns \in Nat /\ f.fuel \in Nat /\ r.before \in Int /\ r.after \in Int
    BY <1>1, HistoryAssumption DEF Figures
  <2> QED BY <2>1
<1>4. \A p : \A a \in Nat : a + Flag(p) \in Nat
  <2>1. ASSUME NEW a \in Nat, NEW p PROVE a + Flag(p) \in Nat
    BY <1>2
  <2> QED BY <2>1
<1>5. \A p : \A a \in Nat : a + (r.before - r.after) * Flag(p) \in Nat
  <2>1. ASSUME NEW a \in Nat, NEW p PROVE a + (r.before - r.after) * Flag(p) \in Nat
    <3>1. CASE Flag(p) = 0
      <4>1. (r.before - r.after) * Flag(p) = 0
        BY <3>1
      <4> QED BY <4>1
    <3>2. CASE Flag(p) = 1
      <4>1. (r.before - r.after) * Flag(p) = r.before - r.after
        BY <3>2
      <4> QED BY <4>1
    <3> QED BY <1>2, <3>1, <3>2
  <2> QED BY <2>1
<1>6. g \in Figures /\ g.fuel = f.fuel + (r.before - r.after)
  <2> DEFINE a == f.burns + 1
             b == f.fuel + r.before - r.after
             c == f.saved + Flag(Avoidance(r) /\ r.saved)
             d == f.avoidance + Flag(Avoidance(r))
             e == f.avoidanceFuel + (r.before - r.after) * Flag(Avoidance(r))
             k == f.recovery + Flag(r.kind = "recovery")
             l == f.graveyard + Flag(r.kind = "graveyard")
  <2>1. /\ f.saved \in Nat /\ f.avoidance \in Nat /\ f.avoidanceFuel \in Nat
        /\ f.recovery \in Nat /\ f.graveyard \in Nat
    BY <1>1 DEF Figures
  <2>2. a \in Nat /\ b \in Nat
    BY <1>3
  <2>3. c \in Nat
    BY <1>4, <2>1
  <2>4. d \in Nat
    BY <1>4, <2>1
  <2>5. e \in Nat
    BY <1>5, <2>1
  <2>6. k \in Nat
    BY <1>4, <2>1
  <2>7. l \in Nat
    BY <1>4, <2>1
  <2>8. b = f.fuel + (r.before - r.after)
    BY <1>3
  <2>9. g = [f EXCEPT !.burns = a, !.fuel = b, !.saved = c, !.avoidance = d,
                      !.avoidanceFuel = e, !.recovery = k, !.graveyard = l]
    OBVIOUS
  <2> HIDE DEF a, b, c, d, e, f, g, k, l
  <2> QED BY <1>1, <2>2, <2>3, <2>4, <2>5, <2>6, <2>7, <2>8, <2>9 DEF Figures
<1>7. Charge(st, r) = [st EXCEPT ![r.sat] = g]
  BY <1>1 DEF Charge, WithBurn
<1> HIDE DEF g
<1> QED BY <1>1, <1>6, <1>7 DEF FigureTable, OneCharge

IsCharging(run, records) ==
  /\ run \in [0..Len(records) -> FigureTable]
  /\ run[0] = stats
  /\ \A k \in 1..Len(records) : run[k] = Charge(run[k - 1], records[k])
  /\ run[Len(records)] = FoldLeft(Charge, stats, records)

(* Charging is the end of the run of its partial results. *)
LEMMA ChargeRun ==
  ASSUME stats \in FigureTable, NEW records, NEW loss, Losing(records, loss)
  PROVE  \E run : IsCharging(run, records)
<1> DEFINE n == Len(records)
           base == stats
           F == [k \in 1..n |-> [v \in FigureTable |-> Charge(v, records[k])]]
<1>1. n \in Nat /\ DOMAIN records = 1..n /\ \A k \in 1..n : records[k] \in Entry
  BY DEF Losing
<1>2. \A v \in FigureTable, k \in 1..n : Charge(v, records[k]) \in FigureTable
  <2>1. ASSUME NEW v \in FigureTable, NEW k \in 1..n PROVE Charge(v, records[k]) \in FigureTable
    <3>1. records[k].sat \in Sats
      BY <1>1 DEF Entry
    <3>2. records[k].before - records[k].after \in Nat
      BY <3>1 DEF Losing
    <3> QED BY <1>1, <3>2, ChargeOne
  <2> QED BY <2>1
<1>4. F \in [1..n -> [FigureTable -> FigureTable]]
  BY <1>2
<1>5. \A k \in 1..n, v \in FigureTable : F[k][v] = Charge(v, records[k])
  OBVIOUS
<1> HIDE DEF F, n
<1>6. Foldable(n, FigureTable, base, F)
  BY <1>1, <1>4 DEF Foldable
<1>7. PICK g : IsTable(g, n, FigureTable, base, F)
  BY <1>6, FoldTable
<1>8. Charging(g, records)
  <2>1. ASSUME NEW s \in SUBSET (1..n), s # {}
        PROVE  g[s] = Charge(g[s \ {Max(s)}], records[Max(s)])
    <3>1. Max(s) \in 1..n
      BY <1>1, <2>1, SetMax
    <3>2. g[s \ {Max(s)}] \in FigureTable
      BY <1>7 DEF IsTable
    <3> QED BY <1>5, <1>7, <2>1, <3>1, <3>2 DEF IsTable
  <2> QED BY <1>1, <1>7, <2>1 DEF IsTable, Charging
<1>9. PICK h : FoldLeft(Charge, stats, records) = h[DOMAIN records] /\ Charging(h, records)
  BY <1>8, ChargeTable
<1>10. h[{}] = base
  BY <1>9 DEF Charging
<1>11. ASSUME NEW k \in 1..n, h[1..(k - 1)] \in FigureTable
       PROVE  h[1..k] = F[k][h[1..(k - 1)]]
  <2>1. 1..k # {} /\ Max(1..k) = k /\ (1..k) \ {Max(1..k)} = 1..(k - 1)
    BY SegmentMax
  <2>2. 1..k \in SUBSET (1..n)
    BY <1>1
  <2>3. h[1..k] = Charge(h[1..(k - 1)], records[k])
    BY <1>1, <1>9, <2>1, <2>2 DEF Charging
  <2> QED BY <1>5, <1>11, <2>3
<1>12. PICK run : IsRun(run, n, FigureTable, base, F) /\ run[n] = h[1..n]
  BY <1>6, <1>10, <1>11, FoldRun
<1>13. \A k \in 1..n : run[k - 1] \in FigureTable
  BY <1>1, <1>12 DEF IsRun
<1>14. \A k \in 1..n : run[k] = Charge(run[k - 1], records[k])
  BY <1>5, <1>12, <1>13 DEF IsRun
<1> QED
  BY <1>1, <1>9, <1>12, <1>14 DEF IsRun, IsCharging, n

\* What charging the records does to the fuel figures.
Charged(next, records, loss) ==
  \A s \in Sats :
    /\ (\A i \in 1..Len(records) : records[i].sat # s) =>
         next[s].fuel = stats[s].fuel
    /\ (\E i \in 1..Len(records) : records[i].sat = s) =>
         next[s].fuel >= stats[s].fuel + loss[s]
    /\ (\E i \in 1..Len(records) : /\ records[i].sat = s
          /\ \A j \in 1..Len(records) : records[j].sat = s => j = i) =>
         next[s].fuel = stats[s].fuel + loss[s]

(* The records of a step charge each satellite at least once, and once if it has one. *)
LEMMA ChargeProperties ==
  ASSUME stats \in FigureTable, NEW records, NEW loss, Losing(records, loss)
  PROVE  /\ FoldLeft(Charge, stats, records) \in FigureTable
         /\ Charged(FoldLeft(Charge, stats, records), records, loss)
<1>1. PICK run : IsCharging(run, records)
  BY ChargeRun
<1> DEFINE n == Len(records)
           At(k, s) == run[k][s].fuel
           None(k, s) == \A i \in 1..k : records[i].sat # s
           Some(k, s) == \E i \in 1..k : records[i].sat = s
           One(k, s) == \E i \in 1..k : /\ records[i].sat = s
                          /\ \A j \in 1..k : records[j].sat = s => j = i
           Has(k) == \A s \in Sats :
             /\ None(k, s) => At(k, s) = At(0, s)
             /\ Some(k, s) => At(k, s) >= At(0, s) + loss[s]
             /\ One(k, s) => At(k, s) = At(0, s) + loss[s]
<1>2. /\ n \in Nat
      /\ \A k \in 1..n : /\ records[k] \in Entry /\ records[k].sat \in Sats
                         /\ records[k].before - records[k].after = loss[records[k].sat]
      /\ \A s \in Sats : loss[s] \in Nat
  <2>1. n \in Nat /\ \A k \in 1..n : records[k] \in Entry
    BY DEF Losing
  <2>2. \A s \in Sats : loss[s] \in Nat
    BY DEF Losing
  <2>3. \A k \in 1..n : records[k].sat \in Sats
    BY <2>1 DEF Entry
  <2>4. \A k \in 1..n : records[k].before - records[k].after = loss[records[k].sat]
    BY DEF Losing
  <2> QED BY <2>1, <2>2, <2>3, <2>4
<1>3. \A k \in 0..n, s \in Sats : At(k, s) \in Nat
  BY <1>1 DEF IsCharging, FigureTable, Figures
<1>4. Has(0)
  <2>1. \A s \in Sats : ~Some(0, s) /\ ~One(0, s)
    OBVIOUS
  <2> HIDE DEF Some, One, None, At
  <2> QED BY <2>1
<1>5. ASSUME NEW k \in 0..(n - 1), Has(k) PROVE Has(k + 1)
  <2> DEFINE r == records[k + 1]
  <2>1. k + 1 \in 1..n /\ (k + 1) - 1 = k /\ k \in 0..n /\ k + 1 \in 0..n /\ 0 \in 0..n
    BY <1>2
  <2>2. run[k + 1] = Charge(run[k], r) /\ run[k] \in FigureTable
    BY <1>1, <2>1 DEF IsCharging
  <2>3. r \in Entry /\ r.sat \in Sats /\ r.before - r.after = loss[r.sat] /\ loss[r.sat] \in Nat
    BY <1>2, <2>1
  <2>4. OneCharge(run[k + 1], run[k], r)
    <3> HIDE DEF r
    <3> QED BY <2>2, <2>3, ChargeOne
  <2>5. \A i \in 1..(k + 1) : i \in 1..k \/ i = k + 1
    BY <2>1
  <2>6. \A i \in 1..k : i \in 1..(k + 1) /\ i # k + 1
    BY <2>1
  <2>7. k + 1 \in 1..(k + 1)
    BY <2>1
  <2>8. ASSUME NEW s \in Sats
        PROVE  /\ None(k + 1, s) => At(k + 1, s) = At(0, s)
               /\ Some(k + 1, s) => At(k + 1, s) >= At(0, s) + loss[s]
               /\ One(k + 1, s) => At(k + 1, s) = At(0, s) + loss[s]
    <3>1. At(k, s) \in Nat /\ At(0, s) \in Nat /\ At(k + 1, s) \in Nat /\ loss[s] \in Nat
      BY <1>2, <1>3, <2>1
    <3>2. /\ None(k, s) => At(k, s) = At(0, s)
          /\ Some(k, s) => At(k, s) >= At(0, s) + loss[s]
          /\ One(k, s) => At(k, s) = At(0, s) + loss[s]
      BY <1>5
    <3>3. CASE r.sat # s
      <4>1. At(k + 1, s) = At(k, s)
        BY <2>4, <3>3 DEF OneCharge
      <4>2. None(k + 1, s) => None(k, s)
        BY <2>6
      <4>3. Some(k + 1, s) => Some(k, s)
        BY <2>5, <3>3
      <4>4. One(k + 1, s) => One(k, s)
        BY <2>5, <2>6, <3>3
      <4> HIDE DEF None, Some, One, At
      <4> QED BY <3>2, <4>1, <4>2, <4>3, <4>4
    <3>4. CASE r.sat = s
      <4>1. At(k + 1, s) = At(k, s) + loss[s]
        BY <2>3, <2>4, <3>4 DEF OneCharge
      <4>2. ~None(k + 1, s)
        BY <2>7, <3>4
      <4>3. One(k + 1, s) => None(k, s)
        <5>1. ASSUME NEW i \in 1..(k + 1), NEW m \in 1..k, records[m].sat = s,
                     \A j \in 1..(k + 1) : records[j].sat = s => j = i
              PROVE  FALSE
          BY <2>6, <2>7, <3>4, <5>1
        <5> QED BY <5>1
      <4>4. None(k, s) \/ Some(k, s)
        OBVIOUS
      <4> HIDE DEF None, Some, One, At
      <4> QED BY <3>1, <3>2, <4>1, <4>2, <4>3, <4>4
    <3> QED BY <3>3, <3>4
  <2> HIDE DEF None, Some, One, At
  <2> QED BY <2>8
<1>6. Has(n)
  <2> HIDE DEF Has, n
  <2> DEFINE G == {k \in 0..n : Has(k)}
  <2>1. 0 \in G /\ \A k \in 0..(n - 1) : k \in G => k + 1 \in G
    BY <1>2, <1>4, <1>5
  <2>2. \A k \in 0..n : k \in G
    <3> HIDE DEF G
    <3> QED BY <1>2, <2>1, UpTo
  <2> QED BY <1>2, <2>2
<1>7. run[n] = FoldLeft(Charge, stats, records) /\ run[n] \in FigureTable /\ run[0] = stats
  BY <1>1, <1>2 DEF IsCharging
<1>8. Charged(run[n], records, loss)
  BY <1>6, <1>7 DEF Charged
<1> QED BY <1>7, <1>8

\* A history k long to which q was appended: every element is one of p or of
\* q, as old as it was plus what came after.
Merged(kept, V, p, q, k) ==
  /\ kept \in Seq(V) /\ Len(kept) <= k
  /\ \A i \in 1..Len(kept) :
       \/ \E m \in 1..Len(p) : /\ kept[i] = p[m]
                               /\ Len(kept) - i = Len(p) + Len(q) - m
       \/ \E m \in 1..Len(q) : kept[i] = q[m] /\ Len(kept) - i = Len(q) - m
  /\ \A m \in 1..Len(p) : Len(p) + Len(q) - m < k =>
       \E j \in 1..Len(kept) : /\ kept[j] = p[m]
                               /\ Len(kept) - j = Len(p) + Len(q) - m
  /\ \A m \in 1..Len(q) : Len(q) - m < k =>
       \E j \in 1..Len(kept) : kept[j] = q[m] /\ Len(kept) - j = Len(q) - m

(* Appending to a history and truncating it, by the age of the elements. *)
LEMMA KeptMerges ==
  ASSUME NEW V, NEW p \in Seq(V), NEW q \in Seq(V), NEW k \in Nat
  PROVE  Merged(Kept(p \o q, k), V, p, q, k)
<1> DEFINE s == p \o q
           kept == Kept(s, k)
           l == Len(s)
           a == Len(p)
           b == Len(q)
           c == Len(kept)
<1>1. /\ s \in Seq(V) /\ l = a + b /\ a \in Nat /\ b \in Nat
      /\ \A i \in 1..a : s[i] = p[i]
      /\ \A i \in 1..b : s[i + a] = q[i]
  BY ConcatElements
<1>2. Newest(kept, V, s, k)
  <2> HIDE DEF s
  <2> QED BY <1>1, KeptProperties
<1>3. /\ kept \in Seq(V) /\ c \in Nat /\ c <= k /\ c <= l
      /\ \A i \in 1..c : i + (l - c) \in 1..l /\ kept[i] = s[i + (l - c)]
      /\ \A m \in 1..l : l - m < k => m - (l - c) \in 1..c
  BY <1>2 DEF Newest
<1> HIDE DEF s, kept, l, a, b, c
<1>4. ASSUME NEW i \in 1..c
      PROVE  \/ \E m \in 1..a : kept[i] = p[m] /\ c - i = a + b - m
             \/ \E m \in 1..b : kept[i] = q[m] /\ c - i = b - m
  <2> DEFINE m == i + (l - c)
  <2>1. m \in 1..l /\ kept[i] = s[m] /\ c - i = a + b - m
    BY <1>1, <1>3
  <2> HIDE DEF m
  <2>2. CASE m \in 1..a
    BY <1>1, <2>1, <2>2
  <2>3. CASE m \notin 1..a
    <3>1. m - a \in 1..b /\ (m - a) + a = m /\ c - i = b - (m - a)
      BY <1>1, <2>1, <2>3
    <3>2. s[m] = q[m - a]
      BY <1>1, <3>1
    <3> QED BY <2>1, <3>1, <3>2
  <2> QED BY <2>2, <2>3
<1>5. ASSUME NEW m \in 1..l, l - m < k
      PROVE  \E j \in 1..c : kept[j] = s[m] /\ c - j = l - m
  <2> DEFINE j == m - (l - c)
  <2>1. j \in 1..c
    BY <1>3, <1>5
  <2>2. j + (l - c) = m /\ c - j = l - m
    BY <1>1, <1>3, <1>5
  <2> HIDE DEF j
  <2> QED BY <1>3, <2>1, <2>2
<1>6. ASSUME NEW m \in 1..a, a + b - m < k
      PROVE  \E j \in 1..c : kept[j] = p[m] /\ c - j = a + b - m
  <2>1. m \in 1..l /\ l - m < k /\ l - m = a + b - m
    BY <1>1, <1>6
  <2>2. s[m] = p[m]
    BY <1>1
  <2> QED BY <1>5, <2>1, <2>2
<1>7. ASSUME NEW m \in 1..b, b - m < k
      PROVE  \E j \in 1..c : kept[j] = q[m] /\ c - j = b - m
  <2>1. m + a \in 1..l /\ l - (m + a) < k /\ l - (m + a) = b - m
    BY <1>1, <1>7
  <2>2. s[m + a] = q[m]
    BY <1>1
  <2> QED BY <1>5, <2>1, <2>2
<1>8. Merged(kept, V, p, q, k)
  BY <1>3, <1>4, <1>6, <1>7 DEF Merged, a, b, c
<1> QED BY <1>8 DEF kept, s

-----------------------------------------------------------------------------
(* Numbering the burns.                                                    *)
Numbered(B) ==
  /\ IsFiniteSet(B)
  /\ \A b \in B : b.n \in 1..Cardinality(B)
  /\ \A b, c \in B : b.n = c.n => b = c

(* A burn numbered next keeps the numbering. *)
LEMMA NumberOne ==
  ASSUME NEW B, Numbered(B), NEW b, b.n = Cardinality(B) + 1
  PROVE  /\ Numbered(B \cup {b}) /\ Cardinality(B \cup {b}) = Cardinality(B) + 1
         /\ \A c \in B : c.n # b.n
<1> USE DEF Numbered
<1>1. Cardinality(B) \in Nat
  BY FS_CardinalityType
<1>2. \A c \in B : c.n # b.n
  BY <1>1
<1>3. b \notin B
  BY <1>2
<1>4. IsFiniteSet(B \cup {b}) /\ Cardinality(B \cup {b}) = Cardinality(B) + 1
  BY <1>3, FS_AddElement
<1> DEFINE D == B \cup {b}
<1>5. \A x \in D : x \in B \/ x = b
  OBVIOUS
<1>6. \A x \in D : x.n \in 1..Cardinality(D)
  <2>1. \A x \in B : x.n \in 1..(Cardinality(B) + 1)
    BY <1>1
  <2>2. b.n \in 1..(Cardinality(B) + 1)
    BY <1>1
  <2> HIDE DEF D
  <2> QED BY <1>4, <1>5, <2>1, <2>2 DEF D
<1>7. \A x, y \in D : x.n = y.n => x = y
  BY <1>2
<1> QED BY <1>2, <1>4, <1>6, <1>7

\* A plan is nothing, or one burn of a planner.
IsPlan(plan, n, planners) ==
  \/ plan = << >>
  \/ /\ n <= MaxBurns
     /\ \E p \in planners, s \in Sats, k \in Kinds \ {"manual"} :
          plan = <<NewBurn(n, <<p, TickId, 0>>, s, k)>>

(* What a planner plans is a plan. *)
LEMMA PlannerPlans ==
  ASSUME NEW n, NEW planner, NEW kind \in Kinds \ {"manual"}, NEW sats \in SUBSET Sats,
         NEW plan \in Plans(n, planner, kind, sats)
  PROVE  IsPlan(plan, n, {planner})
<1>1. CASE plan = << >>
  BY <1>1 DEF IsPlan
<1>2. CASE plan # << >>
  <2>1. PICK s \in sats : plan = <<NewBurn(n, <<planner, TickId, 0>>, s, kind)>> /\ n <= MaxBurns
    BY <1>2 DEF Plans
  <2> QED BY <2>1 DEF IsPlan
<1> QED BY <1>1, <1>2

\* Burn b of planner p, the n-th.
PlannedBy(b, n, p) ==
  /\ b.n = n /\ b.kind \in Kinds \ {"manual"} /\ b.sat \in Sats
  /\ b.id = <<p, tick + 1, 0>>
  /\ b = [n |-> n, id |-> <<p, tick + 1, 0>>, sat |-> b.sat, kind |-> b.kind]

(* A plan has at most one burn, which carries this tick. *)
LEMMA PlanProperties ==
  ASSUME NEW plan, NEW n, NEW planners, IsPlan(plan, n, planners)
  PROVE  /\ Len(plan) \in {0, 1}
         /\ Len(plan) = 0 => ToSet(plan) = {}
         /\ Len(plan) = 1 => n <= MaxBurns /\ \E b : ToSet(plan) = {b}
         /\ \A b \in ToSet(plan) : \E p \in planners : PlannedBy(b, n, p)
         /\ (\A b \in ToSet(plan) : b \in Burn) => plan \in Seq(Burn)
<1>1. CASE plan = << >>
  BY <1>1 DEF ToSet
<1>2. CASE plan # << >>
  <2>1. PICK p \in planners, s \in Sats, k \in Kinds \ {"manual"} :
          plan = <<NewBurn(n, <<p, TickId, 0>>, s, k)>>
    BY <1>2 DEF IsPlan
  <2> DEFINE b == NewBurn(n, <<p, TickId, 0>>, s, k)
  <2>2. PlannedBy(b, n, p)
    BY DEF NewBurn, TickId, PlannedBy
  <2> HIDE DEF b
  <2>3. Len(plan) = 1 /\ ToSet(plan) = {b} /\ plan = <<b>>
    BY <2>1 DEF ToSet, b
  <2>4. n <= MaxBurns
    BY <1>2 DEF IsPlan
  <2>5. b \in Burn => plan \in Seq(Burn)
    BY <2>3
  <2> QED BY <2>2, <2>3, <2>4, <2>5
<1> QED BY <1>1, <1>2

(* A plan keeps the numbering too, and the bound. *)
LEMMA NumberPlan ==
  ASSUME NEW B, Numbered(B), Cardinality(B) <= MaxBurns, NEW plan, NEW planners,
         IsPlan(plan, Cardinality(B) + 1, planners)
  PROVE  /\ Numbered(B \cup ToSet(plan))
         /\ Cardinality(B \cup ToSet(plan)) = Cardinality(B) + Len(plan)
         /\ Cardinality(B \cup ToSet(plan)) <= MaxBurns
         /\ \A b \in B, c \in ToSet(plan) : b.n # c.n
<1>1. Cardinality(B) \in Nat
  BY FS_CardinalityType DEF Numbered
<1>2. CASE Len(plan) = 0
  <2>1. ToSet(plan) = {} /\ B \cup ToSet(plan) = B
    BY <1>2, PlanProperties
  <2> QED BY <1>1, <1>2, <2>1
<1>3. CASE Len(plan) = 1
  <2>1. PICK b : ToSet(plan) = {b}
    BY <1>3, PlanProperties
  <2>2. b.n = Cardinality(B) + 1 /\ Cardinality(B) + 1 <= MaxBurns
    BY <1>3, <2>1, PlanProperties DEF PlannedBy
  <2> QED BY <1>3, <2>1, <2>2, NumberOne
<1> QED BY <1>2, <1>3, PlanProperties

-----------------------------------------------------------------------------
(* The inductive invariant.                                                *)
\* The last tick anything can carry.
Late == tick + Flag(worker = "unlocked")

StoreInv ==
  /\ worker \in {"idle", "unlocked", "publishing"}
  /\ tick \in 0..MaxTicks /\ (worker = "unlocked" => tick < MaxTicks)
  /\ fuel \in Tanks /\ stats \in FigureTable
  /\ executed \in Seq(Entry) /\ Len(executed) <= KExecuted
  /\ dropped \in Seq(Burn) /\ Len(dropped) <= KDropped
  /\ snapshots \in Seq(Shot) /\ Len(snapshots) <= KSnapshots
  /\ events \in Seq(Meeting) /\ Len(events) <= KEvents
  /\ predicted \in Seq(Meeting)

NumberInv ==
  /\ Numbered(born) /\ Cardinality(born) <= MaxBurns /\ born \subseteq Burn
  /\ fired \subseteq born /\ booked \subseteq {b.n : b \in born}

QueueInv ==
  /\ queue \in Seq(Burn) /\ ToSet(queue) \subseteq born
  /\ \A b \in ToSet(queue) : b \notin fired /\ b.n \notin booked

TickInv ==
  /\ \A b \in born : b.kind # "manual" =>
       \E p \in Planners, k \in 1..Late : b.id = <<p, k, 0>>
  /\ \A b, c \in born :
       b.id = c.id /\ b.kind # "manual" /\ c.kind # "manual" => b = c
  /\ \A i \in 1..Len(events) : events[i].tick <= Late
  /\ \A i, j \in 1..Len(events) : i < j => events[i].tick <= events[j].tick
  /\ \A i \in 1..Len(predicted) : predicted[i].tick = 0

BurnOf(r, b) == r.n = b.n /\ r.id = b.id /\ r.sat = b.sat /\ r.kind = b.kind

\* The snapshot of burn c, unless another burn has its id.
SnapshotOf(shot, c) ==
  /\ shot.id = c.id /\ shot.n = c.n
  /\ OwnId(c) => c \in fired /\ shot.shot = {c.n}

\* Record r, the age-th newest, is of an evasion that was executed.
Wanted(r) ==
  /\ Predictive(r) /\ (\E b \in born : b.n = r.n /\ OwnId(b))
  /\ \E b \in fired : b.n = r.n

RecordInv ==
  /\ \A i \in 1..Len(executed) :
       executed[i].n \in booked /\ \E b \in born : BurnOf(executed[i], b)
  /\ \A j \in 1..Len(snapshots) : \E c \in born : SnapshotOf(snapshots[j], c)
  /\ \A i \in 1..Len(executed) : Wanted(executed[i]) =>
       \E j \in 1..Len(snapshots) :
         /\ snapshots[j].n = executed[i].n
         /\ Len(snapshots) - j <= Len(executed) - i

ViewInv ==
  /\ worker = "idle" => view = Views
  /\ view \in Answers
  /\ totals \in [last : CounterTable, all : CounterTable]
  /\ crowded \subseteq Sats

IInv ==
  /\ StoreInv /\ NumberInv /\ QueueInv /\ TickInv /\ RecordInv /\ ViewInv
  /\ FiringsAreBooked /\ FuelIsAccounted

-----------------------------------------------------------------------------
(* What a step does, with its intermediate values named.                   *)
Stepped(before, run, left, records, evasion, keep, follow, lost, due, outcome, met) ==
  /\ worker = "idle" /\ tick < MaxTicks
  /\ worker' = "unlocked" /\ tick' = tick /\ view' = view
  /\ met \in AtMostOne
  /\ IsPlan(evasion, Cardinality(born) + 1, {"evasion"})
  /\ IsPlan(keep, Cardinality(born) + Len(evasion) + 1, {"station"})
  /\ IsPlan(follow, Cardinality(born) + Len(evasion) + Len(keep) + 1,
            {"recovery", "graveyard"})
  /\ before = Validated(evasion, lost) \o keep
  /\ run = Executor(before, due)
  /\ left = Inferred(before, run)
  /\ records = [i \in DOMAIN left |-> Record(left[i], run, outcome)]
  /\ fuel' = run.fuel
  /\ dropped' = Kept(dropped \o Among(queue, {b \in ToSet(queue) : b.n \in lost}),
                     KDropped)
  /\ snapshots' = Kept(snapshots \o SnapshotsOf(records, run, outcome),
                       KSnapshots)
  /\ executed' = Kept(executed \o records, KExecuted)
  /\ stats' = FoldLeft(Charge, stats, records)
  /\ fired' = fired \cup ToSet(run.fired)
  /\ booked' = booked \cup {r.n : r \in ToSet(records)}
  /\ crowded' = crowded \cup
       {s \in Sats : Cardinality({i \in DOMAIN records : records[i].sat = s}) > 1}
  /\ queue' = run.kept \o follow
  /\ born' = born \cup ToSet(evasion \o keep \o follow)
  /\ IsFiniteSet(lost)
  /\ totals' = Counted([planned |-> Len(evasion) + Len(keep),
                        executed |-> Len(run.fired),
                        missed |-> Cardinality(lost),
                        followed |-> Len(follow)])
  /\ predicted' = [i \in DOMAIN met |-> [sat |-> met[i], tick |-> 0]]
  /\ events' = Kept(events \o
                    [i \in DOMAIN met |-> [sat |-> met[i], tick |-> TickId]],
                    KEvents)

Steps == \E before, run, left, records, evasion, keep, follow, lost, due, outcome, met :
           Stepped(before, run, left, records, evasion, keep, follow, lost, due, outcome, met)

(* Every step of the specification is a Stepped. *)
LEMMA StepSteps ==
  ASSUME queue \in Seq(Burn),
         NEW threats \in AtMostOne, NEW lost \in SUBSET Pending,
         NEW evasion \in Evasions(Cardinality(born) + 1, threats),
         NEW keep \in Keepings(Cardinality(born) + Len(evasion) + 1,
                               Validated(evasion, lost)),
         NEW due, NEW outcome,
         Step(threats, evasion, lost, keep, due, outcome, threats)
  PROVE  Steps
<1> DEFINE before == Validated(evasion, lost) \o keep
           run == Executor(before, due)
           left == Inferred(before, run)
           records == [i \in DOMAIN left |-> Record(left[i], run, outcome)]
           n == Cardinality(born) + Len(evasion) + Len(keep) + 1
<1>1. PICK follow \in Follows(n, run) :
        /\ queue' = run.kept \o follow
        /\ born' = born \cup ToSet(evasion \o keep \o follow)
        /\ totals' = Counted([planned |-> Len(evasion) + Len(keep),
                              executed |-> Len(run.fired),
                              missed |-> Cardinality(lost),
                              followed |-> Len(follow)])
  BY DEF Step, Books
<1>0. {"evasion", "recovery", "graveyard"} \subseteq Kinds \ {"manual"}
  BY DEF Kinds
<1>2. IsPlan(evasion, Cardinality(born) + 1, {"evasion"})
  <2> DEFINE sats == {s \in ToSet(threats) : Affordable(s, "evasion")}
  <2>1. ToSet(threats) \subseteq Sats
    BY DEF AtMostOne, ToSet
  <2>2. sats \in SUBSET Sats /\ evasion \in Plans(Cardinality(born) + 1, "evasion", "evasion", sats)
    BY <2>1 DEF Evasions
  <2> HIDE DEF sats
  <2> QED BY <1>0, <2>2, PlannerPlans
<1>3. IsPlan(keep, Cardinality(born) + Len(evasion) + 1, {"station"})
  <2> DEFINE sats == {s \in Free(Validated(evasion, lost)) : Affordable(s, "recovery")}
  <2>1. /\ sats \in SUBSET Sats
        /\ keep \in Plans(Cardinality(born) + Len(evasion) + 1, "station", "recovery", sats)
    BY DEF Keepings, Free
  <2> HIDE DEF sats
  <2> QED BY <1>0, <2>1, PlannerPlans
<1>4. IsPlan(follow, n, {"recovery", "graveyard"})
  <2> HIDE DEF run, n
  <2> DEFINE some == {s \in Free(run.kept) : run.fuel[s] - Cost["recovery"] > Eol}
             ends == {s \in Free(run.kept) :
                        run.fuel[s] <= Eol /\ run.fuel[s] >= Cost["graveyard"]}
  <2>1. /\ some \in SUBSET Sats /\ ends \in SUBSET Sats
        /\ \/ follow \in Plans(n, "recovery", "recovery", some)
           \/ follow \in Plans(n, "graveyard", "graveyard", ends)
    BY <1>1 DEF Follows, Free
  <2> HIDE DEF some, ends
  <2>2. IsPlan(follow, n, {"recovery"}) \/ IsPlan(follow, n, {"graveyard"})
    BY <1>0, <2>1, PlannerPlans
  <2> QED BY <2>2 DEF IsPlan
<1>5. IsFiniteSet(lost)
  <2>1. Len(queue) \in Nat /\ DOMAIN queue = 1..Len(queue)
    OBVIOUS
  <2>2. IsFiniteSet(1..Len(queue))
    BY <2>1, FS_Interval
  <2> DEFINE f == [i \in 1..Len(queue) |-> queue[i].n]
  <2>3. f \in Surjection(1..Len(queue), Pending)
    BY <2>1 DEF Surjection, Pending
  <2>4. IsFiniteSet(Pending)
    <3> HIDE DEF f
    <3> QED BY <2>2, <2>3, FS_Surjection
  <2> QED BY <2>4, FS_Subset
<1>6. Stepped(before, run, left, records, evasion, keep, follow, lost, due, outcome, threats)
  <2>1. /\ worker = "idle" /\ tick < MaxTicks
        /\ worker' = "unlocked" /\ tick' = tick /\ view' = view
        /\ predicted' = [i \in DOMAIN threats |-> [sat |-> threats[i], tick |-> 0]]
        /\ events' = Kept(events \o
                       [i \in DOMAIN threats |-> [sat |-> threats[i], tick |-> TickId]],
                       KEvents)
    BY DEF Step
  <2>2. /\ fuel' = run.fuel
        /\ dropped' = Kept(dropped \o Among(queue, {b \in ToSet(queue) : b.n \in lost}),
                           KDropped)
        /\ snapshots' = Kept(snapshots \o SnapshotsOf(records, run, outcome),
                             KSnapshots)
        /\ executed' = Kept(executed \o records, KExecuted)
        /\ stats' = FoldLeft(Charge, stats, records)
        /\ fired' = fired \cup ToSet(run.fired)
        /\ booked' = booked \cup {r.n : r \in ToSet(records)}
        /\ crowded' = crowded \cup
             {s \in Sats : Cardinality({i \in DOMAIN records : records[i].sat = s}) > 1}
    BY DEF Step, Books
  <2> HIDE DEF before, run, left, records, n
  <2> QED BY <1>1, <1>2, <1>3, <1>4, <1>5, <2>1, <2>2 DEF Stepped, before, run, left, records, n
<1> QED
  <2> HIDE DEF before, run, left, records, n
  <2> QED BY <1>6 DEF Steps

Own(b, B) == \A c \in B : c.id = b.id => c = b

-----------------------------------------------------------------------------
(* The burns a step plans.                                                 *)
\* Planned in this step: b carries its tick and a number of its own.
Fresh(b) ==
  /\ b \in Burn /\ b.kind # "manual"
  /\ \E p \in Planners : b.id = <<p, tick + 1, 0>>
  /\ b \notin born /\ \A c \in born : c.n # b.n

New(evasion, keep, follow) == ToSet(evasion) \cup ToSet(keep) \cup ToSet(follow)

Planning(evasion, keep, follow) ==
  /\ evasion \in Seq(Burn) /\ keep \in Seq(Burn) /\ follow \in Seq(Burn)
  /\ \A b \in New(evasion, keep, follow) : Fresh(b)
  /\ \A b, c \in New(evasion, keep, follow) : b.id = c.id => b = c
  /\ \A b \in ToSet(evasion) \cup ToSet(keep), c \in ToSet(follow) : b.n # c.n
  /\ born' = born \cup New(evasion, keep, follow)
  /\ Numbered(born') /\ Cardinality(born') <= MaxBurns /\ born' \subseteq Burn

(* What a step plans is new. *)
LEMMA StepPlans ==
  ASSUME StoreInv, NumberInv,
         NEW before, NEW run, NEW left, NEW records, NEW evasion, NEW keep, NEW follow,
         NEW lost, NEW due, NEW outcome, NEW met,
         Stepped(before, run, left, records, evasion, keep, follow, lost, due, outcome, met)
  PROVE  Planning(evasion, keep, follow)
<1> DEFINE E == ToSet(evasion)
           K == ToSet(keep)
           D == ToSet(follow)
           B1 == born \cup E
           B2 == B1 \cup K
           B3 == B2 \cup D
<1>1. /\ IsPlan(evasion, Cardinality(born) + 1, {"evasion"})
      /\ IsPlan(keep, Cardinality(born) + Len(evasion) + 1, {"station"})
      /\ IsPlan(follow, Cardinality(born) + Len(evasion) + Len(keep) + 1,
                {"recovery", "graveyard"})
      /\ born' = born \cup ToSet(evasion \o keep \o follow)
  BY DEF Stepped
<1>2. /\ Numbered(born) /\ born \subseteq Burn /\ Cardinality(born) <= MaxBurns
      /\ tick \in Nat /\ MaxBurns \in Nat
  BY HistoryAssumption DEF NumberInv, StoreInv
<1> HIDE DEF E, K, D
<1>3. /\ Numbered(B1) /\ Cardinality(B1) <= MaxBurns
      /\ Cardinality(B1) = Cardinality(born) + Len(evasion)
      /\ \A b \in born, c \in E : b.n # c.n
  BY <1>1, <1>2, NumberPlan DEF E
<1>4. IsPlan(keep, Cardinality(B1) + 1, {"station"})
  BY <1>1, <1>3
<1>5. /\ Numbered(B2) /\ Cardinality(B2) <= MaxBurns
      /\ Cardinality(B2) = Cardinality(born) + Len(evasion) + Len(keep)
      /\ \A b \in B1, c \in K : b.n # c.n
  <2> HIDE DEF B1
  <2> QED BY <1>3, <1>4, NumberPlan DEF K
<1>6. IsPlan(follow, Cardinality(B2) + 1, {"recovery", "graveyard"})
  BY <1>1, <1>5
<1>7. /\ Numbered(B3) /\ Cardinality(B3) <= MaxBurns
      /\ \A b \in B2, c \in D : b.n # c.n
  <2> HIDE DEF B2
  <2> QED BY <1>5, <1>6, NumberPlan DEF D
<1>8. /\ \A b \in E : PlannedBy(b, Cardinality(born) + 1, "evasion")
      /\ \A b \in K : PlannedBy(b, Cardinality(B1) + 1, "station")
      /\ \A b \in D : \/ PlannedBy(b, Cardinality(B2) + 1, "recovery")
                      \/ PlannedBy(b, Cardinality(B2) + 1, "graveyard")
  <2> HIDE DEF B1, B2
  <2>1. \A b \in E : PlannedBy(b, Cardinality(born) + 1, "evasion")
    BY <1>1, PlanProperties DEF E
  <2>2. \A b \in K : PlannedBy(b, Cardinality(B1) + 1, "station")
    BY <1>4, PlanProperties DEF K
  <2>3. \A b \in D : \/ PlannedBy(b, Cardinality(B2) + 1, "recovery")
                     \/ PlannedBy(b, Cardinality(B2) + 1, "graveyard")
    BY <1>6, PlanProperties DEF D
  <2> QED BY <2>1, <2>2, <2>3
<1>9. \A b \in B3 : b.n \in 1..MaxBurns
  <2>1. Cardinality(B3) \in Nat /\ \A b \in B3 : b.n \in 1..Cardinality(B3)
    BY <1>7, FS_CardinalityType DEF Numbered
  <2> DEFINE c == Cardinality(B3)
  <2>2. c \in Nat /\ c <= MaxBurns /\ MaxBurns \in Nat
    BY <1>2, <1>7, <2>1
  <2> HIDE DEF c
  <2>3. 1..c \subseteq 1..MaxBurns
    BY <2>2
  <2> QED BY <2>1, <2>3 DEF c
<1>10. ASSUME NEW b \in E \cup K \cup D PROVE Fresh(b)
  <2>1. PICK p \in Planners : PlannedBy(b, b.n, p)
    BY <1>8 DEF PlannedBy, Planners
  <2>2. /\ b.kind \in Kinds /\ b.kind # "manual" /\ b.sat \in Sats
        /\ b.id = <<p, tick + 1, 0>>
        /\ b = [n |-> b.n, id |-> <<p, tick + 1, 0>>, sat |-> b.sat, kind |-> b.kind]
    BY <2>1 DEF PlannedBy
  <2>3. b.n \in 1..MaxBurns
    BY <1>9
  <2>4. <<p, tick + 1, 0>> \in BurnIds
    BY <1>2 DEF BurnIds
  <2>5. b \in Burn
    <3> DEFINE i == <<p, tick + 1, 0>>
    <3> HIDE DEF i
    <3> QED BY <2>2, <2>3, <2>4 DEF Burn, i
  <2>6. \A c \in born : c.n # b.n
    BY <1>3, <1>5, <1>7
  <2> QED BY <2>2, <2>5, <2>6 DEF Fresh
<1>11. evasion \in Seq(Burn) /\ keep \in Seq(Burn) /\ follow \in Seq(Burn)
  <2>1. \A b \in E \cup K \cup D : b \in Burn
    BY <1>10 DEF Fresh
  <2> QED BY <1>1, <2>1, PlanProperties DEF E, K, D
<1>12. born' = B3 /\ B3 = born \cup New(evasion, keep, follow)
  <2>1. evasion \o keep \in Seq(Burn) /\ ToSet(evasion \o keep) = E \cup K
    BY <1>11, ConcatElements DEF E, K
  <2> DEFINE early == evasion \o keep
  <2>2. ToSet(early \o follow) = ToSet(early) \cup ToSet(follow)
    <3>1. early \in Seq(Burn) /\ follow \in Seq(Burn)
      BY <1>11, <2>1
    <3> HIDE DEF early
    <3> QED BY <3>1, ConcatElements
  <2> QED BY <1>1, <2>1, <2>2 DEF New, E, K, D
<1>13. ASSUME NEW b \in E \cup K \cup D, NEW c \in E \cup K \cup D, b.id = c.id
       PROVE  b = c
  <2>1. /\ \A x, y \in E : x = y
        /\ \A x, y \in K : x = y
        /\ \A x, y \in D : x = y
    <3>1. \A x, y \in E : x = y
      BY <1>1, PlanProperties DEF E
    <3>2. \A x, y \in K : x = y
      BY <1>1, PlanProperties DEF K
    <3>3. \A x, y \in D : x = y
      BY <1>1, PlanProperties DEF D
    <3> QED BY <3>1, <3>2, <3>3
  <2>2. /\ \A x \in E : x.id[1] = "evasion"
        /\ \A x \in K : x.id[1] = "station"
        /\ \A x \in D : x.id[1] \in {"recovery", "graveyard"}
    <3>1. \A x, n, p : PlannedBy(x, n, p) => x.id[1] = p
      BY DEF PlannedBy
    <3> HIDE DEF B1, B2
    <3> QED BY <1>8, <3>1
  <2>3. b.id[1] = c.id[1]
    BY <1>13
  <2> QED BY <2>1, <2>2, <2>3
<1>14. B3 \subseteq Burn
  BY <1>2, <1>10 DEF Fresh
<1>15. \A b \in E \cup K, c \in D : b.n # c.n
  BY <1>7
<1> HIDE DEF B1, B2, B3
<1> QED
  BY <1>7, <1>10, <1>11, <1>12, <1>13, <1>14, <1>15 DEF Planning, New, E, K, D

-----------------------------------------------------------------------------
(* What the executor and the comparison of queues leave.                   *)
Booking(before, run, left, records, evasion, keep, due) ==
  /\ before \in Seq(Burn)
  /\ ToSet(before) \subseteq ToSet(queue) \cup (ToSet(evasion) \cup ToSet(keep))
  /\ run \in Runs
  /\ ToSet(run.kept) \subseteq ToSet(before)
  /\ ToSet(run.fired) \subseteq ToSet(before)
  /\ ToSet(run.kept) \cap ToSet(run.fired) = {}
  /\ left \in Seq(Burn) /\ ToSet(left) \subseteq ToSet(before)
  /\ ToSet(left) \cap ToSet(run.kept) = {}
  /\ \A b \in ToSet(run.fired) : Own(b, ToSet(before)) => b \in ToSet(left)
  /\ records \in Seq(Entry) /\ Len(records) = Len(left)
  /\ \A i \in 1..Len(records) : BurnOf(records[i], left[i])
  /\ Losing(records, [s \in Sats |-> fuel[s] - run.fuel[s]])
  /\ \A s \in Sats : /\ run.fuel[s] \in 0..fuel[s]
                     /\ run.fuel[s] # fuel[s] => \E b \in ToSet(run.fired) : b.sat = s

(* What a step executes, keeps and books. *)
LEMMA StepBooks ==
  ASSUME StoreInv, QueueInv,
         NEW before, NEW run, NEW left, NEW records, NEW evasion, NEW keep, NEW follow,
         NEW lost, NEW due, NEW outcome, NEW met,
         Stepped(before, run, left, records, evasion, keep, follow, lost, due, outcome, met),
         Planning(evasion, keep, follow)
  PROVE  Booking(before, run, left, records, evasion, keep, due)
<1>1. /\ queue \in Seq(Burn) /\ evasion \in Seq(Burn) /\ keep \in Seq(Burn)
      /\ fuel \in Tanks /\ FullTank \in Nat
  BY HistoryAssumption DEF QueueInv, Planning, StoreInv
<1>2. /\ before = Validated(evasion, lost) \o keep
      /\ run = Executor(before, due)
      /\ left = Inferred(before, run)
      /\ records = [i \in DOMAIN left |-> Record(left[i], run, outcome)]
  BY DEF Stepped
<1>3. /\ before \in Seq(Burn)
      /\ ToSet(before) \subseteq ToSet(queue) \cup (ToSet(evasion) \cup ToSet(keep))
  <2> DEFINE all == queue \o evasion
             some == {b \in ToSet(all) : b.n \notin lost}
             valid == Validated(evasion, lost)
  <2>1. all \in Seq(Burn) /\ ToSet(all) = ToSet(queue) \cup ToSet(evasion)
    BY <1>1, ConcatElements
  <2>2. valid = Among(all, some)
    BY DEF Validated
  <2> HIDE DEF all, some, valid
  <2>3. Drawn(valid, Burn, all, some)
    BY <2>1, <2>2, AmongProperties
  <2>4. valid \in Seq(Burn) /\ ToSet(valid) \subseteq ToSet(queue) \cup ToSet(evasion)
    BY <2>1, <2>3 DEF Drawn
  <2>5. valid \o keep \in Seq(Burn) /\ ToSet(valid \o keep) = ToSet(valid) \cup ToSet(keep)
    BY <1>1, <2>4, ConcatElements
  <2> QED BY <1>2, <2>4, <2>5 DEF valid
<1>4. /\ run \in Runs
      /\ ToSet(run.kept) = {b \in ToSet(before) : b.n \notin due}
      /\ ToSet(run.fired) \subseteq {b \in ToSet(before) : b.n \in due}
      /\ \A s \in Sats :
           /\ run.fuel[s] <= fuel[s]
           /\ run.fuel[s] # fuel[s] => \E b \in ToSet(run.fired) : b.sat = s
  <2>1. Executed(run, before, due)
    BY <1>1, <1>2, <1>3, ExecutorProperties
  <2> QED BY <2>1 DEF Executed
<1>5. run.kept \in Seq(Burn) /\ run.fired \in Seq(Burn) /\ run.fuel \in Tanks
  BY <1>4 DEF Runs
<1>6. /\ left \in Seq(Burn) /\ ToSet(left) \subseteq ToSet(before)
      /\ \A b \in ToSet(left) : b.id \notin Ids(run.kept)
      /\ run.fired # << >> =>
           \A b \in ToSet(before) : b.id \notin Ids(run.kept) => b \in ToSet(left)
  <2>1. CASE run.fired = << >>
    <3>1. left = << >>
      BY <1>2, <2>1 DEF Inferred
    <3> QED BY <2>1, <3>1 DEF ToSet
  <2>2. CASE run.fired # << >>
    <3> DEFINE gone == {b \in ToSet(before) : b.id \notin Ids(run.kept)}
    <3>1. left = Among(before, gone)
      BY <1>2, <2>2 DEF Inferred
    <3>2. Drawn(left, Burn, before, gone)
      <4> HIDE DEF gone
      <4> QED BY <1>3, <3>1, AmongProperties
    <3>3. left \in Seq(Burn) /\ ToSet(left) = {x \in ToSet(before) : x \in gone}
      BY <3>2 DEF Drawn
    <3> QED BY <3>3
  <2> QED BY <2>1, <2>2
<1>7. \A b \in ToSet(run.kept) : b.id \in Ids(run.kept)
  BY DEF ToSet, Ids
<1>8. \A id \in Ids(run.kept) : \E b \in ToSet(run.kept) : b.id = id
  BY DEF ToSet, Ids
<1>9. ASSUME NEW b \in ToSet(run.fired), Own(b, ToSet(before)) PROVE b \in ToSet(left)
  <2>1. run.fired # << >>
    BY DEF ToSet
  <2>2. b.id \notin Ids(run.kept)
    <3>1. SUFFICES ASSUME NEW c \in ToSet(run.kept), c.id = b.id PROVE FALSE
      BY <1>8
    <3> QED BY <1>4, <1>9, <3>1 DEF Own
  <2> QED BY <1>4, <1>6, <2>1, <2>2
<1>10. /\ Len(left) \in Nat /\ DOMAIN left = 1..Len(left)
       /\ \A i \in 1..Len(left) : left[i] \in Burn
  BY <1>6
<1>11. ASSUME NEW b \in Burn
       PROVE  /\ Record(b, run, outcome) \in Entry
              /\ BurnOf(Record(b, run, outcome), b)
              /\ Record(b, run, outcome).before = fuel[b.sat]
              /\ Record(b, run, outcome).after = run.fuel[b.sat]
              /\ Record(b, run, outcome).sat \in Sats
  <2>1. fuel[b.sat] \in 0..FullTank /\ run.fuel[b.sat] \in 0..FullTank
    BY <1>1, <1>5 DEF Burn, Tanks
  <2> QED BY <2>1 DEF Record, Entry, Burn, BurnOf, Predictive
<1>12. records = [i \in 1..Len(left) |-> Record(left[i], run, outcome)]
  BY <1>2, <1>10
<1>13. \A i \in 1..Len(left) : records[i] = Record(left[i], run, outcome)
  BY <1>12
<1>14. records \in Seq(Entry) /\ Len(records) = Len(left)
  <2>1. records \in [1..Len(left) -> Entry]
    BY <1>10, <1>11, <1>12
  <2> QED BY <1>10, <2>1
<1>15. \A i \in 1..Len(records) : BurnOf(records[i], left[i])
  BY <1>10, <1>11, <1>13, <1>14
<1> DEFINE loss == [s \in Sats |-> fuel[s] - run.fuel[s]]
<1>16. \A s \in Sats : run.fuel[s] \in 0..fuel[s]
  BY <1>1, <1>4, <1>5 DEF Tanks
<1>17. Losing(records, loss)
  <2>1. loss \in [Sats -> Nat]
    <3>1. \A s \in Sats : fuel[s] - run.fuel[s] \in Nat
      <4>1. \A s \in Sats : fuel[s] \in Nat /\ run.fuel[s] \in Nat /\ run.fuel[s] <= fuel[s]
        BY <1>1, <1>4, <1>5 DEF Tanks
      <4> QED BY <4>1
    <3> QED BY <3>1
  <2>2. ASSUME NEW i \in 1..Len(records)
        PROVE  records[i].before - records[i].after = loss[records[i].sat]
    <3>1. /\ records[i].before = fuel[left[i].sat]
          /\ records[i].after = run.fuel[left[i].sat]
          /\ records[i].sat = left[i].sat /\ left[i].sat \in Sats
      BY <1>10, <1>11, <1>13, <1>14, <1>15 DEF BurnOf
    <3> QED BY <3>1
  <2> HIDE DEF loss
  <2> QED BY <1>14, <2>1, <2>2 DEF Losing
<1>18. ToSet(left) \cap ToSet(run.kept) = {}
  BY <1>6, <1>7
<1> QED
  BY <1>3, <1>4, <1>6, <1>9, <1>14, <1>15, <1>16, <1>17, <1>18 DEF Booking

(* find_if finds the first record with an id that some record has. *)
LEMMA FirstExists ==
  ASSUME NEW V, NEW seq \in Seq(V), NEW i \in 1..Len(seq)
  PROVE  FirstWith(seq, seq[i].id) # {}
<1> DEFINE B == {k \in 1..Len(seq) : seq[k].id = seq[i].id}
<1>1. Len(seq) \in Nat /\ DOMAIN seq = 1..Len(seq)
  BY ElementsOf
<1>2. B \in SUBSET Nat /\ B # {}
  BY <1>1
<1>3. PICK m \in B : \A k \in B : m <= k
  <2> HIDE DEF B
  <2> QED BY <1>2, LeastNatural
<1>4. \A j \in 1..(m - 1) : seq[j].id # seq[i].id
  <2>1. SUFFICES ASSUME NEW j \in 1..(m - 1), seq[j].id = seq[i].id PROVE FALSE
    OBVIOUS
  <2>2. j \in 1..Len(seq) /\ ~(m <= j)
    BY <1>1, <1>3
  <2> QED BY <1>3, <2>1, <2>2
<1>5. m \in FirstWith(seq, seq[i].id)
  BY <1>1, <1>3, <1>4 DEF FirstWith
<1> QED BY <1>5

(* The capture found for a burn with an id of its own is its own. *)
LEMMA FirstShot ==
  ASSUME NEW seq \in Seq(Burn), NEW c, c.id \in Ids(seq), Own(c, ToSet(seq))
  PROVE  /\ c \in ToSet(seq)
         /\ {seq[k].n : k \in FirstWith(seq, c.id)} = {c.n}
<1>1. DOMAIN seq = 1..Len(seq) /\ \A i \in 1..Len(seq) : seq[i] \in ToSet(seq)
  BY ElementsOf
<1>2. \A i \in 1..Len(seq) : seq[i].id = c.id => seq[i] = c
  BY <1>1 DEF Own
<1>3. PICK i \in 1..Len(seq) : seq[i].id = c.id
  BY <1>1 DEF Ids
<1>4. FirstWith(seq, c.id) # {}
  BY <1>3, FirstExists
<1>5. \A k \in FirstWith(seq, c.id) : seq[k] = c
  BY <1>1, <1>2 DEF FirstWith
<1> QED BY <1>1, <1>2, <1>3, <1>4, <1>5

\* What SnapshotsOf makes of the records of a step.
Captured(shots, records, run) ==
  /\ shots \in Seq(Shot) /\ Len(shots) <= Len(records)
  /\ \A j \in 1..Len(shots) : \E m \in 1..Len(records) :
       /\ shots[j].id = records[m].id /\ shots[j].n = records[m].n
       /\ records[m].id \in Ids(run.fired)
       /\ shots[j].shot =
            {run.fired[k].n : k \in FirstWith(run.fired, records[m].id)}
  /\ \A m \in 1..Len(records) :
       (Predictive(records[m]) /\ records[m].id \in Ids(run.fired)) =>
         \E j \in 1..Len(shots) : /\ shots[j].n = records[m].n
                                  /\ Len(shots) - j <= Len(records) - m

(* Every executed predictive record has a snapshot, every snapshot a record. *)
LEMMA SnapshotsProperties ==
  ASSUME NEW records \in Seq(Entry), NEW run \in Runs, NEW outcome
  PROVE  Captured(SnapshotsOf(records, run, outcome), records, run)
<1> DEFINE set == {r \in ToSet(records) : Predictive(r) /\ r.id \in Ids(run.fired)}
           taken == Among(records, set)
           Photo(r) == [id |-> r.id, sat |-> r.sat, n |-> r.n,
                        spent |-> r.before - r.after,
                        shot |-> {run.fired[j].n : j \in FirstWith(run.fired, r.id)},
                        late |-> outcome = "late"]
           shots == SnapshotsOf(records, run, outcome)
<1>1. Drawn(taken, Entry, records, set)
  <2> HIDE DEF set
  <2> QED BY AmongProperties
<1>2. /\ taken \in Seq(Entry) /\ Len(taken) <= Len(records)
      /\ ToSet(taken) = {x \in ToSet(records) : x \in set}
      /\ \A m \in 1..Len(records) : records[m] \in set =>
           \E j \in 1..Len(taken) :
             taken[j] = records[m] /\ Len(taken) - j <= Len(records) - m
  <2> HIDE DEF taken, set
  <2> QED BY <1>1 DEF Drawn
<1>3. shots = [i \in DOMAIN taken |-> Photo(taken[i])]
  BY DEF SnapshotsOf
<1> HIDE DEF shots, taken
<1>4. /\ Len(taken) \in Nat /\ DOMAIN taken = 1..Len(taken)
      /\ \A i \in 1..Len(taken) : taken[i] \in Entry /\ taken[i] \in ToSet(taken)
  BY <1>2, ElementsOf
<1>5. \A j \in 1..Len(run.fired) : run.fired[j].n \in 1..MaxBurns
  <2>1. run.fired \in Seq(Burn)
    BY DEF Runs
  <2>2. \A j \in 1..Len(run.fired) : run.fired[j] \in Burn
    BY <2>1
  <2> QED BY <2>2 DEF Burn
<1>6. ASSUME NEW r \in Entry PROVE Photo(r) \in Shot
  <2>1. r.before - r.after \in Int
    BY HistoryAssumption DEF Entry
  <2>2. {run.fired[j].n : j \in FirstWith(run.fired, r.id)} \in SUBSET (1..MaxBurns)
    <3>1. run.fired \in Seq(Burn)
      BY DEF Runs
    <3>2. FirstWith(run.fired, r.id) \subseteq 1..Len(run.fired)
      BY <3>1, ElementsOf DEF FirstWith
    <3> QED BY <1>5, <3>2
  <2> QED BY <2>1, <2>2 DEF Shot, Entry
<1>7. /\ shots \in Seq(Shot) /\ Len(shots) = Len(taken)
      /\ \A j \in 1..Len(taken) : shots[j] = Photo(taken[j])
  <2> HIDE DEF Photo
  <2>1. shots \in [1..Len(taken) -> Shot]
    BY <1>3, <1>4, <1>6
  <2> QED BY <1>3, <1>4, <2>1
<1>8. ASSUME NEW j \in 1..Len(shots)
      PROVE  \E m \in 1..Len(records) :
               /\ shots[j].id = records[m].id /\ shots[j].n = records[m].n
               /\ records[m].id \in Ids(run.fired)
               /\ shots[j].shot =
                    {run.fired[k].n : k \in FirstWith(run.fired, records[m].id)}
  <2>1. taken[j] \in ToSet(records) /\ taken[j].id \in Ids(run.fired)
    BY <1>2, <1>4, <1>7
  <2>2. PICK m \in 1..Len(records) : records[m] = taken[j]
    BY <2>1, ElementsOf
  <2>3. shots[j] = Photo(records[m])
    <3> HIDE DEF Photo
    <3> QED BY <1>7, <2>2
  <2>4. /\ shots[j].id = records[m].id /\ shots[j].n = records[m].n
        /\ shots[j].shot =
             {run.fired[k].n : k \in FirstWith(run.fired, records[m].id)}
    BY <2>3
  <2> HIDE DEF Photo
  <2> QED BY <2>1, <2>2, <2>4
<1>9. ASSUME NEW m \in 1..Len(records),
             Predictive(records[m]), records[m].id \in Ids(run.fired)
      PROVE  \E j \in 1..Len(shots) : /\ shots[j].n = records[m].n
                                      /\ Len(shots) - j <= Len(records) - m
  <2>1. records[m] \in set
    BY <1>9, ElementsOf
  <2>2. PICK j \in 1..Len(taken) :
          taken[j] = records[m] /\ Len(taken) - j <= Len(records) - m
    <3> HIDE DEF set
    <3> QED BY <1>2, <2>1
  <2>3. shots[j] = Photo(taken[j])
    <3> HIDE DEF Photo
    <3> QED BY <1>7
  <2>4. shots[j].n = taken[j].n
    BY <2>3
  <2> HIDE DEF Photo
  <2> QED BY <1>7, <2>2, <2>4
<1> HIDE DEF Photo, set
<1> QED BY <1>2, <1>7, <1>8, <1>9 DEF Captured, shots

Digest(before, run, left, records, evasion, keep, follow, lost, due, outcome, met) ==
  /\ Stepped(before, run, left, records, evasion, keep, follow, lost, due, outcome, met)
  /\ Planning(evasion, keep, follow)
  /\ Booking(before, run, left, records, evasion, keep, due)
  /\ Captured(SnapshotsOf(records, run, outcome), records, run)

(* A step gives all those facts. *)
LEMMA StepDigest ==
  ASSUME StoreInv, NumberInv, QueueInv,
         NEW before, NEW run, NEW left, NEW records, NEW evasion, NEW keep, NEW follow,
         NEW lost, NEW due, NEW outcome, NEW met,
         Stepped(before, run, left, records, evasion, keep, follow, lost, due, outcome, met)
  PROVE  Digest(before, run, left, records, evasion, keep, follow, lost, due, outcome, met)
<1>1. Planning(evasion, keep, follow)
  BY StepPlans
<1>2. Booking(before, run, left, records, evasion, keep, due)
  BY <1>1, StepBooks
<1>3. records \in Seq(Entry) /\ run \in Runs
  BY <1>2 DEF Booking
<1>4. Captured(SnapshotsOf(records, run, outcome), records, run)
  BY <1>3, SnapshotsProperties
<1> QED BY <1>1, <1>2, <1>4 DEF Digest

(* The burns a step executes or books were neither before it.              *)
LEMMA StepBurns ==
  ASSUME NumberInv, QueueInv,
         NEW before, NEW run, NEW left, NEW records, NEW evasion, NEW keep, NEW follow,
         NEW lost, NEW due, NEW outcome, NEW met,
         Digest(before, run, left, records, evasion, keep, follow, lost, due, outcome, met)
  PROVE  /\ \A b \in ToSet(before) : b \in born' /\ b \notin fired /\ b.n \notin booked
         /\ \A b \in ToSet(run.fired) \cup ToSet(run.kept) \cup ToSet(left) :
              b \in ToSet(before)
         /\ \A i \in 1..Len(records) :
              /\ left[i] \in ToSet(left) /\ left[i] \in born'
              /\ BurnOf(records[i], left[i])
         /\ \A b, c \in born' : b.n = c.n => b = c
<1>1. Planning(evasion, keep, follow) /\ Booking(before, run, left, records, evasion, keep, due)
  BY DEF Digest
<1>2. \A b \in ToSet(evasion) \cup ToSet(keep) : Fresh(b)
  BY <1>1 DEF Planning, New
<1>3. born' = born \cup New(evasion, keep, follow) /\ Numbered(born')
  BY <1>1 DEF Planning
<1>4. ASSUME NEW b \in ToSet(before)
      PROVE  b \in born' /\ b \notin fired /\ b.n \notin booked
  <2>1. CASE b \in ToSet(queue)
    BY <1>3, <2>1 DEF QueueInv
  <2>2. CASE b \in ToSet(evasion) \cup ToSet(keep)
    BY <1>2, <1>3, <2>2 DEF Fresh, NumberInv, New
  <2> QED BY <1>1, <2>1, <2>2 DEF Booking
<1>5. \A b \in ToSet(run.fired) \cup ToSet(run.kept) \cup ToSet(left) : b \in ToSet(before)
  BY <1>1 DEF Booking
<1>6. ASSUME NEW i \in 1..Len(records)
      PROVE  /\ left[i] \in ToSet(left) /\ left[i] \in born'
             /\ BurnOf(records[i], left[i])
  <2>1. left \in Seq(Burn) /\ Len(records) = Len(left) /\ BurnOf(records[i], left[i])
    BY <1>1 DEF Booking
  <2>2. left[i] \in ToSet(left)
    BY <2>1, ElementsOf
  <2> QED BY <1>4, <1>5, <2>1, <2>2
<1>7. \A b, c \in born' : b.n = c.n => b = c
  BY <1>3 DEF Numbered
<1> QED BY <1>4, <1>5, <1>6, <1>7

(* A step keeps the types and the limits of the histories. *)
LEMMA StepStore ==
  ASSUME StoreInv, NumberInv, QueueInv,
         NEW before, NEW run, NEW left, NEW records, NEW evasion, NEW keep, NEW follow,
         NEW lost, NEW due, NEW outcome, NEW met,
         Digest(before, run, left, records, evasion, keep, follow, lost, due, outcome, met)
  PROVE  StoreInv'
<1> USE DEF StoreInv
<1>1. /\ Stepped(before, run, left, records, evasion, keep, follow, lost, due, outcome, met)
      /\ Booking(before, run, left, records, evasion, keep, due)
      /\ Captured(SnapshotsOf(records, run, outcome), records, run)
  BY DEF Digest
<1>2. /\ worker' = "unlocked" /\ tick' = tick /\ tick < MaxTicks /\ tick \in 0..MaxTicks
  BY <1>1 DEF Stepped
<1>3. fuel' \in Tanks
  BY <1>1 DEF Stepped, Booking, Runs
<1>4. stats' \in FigureTable
  <2>1. Losing(records, [s \in Sats |-> fuel[s] - run.fuel[s]])
    BY <1>1 DEF Booking
  <2>2. FoldLeft(Charge, stats, records) \in FigureTable
    <3> DEFINE loss == [s \in Sats |-> fuel[s] - run.fuel[s]]
    <3>1. Losing(records, loss)
      BY <2>1
    <3> HIDE DEF loss
    <3> QED BY <3>1, ChargeProperties
  <2> QED BY <1>1, <2>2 DEF Stepped
<1>5. executed' \in Seq(Entry) /\ Len(executed') <= KExecuted
  <2>1. records \in Seq(Entry) /\ executed' = Kept(executed \o records, KExecuted)
    BY <1>1 DEF Stepped, Booking
  <2>2. Merged(executed', Entry, executed, records, KExecuted)
    BY <2>1, KeptMerges, HistoryAssumption
  <2> QED BY <2>2 DEF Merged
<1>6. snapshots' \in Seq(Shot) /\ Len(snapshots') <= KSnapshots
  <2> DEFINE shots == SnapshotsOf(records, run, outcome)
  <2>1. shots \in Seq(Shot) /\ snapshots' = Kept(snapshots \o shots, KSnapshots)
    BY <1>1 DEF Stepped, Captured
  <2> HIDE DEF shots
  <2>2. Merged(snapshots', Shot, snapshots, shots, KSnapshots)
    BY <2>1, KeptMerges, HistoryAssumption
  <2> QED BY <2>2 DEF Merged
<1>7. dropped' \in Seq(Burn) /\ Len(dropped') <= KDropped
  <2> DEFINE set == {b \in ToSet(queue) : b.n \in lost}
             gone == Among(queue, set)
  <2>1. dropped' = Kept(dropped \o gone, KDropped)
    BY <1>1 DEF Stepped
  <2>2. gone \in Seq(Burn)
    <3>1. queue \in Seq(Burn)
      BY DEF QueueInv
    <3>2. Drawn(gone, Burn, queue, set)
      <4> HIDE DEF set
      <4> QED BY <3>1, AmongProperties
    <3> HIDE DEF gone
    <3> QED BY <3>2 DEF Drawn
  <2> HIDE DEF gone
  <2>3. Merged(dropped', Burn, dropped, gone, KDropped)
    BY <2>1, <2>2, KeptMerges, HistoryAssumption
  <2> QED BY <2>3 DEF Merged
<1>8. /\ met \in Seq(Sats)
      /\ predicted' = [i \in 1..Len(met) |-> [sat |-> met[i], tick |-> 0]]
      /\ events' = Kept(events \o [i \in 1..Len(met) |-> [sat |-> met[i], tick |-> tick + 1]],
                        KEvents)
  <2>1. met \in Seq(Sats)
    <3>1. met = << >> \/ \E s \in Sats : met = <<s>>
      BY <1>1 DEF Stepped, AtMostOne
    <3>2. ASSUME NEW s \in Sats, met = <<s>> PROVE met \in Seq(Sats)
      BY <3>2
    <3>3. << >> \in Seq(Sats)
      OBVIOUS
    <3> QED BY <3>1, <3>2, <3>3
  <2>2. DOMAIN met = 1..Len(met)
    BY <2>1
  <2> QED BY <1>1, <2>1, <2>2 DEF Stepped, TickId
<1>9. \A k \in Nat : [i \in 1..Len(met) |-> [sat |-> met[i], tick |-> k]] \in Seq(Meeting)
  <2>1. Len(met) \in Nat /\ \A i \in 1..Len(met) : met[i] \in Sats
    BY <1>8
  <2>2. \A k \in Nat : \A i \in 1..Len(met) : [sat |-> met[i], tick |-> k] \in Meeting
    BY <2>1 DEF Meeting
  <2>3. ASSUME NEW k \in Nat
        PROVE  [i \in 1..Len(met) |-> [sat |-> met[i], tick |-> k]] \in Seq(Meeting)
    <3> DEFINE new == [i \in 1..Len(met) |-> [sat |-> met[i], tick |-> k]]
    <3>1. new \in [1..Len(met) -> Meeting]
      BY <2>2
    <3>2. Len(met) \in Nat
      BY <2>1
    <3>3. \A f : \A n \in Nat : f \in [1..n -> Meeting] => f \in Seq(Meeting)
      OBVIOUS
    <3> HIDE DEF new
    <3>4. new \in Seq(Meeting)
      BY <3>1, <3>2, <3>3
    <3> QED BY <3>4 DEF new
  <2> QED BY <2>3
<1>10. predicted' \in Seq(Meeting)
  BY <1>8, <1>9
<1>11. events' \in Seq(Meeting) /\ Len(events') <= KEvents
  <2> DEFINE new == [i \in 1..Len(met) |-> [sat |-> met[i], tick |-> tick + 1]]
  <2>1. tick + 1 \in Nat
    BY <1>2
  <2>2. new \in Seq(Meeting)
    BY <1>9, <2>1
  <2>3. events' = Kept(events \o new, KEvents)
    BY <1>8
  <2> HIDE DEF new
  <2>4. Merged(events', Meeting, events, new, KEvents)
    BY <2>2, <2>3, KeptMerges, HistoryAssumption
  <2> QED BY <2>4 DEF Merged
<1> QED
  BY <1>2, <1>3, <1>4, <1>5, <1>6, <1>7, <1>10, <1>11

(* A step keeps the numbering of the burns. *)
LEMMA StepNumber ==
  ASSUME NumberInv, QueueInv,
         NEW before, NEW run, NEW left, NEW records, NEW evasion, NEW keep, NEW follow,
         NEW lost, NEW due, NEW outcome, NEW met,
         Digest(before, run, left, records, evasion, keep, follow, lost, due, outcome, met)
  PROVE  NumberInv'
<1>1. /\ Stepped(before, run, left, records, evasion, keep, follow, lost, due, outcome, met)
      /\ Booking(before, run, left, records, evasion, keep, due)
      /\ Planning(evasion, keep, follow)
  BY DEF Digest
<1>2. /\ Numbered(born') /\ Cardinality(born') <= MaxBurns /\ born' \subseteq Burn
      /\ born \subseteq born'
  BY <1>1 DEF Planning
<1>3. fired' \subseteq born'
  <2>1. fired' = fired \cup ToSet(run.fired)
    BY <1>1 DEF Stepped
  <2>2. ToSet(run.fired) \subseteq born'
    BY StepBurns
  <2> QED BY <1>2, <2>1, <2>2 DEF NumberInv
<1>4. booked' \subseteq {b.n : b \in born'}
  <2>1. booked' = booked \cup {r.n : r \in ToSet(records)}
    BY <1>1 DEF Stepped
  <2>2. ASSUME NEW r \in ToSet(records) PROVE r.n \in {b.n : b \in born'}
    <3>1. PICK i \in 1..Len(records) : records[i] = r
      BY <1>1, ElementsOf DEF Booking
    <3>2. left[i] \in born' /\ r.n = left[i].n
      BY <3>1, StepBurns DEF BurnOf
    <3> QED BY <3>2
  <2>3. booked \subseteq {b.n : b \in born'}
    BY <1>2 DEF NumberInv
  <2> QED BY <2>1, <2>2, <2>3
<1> QED
  <2>1. Numbered(born)'
    BY <1>2 DEF Numbered
  <2> QED BY <1>2, <1>3, <1>4, <2>1 DEF NumberInv

(* A step leaves nothing in the queue that was executed or booked. *)
LEMMA StepQueue ==
  ASSUME NumberInv, QueueInv,
         NEW before, NEW run, NEW left, NEW records, NEW evasion, NEW keep, NEW follow,
         NEW lost, NEW due, NEW outcome, NEW met,
         Digest(before, run, left, records, evasion, keep, follow, lost, due, outcome, met)
  PROVE  QueueInv'
<1>1. /\ Stepped(before, run, left, records, evasion, keep, follow, lost, due, outcome, met)
      /\ Booking(before, run, left, records, evasion, keep, due)
      /\ Planning(evasion, keep, follow)
  BY DEF Digest
<1>2. /\ queue' = run.kept \o follow
      /\ fired' = fired \cup ToSet(run.fired)
      /\ booked' = booked \cup {r.n : r \in ToSet(records)}
  BY <1>1 DEF Stepped
<1>3. run.kept \in Seq(Burn) /\ follow \in Seq(Burn)
  BY <1>1 DEF Booking, Runs, Planning
<1>4. queue' \in Seq(Burn) /\ ToSet(queue') = ToSet(run.kept) \cup ToSet(follow)
  BY <1>2, <1>3, ConcatElements
<1>5. \A r \in ToSet(records) : \E c \in ToSet(left) : c.n = r.n
  <2>1. SUFFICES ASSUME NEW r \in ToSet(records) PROVE \E c \in ToSet(left) : c.n = r.n
    OBVIOUS
  <2>2. PICK i \in 1..Len(records) : records[i] = r
    BY <1>1, ElementsOf DEF Booking
  <2> QED BY <2>2, StepBurns DEF BurnOf
<1>6. ASSUME NEW b \in ToSet(run.kept)
      PROVE  b \in born' /\ b \notin fired' /\ b.n \notin booked'
  <2>1. b \in born' /\ b \notin fired /\ b.n \notin booked
    BY StepBurns
  <2>2. b \notin ToSet(run.fired)
    BY <1>1 DEF Booking
  <2>3. ASSUME NEW c \in ToSet(left), c.n = b.n PROVE FALSE
    <3>1. c \in born'
      BY StepBurns
    <3>2. c = b
      BY <2>1, <2>3, <3>1, StepBurns
    <3> QED BY <1>1, <3>2 DEF Booking
  <2> QED BY <1>2, <1>5, <2>1, <2>2, <2>3
<1>7. ASSUME NEW b \in ToSet(follow)
      PROVE  b \in born' /\ b \notin fired' /\ b.n \notin booked'
  <2>1. Fresh(b) /\ b \in born' /\ \A c \in ToSet(evasion) \cup ToSet(keep) : c.n # b.n
    BY <1>1 DEF Planning, New
  <2>2. \A c \in born : c.n # b.n /\ c # b
    BY <2>1 DEF Fresh
  <2>3. \A c \in ToSet(before) : c.n # b.n
    <3>1. \A c \in ToSet(before) :
            c \in ToSet(queue) \/ c \in ToSet(evasion) \cup ToSet(keep)
      BY <1>1 DEF Booking
    <3> QED BY <2>1, <2>2, <3>1 DEF QueueInv
  <2>4. b \notin fired /\ b.n \notin booked
    BY <2>2 DEF NumberInv
  <2>5. b \notin ToSet(run.fired)
    BY <2>3, StepBurns
  <2>6. \A c \in ToSet(left) : c.n # b.n
    BY <2>3, StepBurns
  <2> QED BY <1>2, <1>5, <2>1, <2>4, <2>5, <2>6
<1> QED BY <1>4, <1>6, <1>7 DEF QueueInv

(* A step dates what it adds, and plans no id twice. *)
LEMMA StepTick ==
  ASSUME StoreInv, TickInv,
         NEW before, NEW run, NEW left, NEW records, NEW evasion, NEW keep, NEW follow,
         NEW lost, NEW due, NEW outcome, NEW met,
         Digest(before, run, left, records, evasion, keep, follow, lost, due, outcome, met)
  PROVE  TickInv'
<1>1. /\ Stepped(before, run, left, records, evasion, keep, follow, lost, due, outcome, met)
      /\ Planning(evasion, keep, follow)
  BY DEF Digest
<1>2. Late' = tick + 1 /\ Late = tick /\ tick \in Nat
  BY <1>1 DEF Stepped, Late, Flag, StoreInv
<1>3. /\ born' = born \cup New(evasion, keep, follow)
      /\ \A b \in New(evasion, keep, follow) :
           \E p \in Planners : b.id = <<p, tick + 1, 0>>
      /\ \A b, c \in New(evasion, keep, follow) : b.id = c.id => b = c
  BY <1>1 DEF Planning, Fresh
<1>4. \A b \in born : b.kind # "manual" =>
        \E p \in Planners, k \in 1..tick : b.id = <<p, k, 0>>
  BY <1>2 DEF TickInv
<1>5. ASSUME NEW b \in born', b.kind # "manual"
      PROVE  \E p \in Planners, k \in 1..(tick + 1) : b.id = <<p, k, 0>>
  <2>1. CASE b \in born
    <3>1. PICK p \in Planners, k \in 1..tick : b.id = <<p, k, 0>>
      BY <1>4, <1>5, <2>1
    <3>2. k \in 1..(tick + 1)
      BY <1>2
    <3> QED BY <3>1, <3>2
  <2>2. CASE b \in New(evasion, keep, follow)
    <3>1. tick + 1 \in 1..(tick + 1)
      BY <1>2
    <3> QED BY <1>3, <2>2, <3>1
  <2> QED BY <1>3, <2>1, <2>2
<1>6. ASSUME NEW b \in born', NEW c \in born',
             b.id = c.id, b.kind # "manual", c.kind # "manual"
      PROVE  b = c
  <2> DEFINE new == New(evasion, keep, follow)
  <2>1. ASSUME NEW x \in born, NEW y \in new, x.kind # "manual", x.id = y.id PROVE FALSE
    <3>1. PICK p \in Planners, k \in 1..tick : x.id = <<p, k, 0>>
      BY <1>4, <2>1
    <3>2. PICK p2 \in Planners : y.id = <<p2, tick + 1, 0>>
      BY <1>3
    <3>3. x.id[2] = k /\ y.id[2] = tick + 1
      BY <3>1, <3>2
    <3> QED BY <1>2, <2>1, <3>3
  <2>2. \A x, y \in new : x.id = y.id => x = y
    BY <1>3
  <2>3. b \in born \/ b \in new
    BY <1>3
  <2>4. c \in born \/ c \in new
    BY <1>3
  <2>5. b \in born /\ c \in born => b = c
    BY <1>6 DEF TickInv
  <2> HIDE DEF new
  <2> QED BY <1>6, <2>1, <2>2, <2>3, <2>4, <2>5
<1> DEFINE new == [i \in DOMAIN met |-> [sat |-> met[i], tick |-> tick + 1]]
<1>7. /\ events' = Kept(events \o new, KEvents)
      /\ events \in Seq(Meeting)
  BY <1>1 DEF Stepped, StoreInv, TickId
<1>8. /\ met \in Seq(Sats) /\ DOMAIN met = 1..Len(met) /\ Len(met) \in Nat
  <2>1. met = << >> \/ \E s \in Sats : met = <<s>>
    BY <1>1 DEF Stepped, AtMostOne
  <2>2. ASSUME NEW s \in Sats, met = <<s>> PROVE met \in Seq(Sats)
    BY <2>2
  <2>3. << >> \in Seq(Sats)
    OBVIOUS
  <2>4. met \in Seq(Sats)
    BY <2>1, <2>2, <2>3
  <2> QED BY <2>4
<1>9. new \in Seq(Meeting) /\ Len(new) \in Nat /\ \A i \in 1..Len(new) : new[i].tick = tick + 1
  <2>1. new \in [1..Len(met) -> Meeting]
    <3>1. \A i \in 1..Len(met) : met[i] \in Sats
      BY <1>8
    <3>2. tick + 1 \in Nat
      BY <1>2
    <3> QED BY <1>8, <3>1, <3>2 DEF Meeting
  <2>2. \A f : \A n \in Nat : f \in [1..n -> Meeting] => f \in Seq(Meeting) /\ Len(f) = n
    OBVIOUS
  <2>3. new \in Seq(Meeting) /\ Len(new) = Len(met)
    <3> HIDE DEF new
    <3> QED BY <1>8, <2>1, <2>2
  <2>4. \A i \in 1..Len(met) : new[i].tick = tick + 1
    BY <1>8
  <2> HIDE DEF new
  <2> QED BY <1>8, <2>3, <2>4
<1> HIDE DEF new
<1>10. Merged(events', Meeting, events, new, KEvents)
  BY <1>7, <1>9, KeptMerges, HistoryAssumption
<1> DEFINE e == Len(events')
           p == Len(events)
           q == Len(new)
<1>11. e \in Nat /\ p \in Nat /\ q \in Nat
  BY <1>7, <1>9, <1>10, ElementsOf DEF Merged
<1>12. \A i \in 1..e :
         \/ \E m \in 1..p : events'[i] = events[m] /\ e - i = p + q - m
         \/ \E m \in 1..q : events'[i] = new[m] /\ e - i = q - m
  BY <1>10 DEF Merged
<1>13. /\ \A i \in 1..p : events[i].tick <= tick /\ events[i].tick \in Nat
       /\ \A i, j \in 1..p : i < j => events[i].tick <= events[j].tick
  <2>1. \A i \in 1..p : events[i] \in Meeting
    BY <1>7, ElementsOf
  <2> QED BY <1>2, <2>1 DEF TickInv, Meeting
<1>14. \A i \in 1..e : events'[i].tick <= tick + 1
  <2>1. SUFFICES ASSUME NEW i \in 1..e PROVE events'[i].tick <= tick + 1
    OBVIOUS
  <2>2. CASE \E m \in 1..p : events'[i] = events[m]
    BY <1>2, <1>13, <2>2
  <2>3. CASE \E m \in 1..q : events'[i] = new[m]
    BY <1>2, <1>9, <2>3
  <2> QED BY <1>12, <2>2, <2>3
<1>15. ASSUME NEW i \in 1..e, NEW j \in 1..e, i < j
       PROVE  events'[i].tick <= events'[j].tick
  <2> HIDE DEF e, p, q
  <2>1. CASE \E m \in 1..q : events'[j] = new[m] /\ e - j = q - m
    BY <1>9, <1>14, <2>1 DEF q
  <2>2. CASE \E m \in 1..p : events'[j] = events[m] /\ e - j = p + q - m
    <3>1. PICK m \in 1..p : events'[j] = events[m] /\ e - j = p + q - m
      BY <2>2
    <3>2. CASE \E l \in 1..q : events'[i] = new[l] /\ e - i = q - l
      <4>1. PICK l \in 1..q : e - i = q - l
        BY <3>2
      <4> QED BY <1>11, <1>15, <3>1, <4>1
    <3>3. CASE \E l \in 1..p : events'[i] = events[l] /\ e - i = p + q - l
      <4>1. PICK l \in 1..p : events'[i] = events[l] /\ e - i = p + q - l
        BY <3>3
      <4>2. l < m
        BY <1>11, <1>15, <3>1, <4>1
      <4> QED BY <1>13, <3>1, <4>1, <4>2
    <3> QED BY <1>12, <3>2, <3>3
  <2> QED BY <1>12, <2>1, <2>2
<1>16. \A i \in 1..Len(predicted') : predicted'[i].tick = 0
  <2>1. predicted' = [i \in 1..Len(met) |-> [sat |-> met[i], tick |-> 0]]
    BY <1>1, <1>8 DEF Stepped
  <2>2. Len(predicted') = Len(met)
    <3>1. \A n \in Nat : Len([i \in 1..n |-> [sat |-> met[i], tick |-> 0]]) = n
      OBVIOUS
    <3> QED BY <1>8, <2>1, <3>1
  <2> QED BY <2>1, <2>2
<1> QED BY <1>2, <1>5, <1>6, <1>14, <1>15, <1>16 DEF TickInv

-----------------------------------------------------------------------------
(* A step books what it fires, unless the id is shared. *)
LEMMA StepFirings ==
  ASSUME NumberInv, QueueInv, FiringsAreBooked,
         NEW before, NEW run, NEW left, NEW records, NEW evasion, NEW keep, NEW follow,
         NEW lost, NEW due, NEW outcome, NEW met,
         Digest(before, run, left, records, evasion, keep, follow, lost, due, outcome, met)
  PROVE  FiringsAreBooked'
<1>1. /\ Stepped(before, run, left, records, evasion, keep, follow, lost, due, outcome, met)
      /\ Booking(before, run, left, records, evasion, keep, due)
      /\ Planning(evasion, keep, follow)
  BY DEF Digest
<1>2. /\ fired' = fired \cup ToSet(run.fired)
      /\ booked' = booked \cup {r.n : r \in ToSet(records)}
  BY <1>1 DEF Stepped
<1>3. SUFFICES ASSUME NEW b \in fired', Own(b, born') PROVE b.n \in booked'
  BY DEF FiringsAreBooked, OwnId, Own
<1>4. CASE b \in fired
  <2>1. Own(b, born)
    BY <1>1, <1>3 DEF Planning, Own
  <2>2. OwnId(b)
    BY <2>1 DEF OwnId, Own
  <2> QED BY <1>2, <1>4, <2>2 DEF FiringsAreBooked
<1>5. CASE b \in ToSet(run.fired)
  <2>1. Own(b, ToSet(before))
    <3>1. ToSet(before) \subseteq born'
      BY StepBurns
    <3> QED BY <1>3, <3>1 DEF Own
  <2>2. b \in ToSet(left)
    BY <1>1, <1>5, <2>1 DEF Booking
  <2>3. left \in Seq(Burn) /\ records \in Seq(Entry) /\ Len(records) = Len(left)
        /\ \A i \in 1..Len(records) : BurnOf(records[i], left[i])
    BY <1>1 DEF Booking
  <2>4. PICK i \in 1..Len(left) : left[i] = b
    BY <2>2, <2>3, ElementsOf
  <2>5. records[i] \in ToSet(records) /\ records[i].n = b.n
    BY <2>3, <2>4, ElementsOf DEF BurnOf
  <2> QED BY <1>2, <2>5
<1> QED BY <1>2, <1>3, <1>4, <1>5

(* A step charges what the tanks lose. *)
LEMMA StepFuel ==
  ASSUME StoreInv, NumberInv, QueueInv, FuelIsAccounted,
         NEW before, NEW run, NEW left, NEW records, NEW evasion, NEW keep, NEW follow,
         NEW lost, NEW due, NEW outcome, NEW met,
         Digest(before, run, left, records, evasion, keep, follow, lost, due, outcome, met)
  PROVE  FuelIsAccounted'
<1>1. /\ Stepped(before, run, left, records, evasion, keep, follow, lost, due, outcome, met)
      /\ Booking(before, run, left, records, evasion, keep, due)
      /\ Planning(evasion, keep, follow)
  BY DEF Digest
<1> DEFINE loss == [s \in Sats |-> fuel[s] - run.fuel[s]]
<1>2. /\ fuel' = run.fuel /\ stats' = FoldLeft(Charge, stats, records)
      /\ crowded' = crowded \cup
           {s \in Sats : Cardinality({i \in DOMAIN records : records[i].sat = s}) > 1}
  BY <1>1 DEF Stepped
<1>3. Losing(records, loss) /\ stats \in FigureTable
  BY <1>1 DEF Booking, StoreInv
<1>4. stats' \in FigureTable /\ Charged(stats', records, loss)
  <2> HIDE DEF loss
  <2> QED BY <1>2, <1>3, ChargeProperties
<1>5. /\ records \in Seq(Entry) /\ Len(records) \in Nat /\ DOMAIN records = 1..Len(records)
      /\ left \in Seq(Burn) /\ Len(records) = Len(left)
      /\ \A i \in 1..Len(records) : BurnOf(records[i], left[i])
  BY <1>1, ElementsOf DEF Booking
<1>6. SUFFICES ASSUME NEW s \in Sats, \A b \in born' : b.sat = s => Own(b, born')
      PROVE  /\ stats'[s].fuel >= FullTank - fuel'[s]
             /\ s \notin crowded' => stats'[s].fuel = FullTank - fuel'[s]
  BY DEF FuelIsAccounted, OwnId, Own
<1> DEFINE g0 == stats[s].fuel
           g1 == stats'[s].fuel
           f0 == fuel[s]
           f1 == fuel'[s]
           d == loss[s]
           Has == \E i \in 1..Len(records) : records[i].sat = s
<1>7. /\ g0 \in Nat /\ g1 \in Nat /\ f0 \in Nat /\ f1 \in Nat /\ FullTank \in Nat
      /\ d = f0 - f1 /\ d \in Nat
  <2>1. g0 \in Nat /\ g1 \in Nat
    BY <1>3, <1>4 DEF FigureTable, Figures
  <2>2. f0 \in Nat /\ f1 \in Nat /\ FullTank \in Nat
    BY <1>1, <1>2, HistoryAssumption DEF StoreInv, Booking, Runs, Tanks
  <2>3. d = f0 - f1
    BY <1>2
  <2>4. d \in Nat
    BY <1>3 DEF Losing
  <2> QED BY <2>1, <2>2, <2>3, <2>4
<1>8. /\ g0 >= FullTank - f0
      /\ s \notin crowded => g0 = FullTank - f0
  <2>1. \A b \in born : b.sat = s => OwnId(b)
    BY <1>1, <1>6 DEF Planning, Own, OwnId
  <2> QED BY <2>1 DEF FuelIsAccounted
<1>9. d # 0 => Has
  <2>1. SUFFICES ASSUME d # 0 PROVE Has
    OBVIOUS
  <2>2. run.fuel[s] # fuel[s]
    BY <1>2, <1>7, <2>1
  <2>3. PICK b \in ToSet(run.fired) : b.sat = s
    BY <1>1, <2>2 DEF Booking
  <2>4. ToSet(before) \subseteq born' /\ b \in ToSet(before)
    BY StepBurns
  <2>5. Own(b, ToSet(before))
    BY <1>6, <2>3, <2>4 DEF Own
  <2>6. b \in ToSet(left)
    BY <1>1, <2>5 DEF Booking
  <2>7. PICK i \in 1..Len(left) : left[i] = b
    BY <1>5, <2>6, ElementsOf
  <2> QED BY <1>5, <2>3, <2>7 DEF BurnOf
<1>10. ~Has => g1 = g0
  BY <1>4 DEF Charged
<1>11. Has => g1 >= g0 + d
  BY <1>4 DEF Charged
<1>12. Has /\ s \notin crowded' => g1 = g0 + d
  <2>1. SUFFICES ASSUME Has, s \notin crowded' PROVE g1 = g0 + d
    OBVIOUS
  <2> DEFINE C == {i \in 1..Len(records) : records[i].sat = s}
  <2>2. ~(Cardinality(C) > 1)
    BY <1>2, <1>5, <2>1
  <2>3. PICK i \in C : TRUE
    BY <2>1
  <2>4. IsFiniteSet(C)
    <3>1. IsFiniteSet(1..Len(records))
      BY <1>5, FS_Interval
    <3> QED BY <3>1, FS_Subset
  <2>5. ASSUME NEW j \in C, j # i PROVE FALSE
    <3>1. IsFiniteSet({i}) /\ Cardinality({i}) = 1
      BY FS_Singleton
    <3>2. IsFiniteSet({i} \cup {j}) /\ Cardinality({i} \cup {j}) = 2
      <4> DEFINE S == {i}
      <4>1. IsFiniteSet(S) /\ Cardinality(S) = 1 /\ j \notin S
        BY <2>5, <3>1
      <4> HIDE DEF S
      <4>2. IsFiniteSet(S \cup {j}) /\ Cardinality(S \cup {j}) = Cardinality(S) + 1
        BY <4>1, FS_AddElement
      <4>3. IsFiniteSet(S \cup {j}) /\ Cardinality(S \cup {j}) = 2
        BY <4>1, <4>2
      <4> QED BY <4>3 DEF S
    <3>3. {i} \cup {j} \subseteq C
      BY <2>3, <2>5
    <3>4. Cardinality({i} \cup {j}) <= Cardinality(C) /\ Cardinality(C) \in Nat
      <4> HIDE DEF C
      <4> QED BY <2>4, <3>3, FS_Subset, FS_CardinalityType
    <3> DEFINE k == Cardinality({i} \cup {j})
               n == Cardinality(C)
    <3>5. k = 2 /\ k <= n /\ n \in Nat /\ ~(n > 1)
      BY <2>2, <3>2, <3>4
    <3> HIDE DEF k, n
    <3> QED BY <3>5
  <2>6. \E k \in 1..Len(records) : /\ records[k].sat = s
          /\ \A j \in 1..Len(records) : records[j].sat = s => j = k
    BY <2>3, <2>5
  <2> QED BY <1>4, <2>6 DEF Charged
<1>13. s \notin crowded' => s \notin crowded
  BY <1>2
<1> HIDE DEF g0, g1, f0, f1, d, Has
<1>14. g1 >= FullTank - f1
  BY <1>7, <1>8, <1>9, <1>10, <1>11
<1>15. s \notin crowded' => g1 = FullTank - f1
  BY <1>7, <1>8, <1>9, <1>10, <1>12, <1>13
<1> QED BY <1>14, <1>15 DEF g1, f1

(* A step records burns that were queued, and the snapshots survive as long. *)
LEMMA StepRecord ==
  ASSUME StoreInv, NumberInv, QueueInv, RecordInv,
         NEW before, NEW run, NEW left, NEW records, NEW evasion, NEW keep, NEW follow,
         NEW lost, NEW due, NEW outcome, NEW met,
         Digest(before, run, left, records, evasion, keep, follow, lost, due, outcome, met)
  PROVE  RecordInv'
<1> DEFINE shots == SnapshotsOf(records, run, outcome)
<1>1. /\ Stepped(before, run, left, records, evasion, keep, follow, lost, due, outcome, met)
      /\ Booking(before, run, left, records, evasion, keep, due)
      /\ Planning(evasion, keep, follow)
      /\ Captured(shots, records, run)
  BY DEF Digest
<1>2. /\ fired' = fired \cup ToSet(run.fired)
      /\ booked' = booked \cup {r.n : r \in ToSet(records)}
      /\ executed' = Kept(executed \o records, KExecuted)
      /\ snapshots' = Kept(snapshots \o shots, KSnapshots)
  BY <1>1 DEF Stepped
<1>3. /\ records \in Seq(Entry) /\ executed \in Seq(Entry)
      /\ shots \in Seq(Shot) /\ snapshots \in Seq(Shot) /\ Len(shots) <= Len(records)
      /\ born \subseteq born' /\ fired \subseteq fired'
      /\ run.fired \in Seq(Burn)
  BY <1>1, <1>2 DEF Booking, Captured, StoreInv, Planning, Runs
<1> HIDE DEF shots
<1>4. /\ Merged(executed', Entry, executed, records, KExecuted)
      /\ Merged(snapshots', Shot, snapshots, shots, KSnapshots)
  BY <1>2, <1>3, KeptMerges, HistoryAssumption
<1> DEFINE e == Len(executed')
           p == Len(executed)
           q == Len(records)
           s == Len(snapshots')
           t == Len(snapshots)
           u == Len(shots)
<1>5. /\ e \in Nat /\ p \in Nat /\ q \in Nat /\ s \in Nat /\ t \in Nat /\ u \in Nat
      /\ u <= q /\ e <= KExecuted /\ KExecuted \in Nat /\ KSnapshots \in Nat
      /\ KExecuted <= KSnapshots
  BY <1>3, <1>4, ElementsOf, HistoryAssumption DEF Merged
<1>6. /\ \A i \in 1..e :
           \/ \E m \in 1..p : executed'[i] = executed[m] /\ e - i = p + q - m
           \/ \E m \in 1..q : executed'[i] = records[m] /\ e - i = q - m
      /\ \A i \in 1..s :
           \/ \E m \in 1..t : snapshots'[i] = snapshots[m]
           \/ \E m \in 1..u : snapshots'[i] = shots[m]
      /\ \A m \in 1..t : t + u - m < KSnapshots =>
           \E j \in 1..s : snapshots'[j] = snapshots[m] /\ s - j = t + u - m
      /\ \A m \in 1..u : u - m < KSnapshots =>
           \E j \in 1..s : snapshots'[j] = shots[m] /\ s - j = u - m
  BY <1>4 DEF Merged
<1>7. ASSUME NEW m \in 1..q
      PROVE  /\ left[m] \in born' /\ left[m] \in ToSet(before)
             /\ BurnOf(records[m], left[m]) /\ records[m].n \in booked'
  <2>1. records[m] \in ToSet(records)
    BY <1>3, ElementsOf
  <2> QED BY <1>2, <2>1, StepBurns
<1>8. ASSUME NEW c \in born', Own(c, born'), c.id \in Ids(run.fired)
      PROVE  /\ c \in ToSet(run.fired)
             /\ {run.fired[k].n : k \in FirstWith(run.fired, c.id)} = {c.n}
  <2>1. ToSet(run.fired) \subseteq born'
    BY StepBurns
  <2>2. Own(c, ToSet(run.fired))
    BY <1>8, <2>1 DEF Own
  <2> QED BY <1>3, <1>8, <2>2, FirstShot
<1>9. ASSUME NEW i \in 1..e
      PROVE  executed'[i].n \in booked' /\ \E b \in born' : BurnOf(executed'[i], b)
  <2>1. CASE \E m \in 1..p : executed'[i] = executed[m]
    BY <1>2, <1>3, <2>1 DEF RecordInv
  <2>2. CASE \E m \in 1..q : executed'[i] = records[m]
    BY <1>7, <2>2
  <2> QED BY <1>6, <2>1, <2>2
<1>10. ASSUME NEW j \in 1..s
       PROVE  \E c \in born' : SnapshotOf(snapshots[j], c)'
  <2>1. CASE \E m \in 1..t : snapshots'[j] = snapshots[m]
    <3>1. PICK m \in 1..t : snapshots'[j] = snapshots[m]
      BY <2>1
    <3>2. PICK c \in born : SnapshotOf(snapshots[m], c)
      BY DEF RecordInv
    <3>3. /\ snapshots[m].id = c.id /\ snapshots[m].n = c.n
          /\ Own(c, born) => c \in fired /\ snapshots[m].shot = {c.n}
      BY <3>2 DEF SnapshotOf, OwnId, Own
    <3>4. Own(c, born') => Own(c, born)
      BY <1>3 DEF Own
    <3> QED BY <1>3, <3>1, <3>3, <3>4 DEF SnapshotOf, OwnId, Own
  <2>2. CASE \E m \in 1..u : snapshots'[j] = shots[m]
    <3>1. PICK m \in 1..u : snapshots'[j] = shots[m]
      BY <2>2
    <3>2. PICK k \in 1..q :
            /\ shots[m].id = records[k].id /\ shots[m].n = records[k].n
            /\ records[k].id \in Ids(run.fired)
            /\ shots[m].shot =
                 {run.fired[l].n : l \in FirstWith(run.fired, records[k].id)}
      BY <1>1 DEF Captured
    <3> DEFINE c == left[k]
    <3>3. c \in born' /\ records[k].id = c.id /\ records[k].n = c.n
      BY <1>7 DEF BurnOf
    <3>4. Own(c, born') => c \in ToSet(run.fired) /\ shots[m].shot = {c.n}
      <4> HIDE DEF c
      <4> QED BY <1>8, <3>2, <3>3
    <3> HIDE DEF c
    <3> QED BY <1>2, <3>1, <3>2, <3>3, <3>4 DEF SnapshotOf, OwnId, Own
  <2> QED BY <1>6, <2>1, <2>2
<1>11. ASSUME NEW i \in 1..e, Wanted(executed[i])'
       PROVE  \E j \in 1..s : snapshots'[j].n = executed'[i].n /\ s - j <= e - i
  <2> DEFINE r == executed'[i]
  <2>1. /\ Predictive(r)
        /\ \E b \in born' : b.n = r.n /\ Own(b, born')
        /\ \E b \in fired' : b.n = r.n
    BY <1>11 DEF Wanted, OwnId, Own
  <2>2. PICK b \in born' : b.n = r.n /\ Own(b, born')
    BY <2>1
  <2>3. PICK f \in fired' : f.n = r.n
    BY <2>1
  <2>4. f \in born' /\ f = b
    <3>1. NumberInv'
      BY StepNumber
    <3>2. f \in born'
      BY <3>1 DEF NumberInv
    <3> QED BY <2>2, <2>3, <3>2, StepBurns
  <2>5. e - i < KExecuted /\ e - i \in Nat
    BY <1>5
  <2>6. CASE \E m \in 1..p : r = executed[m] /\ e - i = p + q - m
    <3>1. PICK m \in 1..p : r = executed[m] /\ e - i = p + q - m
      BY <2>6
    <3>2. PICK c \in born : BurnOf(executed[m], c)
      BY DEF RecordInv
    <3>3. c = b
      <4>1. c \in born' /\ c.n = b.n
        BY <1>3, <2>2, <3>1, <3>2 DEF BurnOf
      <4> QED BY <4>1, StepBurns
    <3>4. executed[m].n \in booked
      BY DEF RecordInv
    <3>5. b \in fired
      <4>1. b \notin ToSet(run.fired)
        BY <2>2, <3>1, <3>4, StepBurns
      <4> QED BY <1>2, <2>4, <4>1
    <3>6. Own(b, born)
      BY <1>3, <2>2 DEF Own
    <3>7. Wanted(executed[m])
      BY <2>1, <2>2, <3>1, <3>2, <3>3, <3>5, <3>6 DEF Wanted, OwnId, Own
    <3>8. PICK l \in 1..t : snapshots[l].n = executed[m].n /\ t - l <= p - m
      BY <3>7 DEF RecordInv
    <3>9. t + u - l <= e - i /\ t + u - l < KSnapshots
      <4>1. e - i = p + q - m /\ t - l <= p - m /\ l \in Nat /\ m \in Nat /\ i \in Nat
        BY <3>1, <3>8
      <4> HIDE DEF e, p, q, t, u
      <4>2. t + u - l <= e - i
        BY <1>5, <4>1
      <4> QED BY <1>5, <2>5, <4>1, <4>2
    <3>10. PICK j \in 1..s : snapshots'[j] = snapshots[l] /\ s - j = t + u - l
      BY <1>6, <3>9
    <3> QED BY <3>1, <3>8, <3>9, <3>10
  <2>7. CASE \E m \in 1..q : r = records[m] /\ e - i = q - m
    <3>1. PICK m \in 1..q : r = records[m] /\ e - i = q - m
      BY <2>7
    <3>2. left[m] \in born' /\ left[m].n = b.n
      BY <1>7, <2>2, <3>1 DEF BurnOf
    <3>3. left[m] = b
      BY <3>2, StepBurns
    <3>4. b \notin fired
      BY <1>7, <3>3, StepBurns
    <3>5. b \in ToSet(run.fired)
      BY <1>2, <2>4, <3>4
    <3>6. records[m].id = b.id
      BY <1>7, <3>3 DEF BurnOf
    <3>7. records[m].id \in Ids(run.fired)
      BY <3>5, <3>6 DEF Ids, ToSet
    <3>8. PICK l \in 1..u : shots[l].n = records[m].n /\ u - l <= q - m
      BY <1>1, <2>1, <3>1, <3>7 DEF Captured
    <3>9. u - l <= e - i /\ u - l < KSnapshots
      <4> HIDE DEF e, p, q, t, u
      <4> QED BY <1>5, <2>5, <3>1, <3>8
    <3>10. PICK j \in 1..s : snapshots'[j] = shots[l] /\ s - j = u - l
      BY <1>6, <3>9
    <3> QED BY <3>1, <3>8, <3>9, <3>10
  <2> QED BY <1>6, <2>6, <2>7
<1>12. \A i \in 1..e : Wanted(executed[i])' =>
         \E j \in 1..s : snapshots'[j].n = executed'[i].n /\ s - j <= e - i
  BY <1>11
<1> QED BY <1>9, <1>10, <1>12 DEF RecordInv, BurnOf

(* What publish_read_views builds has its type: its figures are sums over the
   satellites and lengths of bounded histories. *)
LEMMA ViewsTyped ==
  ASSUME StoreInv, QueueInv, totals \in [last : CounterTable, all : CounterTable]
  PROVE  Views \in Answers
<1>1. /\ fuel \in Tanks /\ stats \in FigureTable /\ queue \in Seq(Burn)
      /\ executed \in Seq(Entry) /\ Len(executed) <= KExecuted
      /\ dropped \in Seq(Burn) /\ predicted \in Seq(Meeting) /\ KExecuted \in Nat
  BY HistoryAssumption DEF StoreInv, QueueInv
<1>2. ASSUME NEW f \in [Sats -> Nat] PROVE SumFunction(f) \in Nat
  BY HistoryAssumption, SumIsNatural
<1> DEFINE a == SumFunction([s \in Sats |-> stats[s].fuel])
           b == SumFunction([s \in Sats |-> stats[s].saved])
<1>3. a \in Nat /\ b \in Nat
  <2>1. \A s \in Sats : stats[s].fuel \in Nat /\ stats[s].saved \in Nat
    BY <1>1 DEF FigureTable, Figures
  <2>2. /\ [s \in Sats |-> stats[s].fuel] \in [Sats -> Nat]
        /\ [s \in Sats |-> stats[s].saved] \in [Sats -> Nat]
    BY <2>1
  <2> QED BY <1>2, <2>2
<1>4. Len(executed) \in 0..KExecuted
  BY <1>1
<1>5. BurnsView = [executed |-> executed, dropped |-> dropped, pending |-> queue,
                   stats |-> stats, burnsExecuted |-> Len(executed),
                   fuelConsumed |-> a, collisionsAvoided |-> b]
  BY DEF BurnsView
<1>6. BurnsView \in BurnsAnswer
  <2> HIDE DEF a, b
  <2> QED BY <1>1, <1>3, <1>4, <1>5 DEF BurnsAnswer
<1>7. PropagationView \in [lastTick : CounterTable, totals : CounterTable]
  BY DEF PropagationView
<1>8. SnapshotView \in Tanks
  BY <1>1 DEF SnapshotView, Tanks
<1> QED BY <1>1, <1>6, <1>7, <1>8 DEF Views, Answers

(* The invariant holds at first. *)
LEMMA InitIInv == Init => IInv
<1> SUFFICES ASSUME Init PROVE IInv
  OBVIOUS
<1> USE DEF Init
<1>0. ToSet(<< >>) = {} /\ DOMAIN << >> = 1..0 /\ Len(<< >>) = 0 /\ 1..0 = {}
  BY DEF ToSet
<1>1. StoreInv
  <2>1. fuel \in Tanks
    BY HistoryAssumption DEF Tanks
  <2>2. stats \in FigureTable
    BY DEF FigureTable, Figures, NoStats
  <2>3. \A V : << >> \in Seq(V)
    OBVIOUS
  <2>4. MaxTicks \in Nat /\ KExecuted \in Nat /\ KDropped \in Nat /\ KSnapshots \in Nat /\ KEvents \in Nat
    BY HistoryAssumption
  <2> QED BY <1>0, <2>1, <2>2, <2>3, <2>4 DEF StoreInv
<1>2. NumberInv
  <2>1. IsFiniteSet({}) /\ Cardinality({}) = 0
    BY FS_EmptySet
  <2>2. MaxBurns \in Nat
    BY HistoryAssumption
  <2> QED BY <2>1, <2>2 DEF NumberInv, Numbered
<1>3. QueueInv
  <2>1. << >> \in Seq(Burn)
    OBVIOUS
  <2> QED BY <1>0, <2>1 DEF QueueInv
<1>4. TickInv
  BY <1>0 DEF TickInv
<1>5. RecordInv
  BY <1>0 DEF RecordInv
<1>6. ViewInv
  <2>1. [c \in Counters |-> 0] \in CounterTable
    BY DEF CounterTable
  <2>2. totals \in [last : CounterTable, all : CounterTable]
    BY <2>1
  <2>3. view = Views /\ crowded \subseteq Sats
    OBVIOUS
  <2>4. Views \in Answers
    <3> USE DEF Init
    <3> QED BY <1>1, <1>3, <2>2, ViewsTyped
  <2> QED BY <2>2, <2>3, <2>4 DEF ViewInv
<1>7. FiringsAreBooked
  BY DEF FiringsAreBooked
<1>8. FuelIsAccounted
  <2>1. \A s \in Sats : stats[s].fuel = 0 /\ fuel[s] = FullTank
    BY DEF NoStats
  <2>2. FullTank - FullTank = 0 /\ 0 >= 0
    BY HistoryAssumption
  <2> QED BY <2>1, <2>2 DEF FuelIsAccounted
<1> QED BY <1>1, <1>2, <1>3, <1>4, <1>5, <1>6, <1>7, <1>8 DEF IInv

(* A step counts what it planned, executed and lost. *)
LEMMA StepTotals ==
  ASSUME QueueInv, ViewInv, StoreInv, NumberInv,
         NEW before, NEW run, NEW left, NEW records, NEW evasion, NEW keep, NEW follow,
         NEW lost, NEW due, NEW outcome, NEW met,
         Stepped(before, run, left, records, evasion, keep, follow, lost, due, outcome, met)
  PROVE  ViewInv'
<1>1. Digest(before, run, left, records, evasion, keep, follow, lost, due, outcome, met)
  BY StepDigest
<1>2. /\ evasion \in Seq(Burn) /\ keep \in Seq(Burn) /\ follow \in Seq(Burn)
      /\ run.fired \in Seq(Burn)
  BY <1>1 DEF Digest, Planning, Booking, Runs
<1> DEFINE p == Len(evasion) + Len(keep)
           e == Len(run.fired)
           m == Cardinality(lost)
           f == Len(follow)
           now == [planned |-> p, executed |-> e, missed |-> m, followed |-> f]
<1>3. totals' = Counted(now) /\ IsFiniteSet(lost)
  BY DEF Stepped
<1>4. p \in Nat /\ e \in Nat /\ m \in Nat /\ f \in Nat
  BY <1>2, <1>3, FS_CardinalityType
<1>5. now \in CounterTable
  <2> HIDE DEF p, e, m, f
  <2> QED BY <1>4 DEF CounterTable, Counters
<1> HIDE DEF now
<1>6. totals.all \in CounterTable
  BY DEF ViewInv
<1>7. [c \in Counters |-> totals.all[c] + now[c]] \in CounterTable
  BY <1>5, <1>6 DEF CounterTable
<1>8. totals' \in [last : CounterTable, all : CounterTable]
  BY <1>3, <1>5, <1>7 DEF Counted
<1>9. worker' = "unlocked" /\ view' = view /\ crowded' \subseteq Sats
  BY DEF Stepped, ViewInv
<1> QED BY <1>8, <1>9 DEF ViewInv

(* The invariant holds after a simulation step. *)
LEMMA NextStep ==
  ASSUME IInv, Steps
  PROVE  IInv'
<1>1. PICK before, run, left, records, evasion, keep, follow, lost, due, outcome, met :
        Stepped(before, run, left, records, evasion, keep, follow, lost, due, outcome, met)
  BY DEF Steps
<1> USE DEF IInv
<1>2. Digest(before, run, left, records, evasion, keep, follow, lost, due, outcome, met)
  BY <1>1, StepDigest
<1>3. StoreInv'
  BY <1>2, StepStore
<1>4. NumberInv'
  BY <1>2, StepNumber
<1>5. QueueInv'
  BY <1>2, StepQueue
<1>6. TickInv'
  BY <1>2, StepTick
<1>7. RecordInv'
  BY <1>2, StepRecord
<1>8. FiringsAreBooked'
  BY <1>2, StepFirings
<1>9. FuelIsAccounted'
  BY <1>2, StepFuel
<1>10. ViewInv'
  BY <1>1, StepTotals
<1> QED BY <1>3, <1>4, <1>5, <1>6, <1>7, <1>8, <1>9, <1>10

(* An order changes the queue and nothing a record or figure is made of.   *)
LEMMA NextSchedule ==
  ASSUME IInv, NEW s \in Sats, NEW id \in OrderIds, Schedule(s, id)
  PROVE  IInv'
<1> USE DEF IInv
<1> DEFINE b == NewBurn(Cardinality(born) + 1, id, s, "manual")
<1>1. /\ worker = "idle" /\ worker' = "publishing"
      /\ Cardinality(born) < MaxBurns
      /\ queue' = Append(queue, b) /\ born' = born \cup {b}
      /\ tick' = tick /\ fuel' = fuel /\ executed' = executed
      /\ dropped' = dropped /\ snapshots' = snapshots /\ stats' = stats
      /\ predicted' = predicted /\ events' = events /\ totals' = totals
      /\ view' = view /\ fired' = fired /\ booked' = booked
      /\ crowded' = crowded
  BY DEF Schedule
<1>2. /\ b.n = Cardinality(born) + 1 /\ b.kind = "manual"
      /\ b = [n |-> Cardinality(born) + 1, id |-> id, sat |-> s, kind |-> "manual"]
  BY DEF NewBurn
<1> HIDE DEF b
<1>3. Numbered(born) /\ Cardinality(born) \in Nat /\ MaxBurns \in Nat
  BY HistoryAssumption, FS_CardinalityType DEF NumberInv, Numbered
<1>4. /\ Numbered(born') /\ Cardinality(born') = Cardinality(born) + 1
      /\ \A c \in born : c.n # b.n
  BY <1>1, <1>2, <1>3, NumberOne
<1>5. b \in Burn
  <2>1. Cardinality(born) + 1 \in 1..MaxBurns
    BY <1>1, <1>3
  <2> QED BY <1>2, <2>1 DEF Burn, BurnIds, Kinds
<1>6. b \notin born /\ b \notin fired /\ b.n \notin booked
  BY <1>4 DEF NumberInv
<1>7. StoreInv'
  BY <1>1 DEF StoreInv
<1>8. NumberInv'
  <2>1. Numbered(born)'
    BY <1>4 DEF Numbered
  <2>2. Cardinality(born') <= MaxBurns
    BY <1>1, <1>3, <1>4
  <2> QED BY <1>1, <1>5, <2>1, <2>2 DEF NumberInv
<1>9. QueueInv'
  <2>1. queue' \in Seq(Burn) /\ ToSet(queue') = ToSet(queue) \cup {b}
    BY <1>1, <1>5, AppendElements DEF QueueInv
  <2> QED BY <1>1, <1>6, <2>1 DEF QueueInv
<1>10. TickInv'
  <2>1. Late' = Late
    BY <1>1 DEF Late, Flag
  <2> QED BY <1>1, <1>2, <2>1 DEF TickInv
<1>11. \A c \in born : Own(c, born') => Own(c, born)
  BY <1>1 DEF Own
<1>12. RecordInv'
  <2>1. ASSUME NEW i \in 1..Len(executed), Wanted(executed[i])'
        PROVE  Wanted(executed[i])
    <3>1. /\ Predictive(executed[i])
          /\ \E c \in born' : c.n = executed[i].n /\ Own(c, born')
          /\ \E c \in fired : c.n = executed[i].n
      BY <1>1, <2>1 DEF Wanted, OwnId, Own
    <3>2. PICK c \in born' : c.n = executed[i].n /\ Own(c, born')
      BY <3>1
    <3>3. c \in born
      BY <1>1, <1>6, <3>2 DEF RecordInv
    <3> QED BY <1>11, <3>1, <3>2, <3>3 DEF Wanted, OwnId, Own
  <2>2. ASSUME NEW j \in 1..Len(snapshots)
        PROVE  \E c \in born' : SnapshotOf(snapshots[j], c)'
    <3>1. PICK c \in born : SnapshotOf(snapshots[j], c)
      BY DEF RecordInv
    <3>2. c \in born'
      BY <1>1
    <3>3. /\ snapshots[j].id = c.id /\ snapshots[j].n = c.n
          /\ Own(c, born') => c \in fired /\ snapshots[j].shot = {c.n}
      BY <1>11, <3>1 DEF SnapshotOf, OwnId, Own
    <3> QED BY <1>1, <3>2, <3>3 DEF SnapshotOf, OwnId, Own
  <2>3. \A i \in 1..Len(executed) : Wanted(executed[i])' =>
          \E j \in 1..Len(snapshots) :
            /\ snapshots[j].n = executed[i].n
            /\ Len(snapshots) - j <= Len(executed) - i
    BY <2>1 DEF RecordInv
  <2>4. \A i \in 1..Len(executed) :
          executed[i].n \in booked /\ \E c \in born' : BurnOf(executed[i], c)
    BY <1>1 DEF RecordInv
  <2> QED BY <1>1, <2>2, <2>3, <2>4 DEF RecordInv, BurnOf
<1>13. FiringsAreBooked'
  <2>1. ASSUME NEW c \in fired, Own(c, born') PROVE c.n \in booked
    <3>1. c \in born
      BY DEF NumberInv
    <3>2. Own(c, born)
      BY <1>11, <2>1, <3>1
    <3> QED BY <3>2 DEF FiringsAreBooked, OwnId, Own
  <2> QED BY <1>1, <2>1 DEF FiringsAreBooked, OwnId, Own
<1>14. FuelIsAccounted'
  <2>1. ASSUME NEW t \in Sats, \A c \in born' : c.sat = t => Own(c, born')
        PROVE  /\ stats[t].fuel >= FullTank - fuel[t]
               /\ t \notin crowded => stats[t].fuel = FullTank - fuel[t]
    <3>1. \A c \in born : c.sat = t => OwnId(c)
      BY <1>1, <1>11, <2>1 DEF OwnId, Own
    <3> QED BY <3>1 DEF FuelIsAccounted
  <2> QED BY <1>1, <2>1 DEF FuelIsAccounted, OwnId, Own
<1>15. ViewInv'
  BY <1>1 DEF ViewInv
<1> QED BY <1>7, <1>8, <1>9, <1>10, <1>12, <1>13, <1>14, <1>15

(* Counting the tick, publishing and stuttering leave the records alone.   *)
LEMMA NextQuiet ==
  ASSUME IInv, UNCHANGED <<state, history>>,
         worker' \in {"idle", "unlocked", "publishing"},
         tick' \in 0..MaxTicks, worker' = "unlocked" => tick' < MaxTicks,
         Late' = Late, view' \in {view, Views}, worker' = "idle" => view' = Views
  PROVE  IInv'
<1> USE DEF IInv, state, history
<1>1. StoreInv'
  BY DEF StoreInv
<1>2. NumberInv'
  BY DEF NumberInv, Numbered
<1>3. QueueInv'
  BY DEF QueueInv
<1>4. TickInv'
  <2> HIDE DEF Late
  <2> QED BY DEF TickInv
<1>5. RecordInv'
  BY DEF RecordInv, Wanted, SnapshotOf, OwnId, BurnOf
<1>6. FiringsAreBooked'
  BY DEF FiringsAreBooked, OwnId
<1>7. FuelIsAccounted'
  BY DEF FuelIsAccounted, OwnId
<1>8. ViewInv'
  <2>1. Views' = Views
    BY DEF Views, SnapshotView, PropagationView, BurnsView
  <2>2. Views \in Answers
    BY ViewsTyped DEF ViewInv
  <2> QED BY <2>1, <2>2 DEF ViewInv
<1> QED BY <1>1, <1>2, <1>3, <1>4, <1>5, <1>6, <1>7, <1>8

(* The invariant is inductive. *)
LEMMA NextIInv == IInv /\ [Next]_vars => IInv'
<1> SUFFICES ASSUME IInv, [Next]_vars PROVE IInv'
  OBVIOUS
<1>0. tick \in 0..MaxTicks /\ MaxTicks \in Nat /\ (worker = "unlocked" => tick < MaxTicks)
  BY HistoryAssumption DEF IInv, StoreInv
<1>1. ASSUME NEW s \in Sats, NEW id \in OrderIds, Schedule(s, id) PROVE IInv'
  BY <1>1, NextSchedule
<1>2. ASSUME NEW threats \in AtMostOne, NEW lost \in SUBSET Pending,
             NEW evasion \in Evasions(Cardinality(born) + 1, threats),
             NEW keep \in Keepings(Cardinality(born) + Len(evasion) + 1,
                                   Validated(evasion, lost)),
             NEW due \in SUBSET (Pending \ lost),
             NEW outcome \in Outcomes(due),
             Step(threats, evasion, lost, keep, due, outcome, threats)
      PROVE  IInv'
  <2>1. queue \in Seq(Burn)
    BY DEF IInv, QueueInv
  <2> QED BY <1>2, <2>1, StepSteps, NextStep
<1>3. CASE CountTick
  <2>1. UNCHANGED <<state, history>> /\ worker' = "publishing" /\ tick' = tick + 1
        /\ worker = "unlocked" /\ view' = view
    BY <1>3 DEF CountTick
  <2>2. Late' = Late
    BY <1>0, <2>1 DEF Late, Flag
  <2>3. tick' \in 0..MaxTicks
    BY <1>0, <2>1
  <2> QED BY <2>1, <2>2, <2>3, NextQuiet
<1>4. CASE Publish
  <2>1. UNCHANGED <<state, history>> /\ worker' = "idle" /\ tick' = tick
        /\ worker = "publishing" /\ view' = Views
    BY <1>4 DEF Publish
  <2>2. Late' = Late
    BY <2>1 DEF Late, Flag
  <2> QED BY <1>0, <2>1, <2>2, NextQuiet
<1>5. CASE UNCHANGED vars
  <2>1. UNCHANGED <<state, history>> /\ worker' = worker /\ tick' = tick /\ view' = view
    BY <1>5 DEF vars
  <2>2. Late' = Late
    BY <2>1 DEF Late, Flag
  <2>3. worker' = "idle" => view' = Views
    BY <2>1 DEF IInv, ViewInv
  <2>4. worker \in {"idle", "unlocked", "publishing"}
    BY DEF IInv, StoreInv
  <2> QED BY <1>0, <2>1, <2>2, <2>3, <2>4, NextQuiet
<1> QED BY <1>1, <1>2, <1>3, <1>4, <1>5 DEF Next

(* Every reachable state of the histories satisfies the inductive invariant. *)
THEOREM HistoriesInvariant == Spec => []IInv
<1>1. Init => IInv
  BY InitIInv
<1>2. IInv /\ [Next]_vars => IInv'
  BY NextIInv
<1> QED BY <1>1, <1>2, PTL DEF Spec

(* Every variable has its type, the published answers and their sums included,
   and no history outgrows its limit, whatever the steps and orders: the
   trimming in execute_simulate_step and publish_read_views. *)
THEOREM HistoriesTypeCorrect == Spec => []TypeOK
<1>1. IInv => TypeOK
  BY DEF IInv, TypeOK, StoreInv, QueueInv, NumberInv, ViewInv
<1> QED BY <1>1, HistoriesInvariant, PTL

(* Every burn execute_due_maneuvers fired is booked in the same step, unless
   another queued burn has its id. *)
THEOREM FiringsBooked == Spec => []FiringsAreBooked
<1>1. IInv => FiringsAreBooked
  BY DEF IInv
<1> QED BY <1>1, HistoriesInvariant, PTL

(* /api/debug/burns charges a satellite what its tank lost, as long as its burns
   have ids of their own and no step booked two of them; never less. *)
THEOREM FuelAccounted == Spec => []FuelIsAccounted
<1>1. IInv => FuelIsAccounted
  BY DEF IInv
<1> QED BY <1>1, HistoriesInvariant, PTL

(* The counterfactual of a listed evasion with an id of its own compares that
   burn, is present if it was executed and missing if it was only booked. *)
THEOREM CounterfactualFaithful == Spec => []CounterfactualIsFaithful
<1>1. IInv => CounterfactualIsFaithful
  <2> SUFFICES ASSUME IInv PROVE CounterfactualIsFaithful
    OBVIOUS
  <2> USE DEF IInv
  <2>1. /\ executed \in Seq(Entry) /\ DOMAIN executed = 1..Len(executed)
        /\ snapshots \in Seq(Shot) /\ DOMAIN snapshots = 1..Len(snapshots)
    BY ElementsOf DEF StoreInv
  <2>2. /\ \A b, c \in born : b.n = c.n => b = c
        /\ fired \subseteq born
    BY DEF NumberInv, Numbered
  <2> SUFFICES ASSUME NEW i \in 1..Len(executed), Predictive(executed[i]),
                      NEW b \in born, b.n = executed[i].n, OwnId(b)
      PROVE  LET e == executed[i] IN
               IF \E f \in fired : f.n = e.n
               THEN /\ CounterfactualStatus(e.id) \in {"200", "409 encounter_window_elapsed"}
                    /\ \A j \in FirstWith(snapshots, e.id) :
                         snapshots[j].n = e.n /\ snapshots[j].shot = {e.n}
               ELSE CounterfactualStatus(e.id) = "500 burn_snapshot_missing"
    BY <2>1 DEF CounterfactualIsFaithful
  <2> DEFINE e == executed[i]
  \* The only burn with the id of the record is its own.
  <2>3. b.id = e.id
    <3>1. PICK c \in born : BurnOf(e, c)
      BY DEF RecordInv
    <3>2. c = b
      BY <2>2, <3>1 DEF BurnOf
    <3> QED BY <3>1, <3>2 DEF BurnOf
  <2>4. \A c \in born : c.id = e.id => c = b
    BY <2>3 DEF OwnId
  \* So the first record with that id is an evasion's.
  <2>5. ASSUME NEW k \in FirstWith(executed, e.id) PROVE Predictive(executed[k])
    <3>1. k \in 1..Len(executed) /\ executed[k].id = e.id
      BY <2>1 DEF FirstWith
    <3>2. PICK c \in born : BurnOf(executed[k], c)
      BY <3>1 DEF RecordInv
    <3>3. PICK d \in born : BurnOf(e, d)
      BY DEF RecordInv
    <3>4. c = b /\ d = b
      BY <2>2, <2>4, <3>1, <3>2, <3>3 DEF BurnOf
    <3> QED BY <3>2, <3>3, <3>4 DEF BurnOf, Predictive
  <2>6. FirstWith(executed, e.id) # {}
    BY <2>1, FirstExists
  \* And every snapshot with that id is of that burn.
  <2>7. ASSUME NEW k \in FirstWith(snapshots, e.id)
        PROVE  b \in fired /\ snapshots[k].n = e.n /\ snapshots[k].shot = {e.n}
    <3>1. k \in 1..Len(snapshots) /\ snapshots[k].id = e.id
      BY <2>1 DEF FirstWith
    <3>2. PICK c \in born : SnapshotOf(snapshots[k], c)
      BY <3>1 DEF RecordInv
    <3>3. c = b
      BY <2>4, <3>1, <3>2 DEF SnapshotOf
    <3> QED BY <3>2, <3>3 DEF SnapshotOf
  <2>8. CASE \E f \in fired : f.n = e.n
    <3>1. Wanted(e)
      BY <2>8 DEF Wanted
    <3>2. PICK j \in 1..Len(snapshots) : snapshots[j].n = e.n
      BY <3>1 DEF RecordInv
    <3>3. PICK c \in born : SnapshotOf(snapshots[j], c)
      BY DEF RecordInv
    <3>4. snapshots[j].id = e.id
      BY <2>2, <2>3, <3>2, <3>3 DEF SnapshotOf
    <3>5. FirstWith(snapshots, e.id) # {}
      BY <2>1, <3>4, FirstExists
    <3>6. CounterfactualStatus(e.id) \in {"200", "409 encounter_window_elapsed"}
      <4>1. ~(\A k \in FirstWith(executed, e.id) : ~Predictive(executed[k]))
        BY <2>5, <2>6
      <4> HIDE DEF e
      <4> QED BY <2>6, <3>5, <4>1 DEF CounterfactualStatus
    <3> QED BY <2>7, <2>8, <3>6
  <2>9. CASE ~\E f \in fired : f.n = e.n
    <3>1. FirstWith(snapshots, e.id) = {}
      BY <2>7, <2>9
    <3>2. ~(\A k \in FirstWith(executed, e.id) : ~Predictive(executed[k]))
      BY <2>5, <2>6
    <3>3. CounterfactualStatus(e.id) = "500 burn_snapshot_missing"
      <4> HIDE DEF e
      <4> QED BY <2>6, <3>1, <3>2 DEF CounterfactualStatus
    <3> QED BY <2>9, <3>3
  <2> QED BY <2>8, <2>9
<1> QED BY <1>1, HistoriesInvariant, PTL

(* Between commands the views and the live state agree, /api/status is at most a
   tick behind, and past conjunctions and planned ids are ordered and unique. *)
THEOREM EndpointsAgreement == Spec => []EndpointsAgree
<1>1. IInv => EndpointsAgree
  <2> SUFFICES ASSUME IInv PROVE EndpointsAgree
    OBVIOUS
  <2> USE DEF IInv
  <2>1. worker = "idle" =>
          /\ view = Views
          /\ Status.pending = Len(view.burns.pending)
          /\ Status.dropped = Len(view.burns.dropped)
          /\ Status.predicted = Len(Conjunctions("predicted", All))
          /\ Status.totals = view.propagation.totals
    <3> SUFFICES ASSUME worker = "idle"
        PROVE  /\ view = Views
               /\ Status.pending = Len(view.burns.pending)
               /\ Status.dropped = Len(view.burns.dropped)
               /\ Status.predicted = Len(Conjunctions("predicted", All))
               /\ Status.totals = view.propagation.totals
      OBVIOUS
    <3>1. view = Views
      BY DEF ViewInv
    <3>2. /\ view.predicted = predicted /\ view.burns.pending = queue
          /\ view.burns.dropped = dropped /\ view.propagation.totals = totals.all
      BY <3>1 DEF Views, BurnsView, PropagationView
    <3>3. Conjunctions("predicted", All) = view.predicted
      BY DEF Conjunctions
    <3>4. /\ Status.pending = Len(queue) /\ Status.dropped = Len(dropped)
          /\ Status.predicted = Len(predicted) /\ Status.totals = totals.all
      BY DEF Status
    <3> QED BY <3>1, <3>2, <3>3, <3>4
  <2>2. Late = tick + Flag(worker = "unlocked") /\ Status.tick = tick /\ Late \in Nat
    BY DEF Late, Status, Flag, StoreInv
  <2>3. predicted \in Seq(Meeting) /\ events \in Seq(Meeting)
        /\ DOMAIN events = 1..Len(events)
    BY ElementsOf DEF StoreInv
  <2>4. \A c \in ToSet(Conjunctions("combined", All)) : c.tick <= Late
    <3> DEFINE both == predicted \o events
               set == {c \in ToSet(both) : All = All \/ c.sat = All}
    <3>1. Conjunctions("combined", All) = Among(both, set)
      BY DEF Conjunctions, OfSat
    <3>2. both \in Seq(Meeting) /\ ToSet(both) = ToSet(predicted) \cup ToSet(events)
      BY <2>3, ConcatElements
    <3>3. ToSet(Among(both, set)) \subseteq ToSet(both)
      <4> HIDE DEF both, set
      <4>1. Drawn(Among(both, set), Meeting, both, set)
        BY <3>2, AmongProperties
      <4> QED BY <4>1 DEF Drawn
    <3>4. \A c \in ToSet(predicted) : c.tick = 0
      BY <2>3, ElementsOf DEF TickInv
    <3>5. \A c \in ToSet(events) : c.tick <= Late
      BY <2>3, ElementsOf DEF TickInv
    <3> HIDE DEF both, set
    <3> QED BY <2>2, <3>1, <3>2, <3>3, <3>4, <3>5
  <2>5. \A s \in Sats : Conjunctions("predictive", s) = OfSat(predicted, s)
    BY HistoryAssumption DEF Conjunctions
  <2>6. /\ \A i, j \in DOMAIN events : i < j => events[i].tick <= events[j].tick
        /\ \A b, c \in born :
             b.id = c.id /\ b.kind # "manual" /\ c.kind # "manual" => b = c
    BY <2>3 DEF TickInv
  <2> QED BY <2>1, <2>2, <2>4, <2>5, <2>6 DEF EndpointsAgree
<1> QED BY <1>1, HistoriesInvariant, PTL
=============================================================================
