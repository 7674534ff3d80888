---------------------------- MODULE FoldTheorems ----------------------------
(***************************************************************************)
(* Induction over data, stated without an operator parameter so that every *)
(* prover can use it: a property is the set of numbers it holds of. From   *)
(* it, what FoldLeft of the community modules computes: a run of partial   *)
(* results, one for each prefix of the sequence.                           *)
(*                                                                         *)
(* FoldLeft is defined by a recursive function on sets of indices (iter in *)
(* MapThenFoldSet). FoldTable says that such a function exists, FoldRun    *)
(* reads the run off any such function; a proof about a fold applies both  *)
(* to the operation it folds.                                              *)
(***************************************************************************)
EXTENDS Integers, SequencesExt, SequenceFilter, FiniteSetTheorems, SequenceTheorems, TLAPS

-----------------------------------------------------------------------------
(* Induction.                                                              *)

(* The initial segments of Nat are well founded by inclusion.              *)
LEMMA LeastNatural ==
  ASSUME NEW B \in SUBSET Nat, B # {}
  PROVE  \E m \in B : \A k \in B : m <= k
<1> DEFINE Below == {0..k : k \in B}
<1>1. \A k \in Nat : 0..k \in FiniteSubsetsOf(Nat)
  BY FS_Interval DEF FiniteSubsetsOf
<1>2. Below \subseteq FiniteSubsetsOf(Nat) /\ Below # {}
  BY <1>1
<1>3. PICK x \in Below : \A y \in Below : <<y, x>> \notin StrictSubsetOrdering(Nat)
  <2> HIDE DEF Below
  <2> QED BY <1>2, FS_StrictSubsetOrderingWellFounded, WFMin
<1>4. PICK m \in B : x = 0..m
  BY <1>3
<1>5. ASSUME NEW k \in B, k < m PROVE FALSE
  <2>1. 0..k \subseteq 0..m /\ m \in 0..m /\ m \notin 0..k
    BY <1>5
  <2>2. <<0..k, 0..m>> \in StrictSubsetOrdering(Nat)
    BY <2>1 DEF StrictSubsetOrdering
  <2> QED BY <2>2, <1>3, <1>4
<1> QED BY <1>5

(* G is the set of numbers the property holds of.                          *)
LEMMA UpTo ==
  ASSUME NEW n \in Nat, NEW G, 0 \in G,
         \A k \in 0..(n - 1) : k \in G => k + 1 \in G
  PROVE  \A k \in 0..n : k \in G
<1> DEFINE B == (0..n) \ G
<1>1. SUFFICES ASSUME B # {} PROVE FALSE
  OBVIOUS
<1>2. PICK m \in B : \A k \in B : m <= k
  <2> B \in SUBSET Nat
    OBVIOUS
  <2> HIDE DEF B
  <2> QED BY <1>1, LeastNatural
<1>3. m - 1 \in 0..(n - 1)
  BY <1>2
<1> QED
  BY <1>2, <1>3

-----------------------------------------------------------------------------
(* What Append and concatenation do to length, elements and set.           *)

(* A sequence and the set of its elements.                                 *)
LEMMA ElementsOf ==
  ASSUME NEW V, NEW seq \in Seq(V)
  PROVE  /\ Len(seq) \in Nat /\ DOMAIN seq = 1..Len(seq)
         /\ ToSet(seq) \subseteq V
         /\ \A i \in 1..Len(seq) : seq[i] \in V /\ seq[i] \in ToSet(seq)
         /\ \A x \in ToSet(seq) : \E i \in 1..Len(seq) : seq[i] = x
BY DEF ToSet

LEMMA AppendElements ==
  ASSUME NEW V, NEW o \in Seq(V), NEW x \in V
  PROVE  /\ Append(o, x) \in Seq(V)
         /\ Len(Append(o, x)) = Len(o) + 1 /\ Len(o) \in Nat
         /\ Append(o, x)[Len(o) + 1] = x
         /\ \A j \in 1..Len(o) : Append(o, x)[j] = o[j]
         /\ ToSet(Append(o, x)) = ToSet(o) \cup {x}
<1>1. /\ Append(o, x) \in Seq(V)
      /\ Len(Append(o, x)) = Len(o) + 1 /\ Len(o) \in Nat
      /\ Append(o, x)[Len(o) + 1] = x
      /\ \A j \in 1..Len(o) : Append(o, x)[j] = o[j]
      /\ DOMAIN Append(o, x) = 1..(Len(o) + 1) /\ DOMAIN o = 1..Len(o)
  OBVIOUS
<1>2. ToSet(Append(o, x)) = ToSet(o) \cup {x}
  <2>1. 1..(Len(o) + 1) = (1..Len(o)) \cup {Len(o) + 1}
    BY <1>1
  <2> DEFINE p == Append(o, x)
             l == Len(o) + 1
  <2>2. /\ DOMAIN p = (1..Len(o)) \cup {l} /\ p[l] = x
        /\ \A j \in 1..Len(o) : p[j] = o[j]
    BY <1>1, <2>1
  <2> HIDE DEF p, l
  <2>3. {p[j] : j \in DOMAIN p} = {o[j] : j \in 1..Len(o)} \cup {x}
    BY <2>2
  <2> QED BY <1>1, <2>3 DEF ToSet, p
<1> QED BY <1>1, <1>2

LEMMA ConcatElements ==
  ASSUME NEW V, NEW p \in Seq(V), NEW q \in Seq(V)
  PROVE  /\ p \o q \in Seq(V)
         /\ Len(p \o q) = Len(p) + Len(q) /\ Len(p) \in Nat /\ Len(q) \in Nat
         /\ \A i \in 1..Len(p) : (p \o q)[i] = p[i]
         /\ \A i \in 1..Len(q) : (p \o q)[i + Len(p)] = q[i]
         /\ ToSet(p \o q) = ToSet(p) \cup ToSet(q)
<1>1. /\ p \o q \in Seq(V)
      /\ Len(p \o q) = Len(p) + Len(q) /\ Len(p) \in Nat /\ Len(q) \in Nat
      /\ \A i \in 1..Len(p) : (p \o q)[i] = p[i]
      /\ \A i \in (Len(p) + 1)..(Len(p) + Len(q)) : (p \o q)[i] = q[i - Len(p)]
      /\ DOMAIN p = 1..Len(p) /\ DOMAIN q = 1..Len(q)
      /\ DOMAIN (p \o q) = 1..Len(p \o q)
  OBVIOUS
<1>2. \A i \in 1..Len(q) : (p \o q)[i + Len(p)] = q[i]
  BY <1>1
<1>3. ToSet(p \o q) \subseteq ToSet(p) \cup ToSet(q)
  <2> SUFFICES ASSUME NEW i \in DOMAIN (p \o q)
      PROVE  (p \o q)[i] \in ToSet(p) \cup ToSet(q)
    BY DEF ToSet
  <2>1. CASE i <= Len(p)
    BY <1>1, <2>1 DEF ToSet
  <2>2. CASE i > Len(p)
    BY <1>1, <2>2 DEF ToSet
  <2> QED BY <1>1, <2>1, <2>2
<1>4. ToSet(p) \cup ToSet(q) \subseteq ToSet(p \o q)
  <2>1. ASSUME NEW i \in DOMAIN p PROVE p[i] \in ToSet(p \o q)
    BY <1>1 DEF ToSet
  <2>2. ASSUME NEW i \in DOMAIN q PROVE q[i] \in ToSet(p \o q)
    <3>1. i + Len(p) \in DOMAIN (p \o q) /\ (p \o q)[i + Len(p)] = q[i]
      BY <1>1, <1>2
    <3> QED BY <3>1 DEF ToSet
  <2> QED BY <2>1, <2>2 DEF ToSet
<1> QED BY <1>1, <1>2, <1>3, <1>4

-----------------------------------------------------------------------------
(* Folds.                                                                  *)

LEMMA SegmentMax ==
  ASSUME NEW k \in Nat \ {0}
  PROVE  1..k # {} /\ Max(1..k) = k /\ (1..k) \ {Max(1..k)} = 1..(k - 1)
<1>1. k \in 1..k /\ \A y \in 1..k : k >= y
  OBVIOUS
<1>2. \A x \in 1..k : (\A y \in 1..k : x >= y) => x = k
  BY <1>1
<1>3. Max(1..k) = k
  BY <1>1, <1>2 DEF Max
<1> QED
  BY <1>1, <1>3

LEMMA SetMax ==
  ASSUME NEW n \in Nat, NEW s \in SUBSET (1..n), s # {}
  PROVE  Max(s) \in s /\ \A y \in s : Max(s) >= y
<1> DEFINE B == {n - x : x \in s}
<1>1. B \in SUBSET Nat /\ B # {}
  <2>1. \A x \in s : n - x \in Nat
    OBVIOUS
  <2> QED BY <2>1
<1>2. PICK m \in B : \A k \in B : m <= k
  <2> HIDE DEF B
  <2> QED BY <1>1, LeastNatural
<1>3. PICK x \in s : m = n - x
  BY <1>2
<1>4. \A y \in s : x >= y
  <2>1. \A y \in s : n - y \in B
    OBVIOUS
  <2> HIDE DEF B
  <2> QED BY <1>2, <1>3, <2>1
<1> QED
  BY <1>3, <1>4 DEF Max

(* base, F and V stand for the fold's base, its operation and the values   *)
(* it goes through. A table holds a partial result for each set of indices.*)
Foldable(n, V, base, F) == n \in Nat /\ base \in V /\ F \in [1..n -> [V -> V]]

IsTable(g, n, V, base, F) ==
  /\ g \in [SUBSET (1..n) -> V]
  /\ \A s \in SUBSET (1..n) :
       g[s] = IF s = {} THEN base ELSE F[Max(s)][g[s \ {Max(s)}]]

(* A run holds the partial results of a prefix of each length.             *)
IsRun(run, n, V, base, F) ==
  /\ run \in [0..n -> V]
  /\ run[0] = base
  /\ \A k \in 1..n : run[k] = F[k][run[k - 1]]

(* The fold's recursion has a solution.                                    *)
LEMMA FoldTable ==
  ASSUME NEW n, NEW V, NEW base, NEW F, Foldable(n, V, base, F)
  PROVE  \E g : IsTable(g, n, V, base, F)
<1> USE DEF Foldable
<1> DEFINE Table(k, g) ==
      \A s \in SUBSET (1..k) :
        g[s] = IF s = {} THEN base ELSE F[Max(s)][g[s \ {Max(s)}]]
<1> DEFINE Has(k) == \E g \in [SUBSET (1..k) -> V] : Table(k, g)
<1>1. Has(0)
  <2> DEFINE g == [s \in SUBSET (1..0) |-> base]
  <2>1. g \in [SUBSET (1..0) -> V] /\ Table(0, g)
    OBVIOUS
  <2> HIDE DEF g
  <2> QED BY <2>1
<1>2. ASSUME NEW k \in 0..(n - 1), Has(k) PROVE Has(k + 1)
  <2>1. PICK g \in [SUBSET (1..k) -> V] : Table(k, g)
    BY <1>2
  <2> DEFINE h == [s \in SUBSET (1..(k + 1)) |->
                     IF k + 1 \in s THEN F[k + 1][g[s \ {k + 1}]] ELSE g[s]]
  <2>2. \A s \in SUBSET (1..(k + 1)) :
          /\ s \ {k + 1} \in SUBSET (1..k)
          /\ k + 1 \notin s => s \in SUBSET (1..k)
    OBVIOUS
  <2>3. h \in [SUBSET (1..(k + 1)) -> V]
    BY <2>1, <2>2
  <2>4. \A s \in SUBSET (1..k) : h[s] = g[s]
    OBVIOUS
  <2>5. ASSUME NEW s \in SUBSET (1..(k + 1))
        PROVE  h[s] = IF s = {} THEN base ELSE F[Max(s)][h[s \ {Max(s)}]]
    <3>1. CASE k + 1 \in s
      <4>1. Max(s) = k + 1
        <5>1. s \in SUBSET Nat /\ \A y \in s : k + 1 >= y
          OBVIOUS
        <5>2. \A x \in s : (\A y \in s : x >= y) => x = k + 1
          BY <3>1, <5>1
        <5> QED BY <3>1, <5>1, <5>2 DEF Max
      <4>2. s \ {k + 1} \in SUBSET (1..k)
        BY <2>2
      <4> QED BY <3>1, <4>1, <4>2, <2>4
    <3>2. CASE k + 1 \notin s
      <4>1. s \in SUBSET (1..k)
        BY <3>2, <2>2
      <4>2. s \ {Max(s)} \in SUBSET (1..k)
        BY <4>1
      <4> QED BY <4>1, <4>2, <2>1, <2>4
    <3> QED BY <3>1, <3>2
  <2>6. \E f \in [SUBSET (1..(k + 1)) -> V] : Table(k + 1, f)
    <3> HIDE DEF h
    <3> QED BY <2>3, <2>5
  <2> QED BY <2>6
<1>3. \A k \in 0..n : Has(k)
  <2> HIDE DEF Has
  <2> DEFINE G == {k \in 0..n : Has(k)}
  <2>1. 0 \in G /\ \A k \in 0..(n - 1) : k \in G => k + 1 \in G
    BY <1>1, <1>2
  <2>2. \A k \in 0..n : k \in G
    <3> HIDE DEF G
    <3> QED BY <2>1, UpTo
  <2> QED BY <2>2
<1>4. Has(n)
  <2> HIDE DEF Has
  <2> QED BY <1>3
<1> QED
  BY <1>4 DEF IsTable

(* Any solution of the fold's equation goes through a run of V.            *)
LEMMA FoldRun ==
  ASSUME NEW n, NEW V, NEW base, NEW F, Foldable(n, V, base, F),
         NEW g, g[{}] = base,
         \A k \in 1..n : g[1..(k - 1)] \in V => g[1..k] = F[k][g[1..(k - 1)]]
  PROVE  \E run : IsRun(run, n, V, base, F) /\ run[n] = g[1..n]
<1> USE DEF Foldable
<1> DEFINE G == {k \in 0..n : g[1..k] \in V}
<1>1. 0 \in G
  <2>1. 1..0 = {}
    OBVIOUS
  <2> QED BY <2>1
<1>2. ASSUME NEW k \in 0..(n - 1), k \in G PROVE k + 1 \in G
  <2>1. k + 1 \in 1..n /\ (k + 1) - 1 = k
    OBVIOUS
  <2>2. g[1..(k + 1)] = F[k + 1][g[1..k]]
    BY <1>2, <2>1
  <2> QED BY <1>2, <2>1, <2>2
<1>3. \A k \in 0..n : k \in G
  <2> HIDE DEF G
  <2> QED BY <1>1, <1>2, UpTo
<1> DEFINE run == [k \in 0..n |-> g[1..k]]
<1>4. run \in [0..n -> V]
  BY <1>3
<1>5. run[0] = base
  <2>1. 1..0 = {}
    OBVIOUS
  <2> QED BY <2>1
<1>6. \A k \in 1..n : k - 1 \in 0..n /\ run[k] = F[k][run[k - 1]]
  BY <1>3
<1>7. run[n] = g[1..n]
  OBVIOUS
<1> HIDE DEF run
<1> QED
  BY <1>4, <1>5, <1>6, <1>7 DEF IsRun

-----------------------------------------------------------------------------
(* The elements of a set.                                                  *)

(* The recursion of Among, and its partial results.                        *)
Filtering(h, seq, set) ==
  h = [s \in SUBSET (DOMAIN seq) |->
         IF s = {} THEN << >>
         ELSE IF seq[Max(s)] \in set THEN Append(h[s \ {Max(s)}], seq[Max(s)])
         ELSE h[s \ {Max(s)}]]

(* What Among evaluates to solves its recursion. *)
LEMMA AmongTable ==
  ASSUME NEW seq, NEW set, \E g : Filtering(g, seq, set)
  PROVE  \E h : Among(seq, set) = h[DOMAIN seq] /\ Filtering(h, seq, set)
BY DEF Among, FoldLeft, MapThenFoldSet, Filtering

IsFiltering(run, V, seq, set) ==
  /\ run \in [0..Len(seq) -> Seq(V)]
  /\ run[0] = << >>
  /\ \A k \in 1..Len(seq) :
       run[k] = IF seq[k] \in set THEN Append(run[k - 1], seq[k]) ELSE run[k - 1]
  /\ run[Len(seq)] = Among(seq, set)

(* Among is the end of the run of its partial results. *)
LEMMA AmongRun ==
  ASSUME NEW V, NEW seq \in Seq(V), NEW set
  PROVE  \E run : IsFiltering(run, V, seq, set)
<1> DEFINE n == Len(seq)
           Take(v, x) == IF x \in set THEN Append(v, x) ELSE v
           F == [k \in 1..n |-> [v \in Seq(V) |-> Take(v, seq[k])]]
<1>1. n \in Nat /\ DOMAIN seq = 1..n /\ \A k \in 1..n : seq[k] \in V
  OBVIOUS
<1>2. \A v \in Seq(V), x \in V : Take(v, x) \in Seq(V)
  OBVIOUS
<1>3. << >> \in Seq(V)
  OBVIOUS
<1>4. F \in [1..n -> [Seq(V) -> Seq(V)]]
  <2> HIDE DEF Take
  <2> QED BY <1>1, <1>2
<1>5. \A k \in 1..n, v \in Seq(V) : F[k][v] = Take(v, seq[k])
  <2> HIDE DEF Take
  <2> QED OBVIOUS
<1> HIDE DEF F, n
<1>6. Foldable(n, Seq(V), << >>, F)
  BY <1>1, <1>3, <1>4 DEF Foldable
<1>7. PICK g : IsTable(g, n, Seq(V), << >>, F)
  BY <1>6, FoldTable
<1>8. Filtering(g, seq, set)
  <2>1. ASSUME NEW s \in SUBSET (1..n), s # {}
        PROVE  g[s] = Take(g[s \ {Max(s)}], seq[Max(s)])
    <3>1. Max(s) \in 1..n
      BY <1>1, <2>1, SetMax
    <3>2. g[s \ {Max(s)}] \in Seq(V)
      BY <1>7 DEF IsTable
    <3> HIDE DEF Take
    <3> QED BY <1>5, <1>7, <2>1, <3>1, <3>2 DEF IsTable
  <2> QED BY <1>1, <1>7, <2>1 DEF IsTable, Filtering
<1>9. PICK h : Among(seq, set) = h[DOMAIN seq] /\ Filtering(h, seq, set)
  BY <1>8, AmongTable
<1>10. h[{}] = << >>
  BY <1>9 DEF Filtering
<1>11. ASSUME NEW k \in 1..n, h[1..(k - 1)] \in Seq(V)
       PROVE  h[1..k] = F[k][h[1..(k - 1)]]
  <2>1. 1..k # {} /\ Max(1..k) = k /\ (1..k) \ {Max(1..k)} = 1..(k - 1)
    BY SegmentMax
  <2>2. 1..k \in SUBSET (1..n)
    BY <1>1
  <2>3. h[1..k] = Take(h[1..(k - 1)], seq[k])
    BY <1>1, <1>9, <2>1, <2>2 DEF Filtering
  <2> HIDE DEF Take
  <2> QED BY <1>5, <1>11, <2>3
<1>12. PICK run : IsRun(run, n, Seq(V), << >>, F) /\ run[n] = h[1..n]
  BY <1>6, <1>10, <1>11, FoldRun
<1>13. \A k \in 1..n : run[k - 1] \in Seq(V)
  BY <1>1, <1>12 DEF IsRun
<1>14. \A k \in 1..n : run[k] = Take(run[k - 1], seq[k])
  <2> HIDE DEF Take
  <2> QED BY <1>5, <1>12, <1>13 DEF IsRun
<1> QED
  BY <1>1, <1>9, <1>12, <1>14 DEF IsRun, IsFiltering, n

Drawn(out, V, seq, set) ==
  /\ out \in Seq(V) /\ Len(out) <= Len(seq)
  /\ ToSet(out) = {x \in ToSet(seq) : x \in set}
  /\ \A m \in 1..Len(seq) : seq[m] \in set =>
       \E j \in 1..Len(out) : out[j] = seq[m] /\ Len(out) - j <= Len(seq) - m

(* Among keeps exactly the elements of the set, no further from the end. *)
LEMMA AmongProperties ==
  ASSUME NEW V, NEW seq \in Seq(V), NEW set
  PROVE  Drawn(Among(seq, set), V, seq, set)
<1>1. PICK run : IsFiltering(run, V, seq, set)
  BY AmongRun
<1> USE <1>1 DEF IsFiltering
<1>2. Len(seq) \in Nat /\ DOMAIN seq = 1..Len(seq) /\ \A k \in 1..Len(seq) : seq[k] \in V
  OBVIOUS
<1> DEFINE Has(k) ==
             /\ Len(run[k]) <= k
             /\ ToSet(run[k]) = {x \in V : x \in set /\ \E m \in 1..k : seq[m] = x}
             /\ \A m \in 1..k : seq[m] \in set =>
                  \E j \in 1..Len(run[k]) :
                    run[k][j] = seq[m] /\ Len(run[k]) - j <= k - m
<1>3. Has(0)
  <2>1. Len(run[0]) = 0 /\ ToSet(run[0]) = {} /\ 1..0 = {}
    BY <1>1 DEF ToSet
  <2> QED BY <2>1
<1>4. ASSUME NEW k \in 0..(Len(seq) - 1), Has(k) PROVE Has(k + 1)
  <2> DEFINE o == run[k]
             x == seq[k + 1]
  <2>1. /\ k + 1 \in 1..Len(seq) /\ (k + 1) - 1 = k /\ k \in Nat
        /\ o \in Seq(V) /\ x \in V
    <3>1. k + 1 \in 1..Len(seq) /\ (k + 1) - 1 = k /\ k \in Nat /\ k \in 0..Len(seq)
      BY <1>2
    <3>2. o \in Seq(V)
      BY <1>1, <3>1
    <3> QED BY <1>2, <3>1, <3>2
  <2>2. 1..(k + 1) = (1..k) \cup {k + 1}
    BY <2>1
  <2>3. CASE x \in set
    <3>1. run[k + 1] = Append(o, x)
      BY <1>1, <2>1, <2>3
    <3> HIDE DEF o, x
    <3>2. /\ Len(Append(o, x)) = Len(o) + 1 /\ Len(o) \in Nat
          /\ Append(o, x)[Len(o) + 1] = x
          /\ \A j \in 1..Len(o) : Append(o, x)[j] = o[j]
          /\ ToSet(Append(o, x)) = ToSet(o) \cup {x}
      BY <2>1, AppendElements
    <3>3. Len(run[k + 1]) <= k + 1
      BY <1>4, <2>1, <3>1, <3>2 DEF o
    <3>4. ToSet(run[k + 1]) = {y \in V : y \in set /\ \E m \in 1..(k + 1) : seq[m] = y}
      <4>1. ToSet(o) = {y \in V : y \in set /\ \E m \in 1..k : seq[m] = y}
        BY <1>4 DEF o
      <4> QED BY <2>1, <2>2, <2>3, <3>1, <3>2, <4>1 DEF x
    <3>5. ASSUME NEW m \in 1..(k + 1), seq[m] \in set
          PROVE  \E j \in 1..Len(run[k + 1]) :
                   /\ run[k + 1][j] = seq[m]
                   /\ Len(run[k + 1]) - j <= (k + 1) - m
      <4>1. CASE m = k + 1
        <5>1. /\ Len(o) + 1 \in 1..Len(run[k + 1]) /\ run[k + 1][Len(o) + 1] = seq[m]
              /\ Len(run[k + 1]) - (Len(o) + 1) <= (k + 1) - m
          BY <2>1, <3>1, <3>2, <4>1 DEF x
        <5> QED BY <5>1
      <4>2. CASE m # k + 1
        <5>1. m \in 1..k
          BY <2>1, <4>2
        <5>2. PICK j \in 1..Len(o) : o[j] = seq[m] /\ Len(o) - j <= k - m
          BY <1>4, <3>5, <5>1 DEF o
        <5>3. /\ j \in 1..Len(run[k + 1]) /\ run[k + 1][j] = seq[m]
              /\ Len(run[k + 1]) - j <= (k + 1) - m
          BY <2>1, <3>1, <3>2, <5>1, <5>2
        <5> QED BY <5>3
      <4> QED BY <4>1, <4>2
    <3> QED BY <3>3, <3>4, <3>5
  <2>4. CASE x \notin set
    <3>1. run[k + 1] = o
      BY <1>1, <2>1, <2>4
    <3> HIDE DEF o, x
    <3>2. Len(run[k + 1]) <= k + 1 /\ Len(o) \in Nat
      BY <1>4, <2>1, <3>1 DEF o
    <3>3. ToSet(run[k + 1]) = {y \in V : y \in set /\ \E m \in 1..(k + 1) : seq[m] = y}
      <4>1. ToSet(o) = {y \in V : y \in set /\ \E m \in 1..k : seq[m] = y}
        BY <1>4 DEF o
      <4> QED BY <2>2, <2>4, <3>1, <4>1 DEF x
    <3>4. ASSUME NEW m \in 1..(k + 1), seq[m] \in set
          PROVE  \E j \in 1..Len(run[k + 1]) :
                   /\ run[k + 1][j] = seq[m]
                   /\ Len(run[k + 1]) - j <= (k + 1) - m
      <4>1. m \in 1..k
        <5>1. m # k + 1
          BY <2>4, <3>4 DEF x
        <5> QED BY <2>1, <5>1
      <4>2. PICK j \in 1..Len(o) : o[j] = seq[m] /\ Len(o) - j <= k - m
        BY <1>4, <3>4, <4>1 DEF o
      <4>3. Len(o) - j <= (k + 1) - m
        BY <2>1, <3>2, <4>1, <4>2
      <4> QED BY <3>1, <4>2, <4>3
    <3> QED BY <3>2, <3>3, <3>4
  <2> QED BY <2>3, <2>4
<1>5. Has(Len(seq))
  <2> HIDE DEF Has
  <2> DEFINE G == {k \in 0..Len(seq) : Has(k)}
  <2>1. 0 \in G /\ \A k \in 0..(Len(seq) - 1) : k \in G => k + 1 \in G
    BY <1>2, <1>3, <1>4
  <2>2. \A k \in 0..Len(seq) : k \in G
    <3> HIDE DEF G
    <3> QED BY <1>2, <2>1, UpTo
  <2> QED BY <1>2, <2>2
<1> DEFINE among == Among(seq, set)
<1>6. among \in Seq(V)
  BY <1>1, <1>2
<1>7. ToSet(among) = {x \in ToSet(seq) : x \in set}
  <2>1. ToSet(seq) = {x \in V : \E m \in 1..Len(seq) : seq[m] = x}
    BY <1>2 DEF ToSet
  <2> HIDE DEF among
  <2> QED BY <1>1, <1>5, <2>1 DEF among
<1> QED
  BY <1>1, <1>5, <1>6, <1>7 DEF Drawn

(* Last d elements, and the first d.                                       *)
IsEnd(out, seq, d) ==
  /\ Len(out) = Len(seq) - d
  /\ \A j \in 1..Len(out) : out[j] = seq[j + d]

IsBeginning(out, seq, d) ==
  /\ Len(out) = d
  /\ \A j \in 1..d : out[j] = seq[j]

(* Of a set that holds every element after one of its own, Among keeps the *)
(* end of the sequence.                                                    *)
LEMMA AmongSuffix ==
  ASSUME NEW V, NEW seq \in Seq(V), NEW set,
         \A i, j \in 1..Len(seq) : i < j /\ seq[i] \in set => seq[j] \in set
  PROVE  \E d \in 0..Len(seq) :
           /\ IsEnd(Among(seq, set), seq, d)
           /\ \A i \in 1..Len(seq) : seq[i] \in set <=> d < i
<1> DEFINE n == Len(seq)
<1>1. PICK run : IsFiltering(run, V, seq, set)
  BY AmongRun
<1>2. n \in Nat /\ \A k \in 1..n : seq[k] \in V
  OBVIOUS
<1> DEFINE Ends(k, d) ==
             /\ d \in 0..k /\ Len(run[k]) = k - d
             /\ \A j \in 1..(k - d) : run[k][j] = seq[j + d]
             /\ \A i \in 1..k : seq[i] \in set <=> d < i
           G == {k \in 0..n : \E d \in 0..k : Ends(k, d)}
<1> HIDE DEF n
<1>3. 0 \in G
  <2>1. Len(run[0]) = 0 /\ 1..0 = {} /\ 0 \in 0..n /\ 0 \in 0..0
    BY <1>1, <1>2 DEF IsFiltering
  <2>2. Ends(0, 0)
    BY <2>1
  <2> HIDE DEF Ends
  <2> QED BY <2>1, <2>2
<1>4. ASSUME NEW k \in 0..(n - 1), k \in G PROVE k + 1 \in G
  <2>1. k \in Nat /\ k + 1 \in 1..n /\ k + 1 \in 0..n /\ (k + 1) - 1 = k /\ k \in 0..n
    BY <1>2
  <2>2. PICK d \in 0..k : Ends(k, d)
    <3> HIDE DEF Ends
    <3> QED BY <1>4
  <2> DEFINE o == run[k]
             x == seq[k + 1]
  <2>3. o \in Seq(V) /\ x \in V
    BY <1>1, <1>2, <2>1 DEF IsFiltering, n
  <2>4. run[k + 1] = IF x \in set THEN Append(o, x) ELSE o
    BY <1>1, <2>1 DEF IsFiltering, n
  <2>5. CASE x \in set
    <3>1. run[k + 1] = Append(o, x)
      BY <2>4, <2>5
    <3>2. /\ Len(run[k + 1]) = (k + 1) - d
          /\ run[k + 1][(k + 1) - d] = seq[k + 1]
          /\ \A j \in 1..(k - d) : run[k + 1][j] = seq[j + d]
      <4> HIDE DEF o, x
      <4>1. /\ Len(Append(o, x)) = Len(o) + 1
            /\ Append(o, x)[Len(o) + 1] = x
            /\ \A j \in 1..Len(o) : Append(o, x)[j] = o[j]
        BY <2>3, AppendElements
      <4>2. Len(o) = k - d /\ \A j \in 1..(k - d) : o[j] = seq[j + d]
        BY <2>2 DEF o
      <4>3. (k + 1) - d = (k - d) + 1
        BY <2>1
      <4> QED BY <3>1, <4>1, <4>2, <4>3 DEF x
    <3>3. \A j \in 1..((k + 1) - d) : run[k + 1][j] = seq[j + d]
      <4>1. \A j \in 1..((k + 1) - d) :
              j \in 1..(k - d) \/ (j = (k + 1) - d /\ j + d = k + 1)
        BY <2>1
      <4> QED BY <3>2, <4>1
    <3>4. \A i \in 1..(k + 1) : seq[i] \in set <=> d < i
      <4>1. \A i \in 1..(k + 1) : i \in 1..k \/ i = k + 1
        BY <2>1
      <4> QED BY <2>1, <2>2, <2>5, <4>1
    <3>5. d \in 0..(k + 1) /\ Ends(k + 1, d)
      BY <2>1, <3>2, <3>3, <3>4
    <3> HIDE DEF Ends
    <3> QED BY <2>1, <3>5
  <2>6. CASE x \notin set
    <3>1. run[k + 1] = o
      BY <2>4, <2>6
    <3>2. \A i \in 1..k : seq[i] \notin set
      <4>1. \A i \in 1..k : i \in 1..n /\ i < k + 1
        BY <1>2, <2>1
      <4> QED BY <2>1, <2>6, <4>1 DEF n
    <3>3. d = k
      <4>1. k # 0 => k \in 1..k
        BY <2>1
      <4> QED BY <2>1, <2>2, <3>2, <4>1
    <3>4. Len(run[k + 1]) = 0
      BY <2>1, <2>2, <3>1, <3>3
    <3>5. \A i \in 1..(k + 1) : seq[i] \notin set
      <4>1. \A i \in 1..(k + 1) : i \in 1..k \/ i = k + 1
        BY <2>1
      <4> QED BY <2>6, <3>2, <4>1
    <3>6. k + 1 \in 0..(k + 1) /\ (k + 1) - (k + 1) = 0 /\ 1..0 = {}
          /\ \A i \in 1..(k + 1) : ~(k + 1 < i)
      BY <2>1
    <3>7. Ends(k + 1, k + 1)
      BY <3>4, <3>5, <3>6
    <3> HIDE DEF Ends
    <3> QED BY <2>1, <3>6, <3>7
  <2> QED BY <2>5, <2>6
<1>5. \A k \in 0..n : k \in G
  <2> HIDE DEF G
  <2> QED BY <1>2, <1>3, <1>4, UpTo
<1>6. n \in 0..n
  BY <1>2
<1>7. PICK d \in 0..n : Ends(n, d)
  <2> HIDE DEF Ends
  <2> QED BY <1>5, <1>6
<1>8. run[n] = Among(seq, set)
  BY <1>1 DEF IsFiltering, n
<1>9. IsEnd(Among(seq, set), seq, d)
  BY <1>7, <1>8 DEF IsEnd, n
<1>10. \A i \in 1..n : seq[i] \in set <=> d < i
  BY <1>7
<1> QED BY <1>9, <1>10 DEF n

(* Of a set that holds every element before one of its own, it keeps the   *)
(* beginning.                                                              *)
LEMMA AmongPrefix ==
  ASSUME NEW V, NEW seq \in Seq(V), NEW set,
         \A i, j \in 1..Len(seq) : i < j /\ seq[j] \in set => seq[i] \in set
  PROVE  \E d \in 0..Len(seq) :
           /\ IsBeginning(Among(seq, set), seq, d)
           /\ \A i \in 1..Len(seq) : seq[i] \in set <=> i <= d
<1> DEFINE n == Len(seq)
<1>1. PICK run : IsFiltering(run, V, seq, set)
  BY AmongRun
<1>2. n \in Nat /\ \A k \in 1..n : seq[k] \in V
  OBVIOUS
<1> DEFINE Begins(k, d) ==
             /\ d \in 0..k /\ Len(run[k]) = d
             /\ \A j \in 1..d : run[k][j] = seq[j]
             /\ \A i \in 1..k : seq[i] \in set <=> i <= d
           G == {k \in 0..n : \E d \in 0..k : Begins(k, d)}
<1> HIDE DEF n
<1>3. 0 \in G
  <2>1. Len(run[0]) = 0 /\ 1..0 = {} /\ 0 \in 0..n /\ 0 \in 0..0
    BY <1>1, <1>2 DEF IsFiltering
  <2>2. Begins(0, 0)
    BY <2>1
  <2> HIDE DEF Begins
  <2> QED BY <2>1, <2>2
<1>4. ASSUME NEW k \in 0..(n - 1), k \in G PROVE k + 1 \in G
  <2>1. k \in Nat /\ k + 1 \in 1..n /\ k + 1 \in 0..n /\ (k + 1) - 1 = k /\ k \in 0..n
    BY <1>2
  <2>2. PICK d \in 0..k : Begins(k, d)
    <3> HIDE DEF Begins
    <3> QED BY <1>4
  <2> DEFINE o == run[k]
             x == seq[k + 1]
  <2>3. o \in Seq(V) /\ x \in V
    BY <1>1, <1>2, <2>1 DEF IsFiltering, n
  <2>4. run[k + 1] = IF x \in set THEN Append(o, x) ELSE o
    BY <1>1, <2>1 DEF IsFiltering, n
  <2>0. \A i \in 1..(k + 1) : i \in 1..k \/ i = k + 1
    BY <2>1
  <2>5. CASE x \in set
    <3>1. run[k + 1] = Append(o, x)
      BY <2>4, <2>5
    <3>2. \A i \in 1..k : seq[i] \in set
      <4>1. \A i \in 1..k : i \in 1..n /\ i < k + 1
        BY <1>2, <2>1
      <4> QED BY <2>1, <2>5, <4>1 DEF n
    <3>3. d = k
      <4>1. k # 0 => k \in 1..k
        BY <2>1
      <4> QED BY <2>1, <2>2, <3>2, <4>1
    <3>4. /\ Len(run[k + 1]) = k + 1
          /\ run[k + 1][k + 1] = seq[k + 1]
          /\ \A j \in 1..k : run[k + 1][j] = seq[j]
      <4> HIDE DEF o, x
      <4>1. /\ Len(Append(o, x)) = Len(o) + 1
            /\ Append(o, x)[Len(o) + 1] = x
            /\ \A j \in 1..Len(o) : Append(o, x)[j] = o[j]
        BY <2>3, AppendElements
      <4>2. Len(o) = k /\ \A j \in 1..k : o[j] = seq[j]
        BY <2>2, <3>3 DEF o
      <4> QED BY <3>1, <4>1, <4>2 DEF x
    <3>5. \A i \in 1..(k + 1) : seq[i] \in set /\ i <= k + 1
      BY <2>0, <2>1, <2>5, <3>2
    <3>6. k + 1 \in 0..(k + 1)
      BY <2>1
    <3>7. Begins(k + 1, k + 1)
      BY <2>0, <3>4, <3>5, <3>6
    <3> HIDE DEF Begins
    <3> QED BY <2>1, <3>6, <3>7
  <2>6. CASE x \notin set
    <3>1. run[k + 1] = o
      BY <2>4, <2>6
    <3>2. \A i \in 1..(k + 1) : seq[i] \in set <=> i <= d
      BY <2>0, <2>1, <2>2, <2>6
    <3>3. d \in 0..(k + 1) /\ Begins(k + 1, d)
      BY <2>1, <2>2, <3>1, <3>2
    <3> HIDE DEF Begins
    <3> QED BY <2>1, <3>3
  <2> QED BY <2>5, <2>6
<1>5. \A k \in 0..n : k \in G
  <2> HIDE DEF G
  <2> QED BY <1>2, <1>3, <1>4, UpTo
<1>6. n \in 0..n
  BY <1>2
<1>7. PICK d \in 0..n : Begins(n, d)
  <2> HIDE DEF Begins
  <2> QED BY <1>5, <1>6
<1>8. run[n] = Among(seq, set)
  BY <1>1 DEF IsFiltering, n
<1>9. IsBeginning(Among(seq, set), seq, d)
  BY <1>7, <1>8 DEF IsBeginning
<1>10. \A i \in 1..n : seq[i] \in set <=> i <= d
  BY <1>7
<1> QED BY <1>9, <1>10 DEF n

-----------------------------------------------------------------------------
(* The concatenation of a sequence of sequences.                           *)

FlattenRun(f, V, seqs) ==
  /\ f \in [1..Len(seqs) -> Seq(V)]
  /\ \A i \in 1..Len(seqs) : f[i] = IF i = 1 THEN seqs[i] ELSE f[i - 1] \o seqs[i]

Flattening(f, seqs) ==
  f = [i \in 1..Len(seqs) |-> IF i = 1 THEN seqs[i] ELSE f[i - 1] \o seqs[i]]

LEMMA FlattenTable ==
  ASSUME NEW seqs, Len(seqs) # 0, \E f : Flattening(f, seqs)
  PROVE  \E h : FlattenSeq(seqs) = h[Len(seqs)] /\ Flattening(h, seqs)
BY DEF FlattenSeq, Flattening

(* The recursion of FlattenSeq has a solution.                             *)
LEMMA FlattenExists ==
  ASSUME NEW V, NEW seqs \in Seq(Seq(V))
  PROVE  \E f : FlattenRun(f, V, seqs)
<1> DEFINE n == Len(seqs)
           Has(k) == \E f \in [1..k -> Seq(V)] : \A i \in 1..k :
                       f[i] = IF i = 1 THEN seqs[i] ELSE f[i - 1] \o seqs[i]
<1>1. n \in Nat /\ \A i \in 1..n : seqs[i] \in Seq(V)
  OBVIOUS
<1>2. Has(0)
  <2>1. [i \in 1..0 |-> << >>] \in [1..0 -> Seq(V)] /\ 1..0 = {}
    OBVIOUS
  <2> QED BY <2>1
<1>3. ASSUME NEW k \in 0..(n - 1), Has(k) PROVE Has(k + 1)
  <2> HIDE DEF n
  <2>1. k \in Nat /\ k + 1 \in 1..n /\ (k + 1) - 1 = k
    BY <1>1
  <2>2. PICK f \in [1..k -> Seq(V)] : \A i \in 1..k :
               f[i] = IF i = 1 THEN seqs[i] ELSE f[i - 1] \o seqs[i]
    BY <1>3
  <2> DEFINE last == IF k + 1 = 1 THEN seqs[k + 1] ELSE f[k] \o seqs[k + 1]
             h == [i \in 1..(k + 1) |-> IF i = k + 1 THEN last ELSE f[i]]
  <2>3. last \in Seq(V)
    <3>1. CASE k = 0
      BY <1>1, <2>1, <3>1
    <3>2. CASE k # 0
      <4>1. f[k] \in Seq(V) /\ seqs[k + 1] \in Seq(V) /\ k + 1 # 1
        BY <1>1, <2>1, <3>2
      <4> QED BY <4>1
    <3> QED BY <3>1, <3>2
  <2>4. h \in [1..(k + 1) -> Seq(V)]
    <3> HIDE DEF last
    <3> QED BY <2>1, <2>3
  <2>5. \A i \in 1..(k + 1) :
          h[i] = IF i = 1 THEN seqs[i] ELSE h[i - 1] \o seqs[i]
    <3> TAKE i \in 1..(k + 1)
    <3>1. CASE i = k + 1
      <4>1. k # 0 => h[k] = f[k] /\ k + 1 # 1
        BY <2>1
      <4>2. h[k + 1] = last
        BY <2>1
      <4> HIDE DEF h
      <4> QED BY <2>1, <3>1, <4>1, <4>2
    <3>2. CASE i # k + 1
      <4>1. i \in 1..k /\ h[i] = f[i] /\ (i # 1 => h[i - 1] = f[i - 1])
        BY <2>1, <3>2
      <4> HIDE DEF h
      <4> QED BY <2>2, <4>1
    <3> QED BY <3>1, <3>2
  <2> HIDE DEF h
  <2> QED BY <2>4, <2>5
<1>4. Has(n)
  <2> HIDE DEF Has, n
  <2> DEFINE G == {k \in 0..n : Has(k)}
  <2>1. 0 \in G /\ \A k \in 0..(n - 1) : k \in G => k + 1 \in G
    BY <1>1, <1>2, <1>3
  <2>2. \A k \in 0..n : k \in G
    <3> HIDE DEF G
    <3> QED BY <1>1, <2>1, UpTo
  <2> QED BY <1>1, <2>2
<1> QED
  BY <1>4 DEF FlattenRun

(* FlattenSeq is the end of a run of concatenations.                       *)
LEMMA FlattenIsRun ==
  ASSUME NEW V, NEW seqs \in Seq(Seq(V)), Len(seqs) # 0
  PROVE  \E f : FlattenRun(f, V, seqs) /\ FlattenSeq(seqs) = f[Len(seqs)]
<1> DEFINE n == Len(seqs)
<1>1. n \in Nat /\ \A i \in 1..n : seqs[i] \in Seq(V)
  OBVIOUS
<1>2. PICK g : FlattenRun(g, V, seqs)
  BY FlattenExists
<1>3. Flattening(g, seqs)
  <2>1. g = [i \in 1..n |-> g[i]]
    BY <1>2 DEF FlattenRun
  <2>2. \A i \in 1..n : g[i] = IF i = 1 THEN seqs[i] ELSE g[i - 1] \o seqs[i]
    BY <1>2 DEF FlattenRun
  <2> HIDE DEF n
  <2> QED BY <2>1, <2>2 DEF Flattening, n
<1>4. PICK h : FlattenSeq(seqs) = h[n] /\ Flattening(h, seqs)
  BY <1>3, FlattenTable
<1>5. \A i \in 1..n : h[i] = IF i = 1 THEN seqs[i] ELSE h[i - 1] \o seqs[i]
  BY <1>4 DEF Flattening
<1>6. h = [i \in 1..n |-> h[i]]
  BY <1>4 DEF Flattening
<1> DEFINE G == {k \in 0..n : k # 0 => h[k] \in Seq(V)}
<1> HIDE DEF n
<1>7. 0 \in G
  BY <1>1
<1>8. ASSUME NEW k \in 0..(n - 1), k \in G PROVE k + 1 \in G
  <2>1. k \in Nat /\ k + 1 \in 1..n /\ k + 1 \in 0..n /\ (k + 1) - 1 = k
    BY <1>1
  <2>2. CASE k = 0
    BY <1>1, <1>5, <2>1, <2>2
  <2>3. CASE k # 0
    <3>1. h[k + 1] = h[k] \o seqs[k + 1] /\ h[k] \in Seq(V) /\ seqs[k + 1] \in Seq(V)
      <4>1. k + 1 # 1
        BY <2>1, <2>3
      <4>2. h[k] \in Seq(V)
        BY <1>8, <2>3
      <4> QED BY <1>1, <1>5, <2>1, <4>1, <4>2
    <3>2. h[k + 1] \in Seq(V)
      BY <3>1, ConcatElements
    <3> QED BY <2>1, <3>2
  <2> QED BY <2>2, <2>3
<1>9. \A k \in 0..n : k \in G
  <2> HIDE DEF G
  <2> QED BY <1>1, <1>7, <1>8, UpTo
<1>10. h \in [1..n -> Seq(V)]
  <2>1. \A i \in 1..n : i \in 0..n /\ i # 0
    BY <1>1
  <2>2. \A i \in 1..n : h[i] \in Seq(V)
    BY <1>9, <2>1
  <2> QED BY <1>6, <2>2
<1> QED
  BY <1>4, <1>5, <1>10 DEF FlattenRun, n

(* FlattenSeq has the elements of all the sequences and no other.          *)
LEMMA FlattenElements ==
  ASSUME NEW V, NEW seqs \in Seq(Seq(V))
  PROVE  /\ FlattenSeq(seqs) \in Seq(V)
         /\ \A x : x \in ToSet(FlattenSeq(seqs))
                     <=> \E i \in 1..Len(seqs) : x \in ToSet(seqs[i])
<1> DEFINE n == Len(seqs)
<1>1. n \in Nat /\ \A i \in 1..n : seqs[i] \in Seq(V)
  OBVIOUS
<1>2. CASE n = 0
  <2>1. FlattenSeq(seqs) = << >> /\ 1..n = {}
    BY <1>2 DEF FlattenSeq
  <2>2. << >> \in Seq(V) /\ ToSet(<< >>) = {}
    BY DEF ToSet
  <2> QED BY <2>1, <2>2
<1>3. CASE n # 0
  <2>1. PICK f : FlattenRun(f, V, seqs) /\ FlattenSeq(seqs) = f[n]
    BY <1>3, FlattenIsRun
  <2> DEFINE Holds(k) == \A x : x \in ToSet(f[k])
                                  <=> \E i \in 1..k : x \in ToSet(seqs[i])
             G == {k \in 0..n : k # 0 => Holds(k)}
  <2> HIDE DEF n
  <2>2. 0 \in G
    BY <1>1
  <2>3. ASSUME NEW k \in 0..(n - 1), k \in G PROVE k + 1 \in G
    <3>1. k \in Nat /\ k + 1 \in 1..n /\ k + 1 \in 0..n /\ (k + 1) - 1 = k
      BY <1>1
    <3>2. CASE k = 0
      <4>1. k + 1 = 1 /\ 1 \in 1..n /\ 1..1 = {1}
        BY <3>1, <3>2
      <4>2. f[1] = seqs[1]
        BY <2>1, <4>1 DEF FlattenRun, n
      <4> QED BY <3>1, <4>1, <4>2
    <3>3. CASE k # 0
      <4>1. k + 1 # 1 /\ k \in 1..n
        BY <1>1, <3>1, <3>3
      <4>2. f[k + 1] = f[k] \o seqs[k + 1] /\ f[k] \in Seq(V) /\ seqs[k + 1] \in Seq(V)
        BY <1>1, <2>1, <3>1, <4>1 DEF FlattenRun, n
      <4>3. ToSet(f[k + 1]) = ToSet(f[k]) \cup ToSet(seqs[k + 1])
        BY <4>2, ConcatElements
      <4>4. Holds(k)
        BY <2>3, <3>3
      <4>5. 1..(k + 1) = (1..k) \cup {k + 1}
        BY <3>1
      <4>6. Holds(k + 1)
        BY <4>3, <4>4, <4>5
      <4> HIDE DEF Holds
      <4> QED BY <3>1, <4>6
    <3> QED BY <3>2, <3>3
  <2>4. \A k \in 0..n : k \in G
    <3> HIDE DEF G
    <3> QED BY <1>1, <2>2, <2>3, UpTo
  <2>5. Holds(n)
    <3> HIDE DEF Holds
    <3>1. n \in 0..n
      BY <1>1
    <3> QED BY <1>3, <2>4, <3>1
  <2>6. f[n] \in Seq(V)
    <3>1. n \in 1..n
      BY <1>1, <1>3
    <3> QED BY <2>1, <3>1 DEF FlattenRun, n
  <2> QED BY <2>1, <2>5, <2>6 DEF n
<1> QED BY <1>2, <1>3
-----------------------------------------------------------------------------
(* The sum of a function's values.                                         *)

Summing(h, f) ==
  h = [s \in SUBSET (DOMAIN f) |->
         IF s = {} THEN 0
         ELSE f[CHOOSE x \in s : TRUE] + h[s \ {CHOOSE x \in s : TRUE}]]

(* What SumFunction evaluates to solves its recursion. *)
LEMMA SumTable ==
  ASSUME NEW f, \E g : Summing(g, f)
  PROVE  \E h : SumFunction(f) = h[DOMAIN f] /\ Summing(h, f)
BY DEF SumFunction, SumFunctionOnSet, FoldFunctionOnSet, MapThenFoldSet, Summing

(* A set without one of its elements is one smaller. *)
LEMMA OneLess ==
  ASSUME NEW S, IsFiniteSet(S), NEW s \in SUBSET S, s # {}, NEW x \in s
  PROVE  /\ s \ {x} \in SUBSET S /\ Cardinality(s \ {x}) \in Nat
         /\ Cardinality(s) = Cardinality(s \ {x}) + 1
<1>1. IsFiniteSet(s)
  BY FS_Subset
<1>2. IsFiniteSet(s \ {x}) /\ Cardinality(s \ {x}) = Cardinality(s) - 1
  BY <1>1, FS_RemoveElement
<1>3. Cardinality(s) \in Nat /\ Cardinality(s \ {x}) \in Nat
  BY <1>1, <1>2, FS_CardinalityType
<1> QED BY <1>2, <1>3

(* The sum of natural numbers over a finite set is one. *)
LEMMA SumIsNatural ==
  ASSUME NEW S, IsFiniteSet(S), NEW f \in [S -> Nat]
  PROVE  SumFunction(f) \in Nat
<1> DEFINE pick(s) == CHOOSE x \in s : TRUE
           value(h, s) == IF s = {} THEN 0 ELSE f[pick(s)] + h[s \ {pick(s)}]
           Solves(h, k) == \A s \in SUBSET S : Cardinality(s) <= k => h[s] = value(h, s)
           Has(k) == \E h \in [SUBSET S -> Nat] : Solves(h, k)
           n == Cardinality(S)
<1>1. DOMAIN f = S /\ n \in Nat /\ \A x \in S : f[x] \in Nat
  BY FS_CardinalityType
<1>2. ASSUME NEW s \in SUBSET S, s # {}
      PROVE  /\ pick(s) \in s /\ pick(s) \in S /\ f[pick(s)] \in Nat
             /\ s \ {pick(s)} \in SUBSET S /\ Cardinality(s \ {pick(s)}) \in Nat
             /\ Cardinality(s) = Cardinality(s \ {pick(s)}) + 1
  <2>1. pick(s) \in s
    BY <1>2
  <2> HIDE DEF pick
  <2> QED BY <1>1, <1>2, <2>1, OneLess
<1>3. Cardinality({}) = 0
  BY FS_EmptySet
<1>4. \A s \in SUBSET S : Cardinality(s) \in Nat /\ Cardinality(s) <= n
  BY FS_Subset, FS_CardinalityType
<1> HIDE DEF pick, n
\* A solution for the sets of at most k elements.
<1>5. Has(0)
  <2> DEFINE h == [s \in SUBSET S |-> 0]
  <2>1. ASSUME NEW s \in SUBSET S, Cardinality(s) <= 0 PROVE s = {}
    <3>1. SUFFICES ASSUME s # {} PROVE FALSE
      OBVIOUS
    <3>2. Cardinality(s) = Cardinality(s \ {pick(s)}) + 1 /\ Cardinality(s \ {pick(s)}) \in Nat
      BY <1>2, <3>1
    <3> QED BY <2>1, <3>2
  <2>2. h \in [SUBSET S -> Nat] /\ Solves(h, 0)
    BY <2>1
  <2> HIDE DEF h
  <2> QED BY <2>2
<1>6. ASSUME NEW k \in 0..(n - 1), Has(k) PROVE Has(k + 1)
  <2>1. PICK g \in [SUBSET S -> Nat] : Solves(g, k)
    BY <1>6
  <2> DEFINE h == [s \in SUBSET S |-> IF Cardinality(s) <= k THEN g[s] ELSE value(g, s)]
  <2>2. k \in Nat
    BY <1>1
  <2>3. \A s \in SUBSET S : value(g, s) \in Nat
    <3> SUFFICES ASSUME NEW s \in SUBSET S PROVE value(g, s) \in Nat
      OBVIOUS
    <3>1. CASE s = {}
      BY <3>1
    <3>2. CASE s # {}
      <4>1. f[pick(s)] \in Nat /\ g[s \ {pick(s)}] \in Nat
        BY <1>2, <2>1, <3>2
      <4> QED BY <3>2, <4>1
    <3> QED BY <3>1, <3>2
  <2>4. h \in [SUBSET S -> Nat]
    <3> HIDE DEF value
    <3> QED BY <2>1, <2>3
  <2>5. ASSUME NEW s \in SUBSET S PROVE h[s] = value(g, s) \/ Cardinality(s) > k + 1
    <3>1. CASE Cardinality(s) <= k
      BY <2>1, <3>1
    <3>2. CASE ~(Cardinality(s) <= k)
      BY <3>2
    <3> QED BY <3>1, <3>2
  <2>6. ASSUME NEW s \in SUBSET S, Cardinality(s) <= k + 1
        PROVE  value(h, s) = value(g, s)
    <3>1. CASE s = {}
      BY <3>1
    <3>2. CASE s # {}
      <4>1. s \ {pick(s)} \in SUBSET S /\ Cardinality(s \ {pick(s)}) <= k
        BY <1>2, <2>2, <2>6, <3>2
      <4>2. h[s \ {pick(s)}] = g[s \ {pick(s)}]
        BY <4>1
      <4> HIDE DEF h
      <4> QED BY <3>2, <4>2
    <3> QED BY <3>1, <3>2
  <2>7. Solves(h, k + 1)
    <3> SUFFICES ASSUME NEW s \in SUBSET S, Cardinality(s) <= k + 1
        PROVE  h[s] = value(h, s)
      OBVIOUS
    <3>1. ~(Cardinality(s) > k + 1)
      BY <1>4, <2>2
    <3> HIDE DEF h, value
    <3> QED BY <2>5, <2>6, <3>1
  <2> HIDE DEF h, Solves
  <2> QED BY <2>4, <2>7
<1>7. Has(n)
  <2> HIDE DEF Has
  <2> DEFINE G == {k \in 0..n : Has(k)}
  <2>1. 0 \in G /\ \A k \in 0..(n - 1) : k \in G => k + 1 \in G
    BY <1>1, <1>5, <1>6
  <2>2. \A k \in 0..n : k \in G
    <3> HIDE DEF G
    <3> QED BY <1>1, <2>1, UpTo
  <2> QED BY <1>1, <2>2
\* So the recursion has a solution, and SumFunction is one.
<1>8. PICK g \in [SUBSET S -> Nat] : Solves(g, n)
  BY <1>7
<1>9. \A s \in SUBSET S : g[s] = value(g, s)
  BY <1>4, <1>8
<1>10. Summing(g, f)
  BY <1>1, <1>8, <1>9 DEF Summing, pick
<1>11. PICK h : SumFunction(f) = h[S] /\ Summing(h, f)
  BY <1>1, <1>10, SumTable
<1>12. \A s \in SUBSET S : h[s] = value(h, s)
  BY <1>1, <1>11 DEF Summing, pick
\* Its values are natural numbers, by the size of the set.
<1> DEFINE G == {k \in 0..n : \A s \in SUBSET S : Cardinality(s) <= k => h[s] \in Nat}
<1>13. 0 \in G
  <2>1. ASSUME NEW s \in SUBSET S, Cardinality(s) <= 0 PROVE h[s] \in Nat
    <3>1. s = {}
      <4>1. SUFFICES ASSUME s # {} PROVE FALSE
        OBVIOUS
      <4>2. Cardinality(s) = Cardinality(s \ {pick(s)}) + 1 /\ Cardinality(s \ {pick(s)}) \in Nat
        BY <1>2, <4>1
      <4> QED BY <2>1, <4>2
    <3>2. value(h, s) = 0
      BY <3>1
    <3> HIDE DEF value
    <3> QED BY <1>12, <3>2
  <2> QED BY <1>1, <2>1
<1>14. ASSUME NEW k \in 0..(n - 1), k \in G PROVE k + 1 \in G
  <2>1. ASSUME NEW s \in SUBSET S, Cardinality(s) <= k + 1 PROVE h[s] \in Nat
    <3>1. CASE s = {}
      BY <1>12, <3>1
    <3>2. CASE s # {}
      <4>1. s \ {pick(s)} \in SUBSET S /\ Cardinality(s \ {pick(s)}) <= k
            /\ f[pick(s)] \in Nat
        BY <1>1, <1>2, <2>1, <3>2
      <4>2. h[s \ {pick(s)}] \in Nat
        BY <1>14, <4>1
      <4> QED BY <1>12, <3>2, <4>1, <4>2
    <3> QED BY <3>1, <3>2
  <2>2. k + 1 \in 0..n
    BY <1>1
  <2> QED BY <2>1, <2>2
<1>15. n \in G
  <2> HIDE DEF G
  <2> QED BY <1>1, <1>13, <1>14, UpTo
<1>16. Cardinality(S) <= n /\ S \in SUBSET S
  BY <1>4
<1> QED BY <1>11, <1>15, <1>16
=============================================================================
