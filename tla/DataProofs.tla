---------------------------- MODULE DataProofs ----------------------------
(***************************************************************************)
(* Proofs about the operators without state that the models compute with:  *)
(* the part of Overhead that other components use, and the encodings of    *)
(* RdbFormat up to strings and the lists inside them.                      *)
(*                                                                         *)
(* First come inductions over data, and what rests on them: functions of   *)
(* numbers defined by recursion, and SumFunction of the community modules, *)
(* which the models add memory up with.  An induction principle that takes *)
(* a predicate is out of the provers' reach; here it takes the set of the  *)
(* numbers, of the sets, or of the sequences that have the property, and   *)
(* is derived from WFMin.  A recursive function is shown to exist before   *)
(* it is used: what is chosen then satisfies its equation.                 *)
(*                                                                         *)
(* An allocation takes the least size class that holds what was asked for, *)
(* and the tables of a dictionary hold its elements, for every size and    *)
(* number of them.                                                         *)
(*                                                                         *)
(* What the format of RdbFormat is written as is what RdbStructure reads,  *)
(* for every string and list.  The argument goes from the inside out:      *)
(* numbers in bytes and in decimal, lengths, strings, the entries of       *)
(* listpacks and ziplists, the entries one after the other, and the        *)
(* headers around them.  Each decoder begins with a byte that tells how to *)
(* go on, so there is an operator for what it makes of that byte and the   *)
(* reader after it (EntryAfter, ZipAfter, ...), and a lemma for each       *)
(* encoding.                                                               *)
(***************************************************************************)
EXTENDS Overhead, RdbFormat, FiniteSetTheorems, SequenceTheorems, WellFoundedInduction, TLAPS

---------------------------------------------------------------------------
(* Induction and recursion *)

\* The numbers are well ordered.
LEMMA LessThanIsWellFounded == IsWellFoundedOn({p \in Nat \X Nat : p[1] < p[2]}, Nat)
  BY NatLessThanWellFounded DEF OpToRel

\* A set of numbers that has 0 and every successor has them all.
LEMMA NumberInduction ==
  ASSUME NEW S \in SUBSET Nat, 0 \in S, \A n \in S : n + 1 \in S
  PROVE  S = Nat
<1> DEFINE R == {p \in Nat \X Nat : p[1] < p[2]}
<1> SUFFICES ASSUME Nat \ S # {} PROVE FALSE OBVIOUS
<1>1. PICK x \in Nat \ S : \A y \in Nat \ S : ~(<<y, x>> \in R)
  <2>1. IsWellFoundedOn(R, Nat) BY LessThanIsWellFounded
  <2> HIDE DEF R
  <2> QED BY <2>1, WFMin
<1>2. x # 0 /\ x - 1 \in Nat /\ <<x - 1, x>> \in R OBVIOUS
<1>3. x - 1 \in S BY <1>1, <1>2
<1> QED BY <1>2, <1>3

\* A set of numbers that is not empty has a least one.
LEMMA LeastExists == \A S \in SUBSET Nat : S # {} => \E m \in S : \A k \in S : m <= k
<1> TAKE S \in SUBSET Nat
<1> HAVE S # {}
<1> DEFINE R == {p \in Nat \X Nat : p[1] < p[2]}
<1>1. PICK m \in S : \A k \in S : ~(<<k, m>> \in R)
  <2>1. IsWellFoundedOn(R, Nat) BY LessThanIsWellFounded
  <2> HIDE DEF R
  <2> QED BY <2>1, WFMin
<1>2. ASSUME NEW k \in S PROVE m <= k
  <2>1. k \in Nat /\ m \in Nat /\ ~(<<k, m>> \in R) BY <1>1
  <2>2. ~(k < m) BY <2>1
  <2> QED BY <2>1, <2>2
<1> QED BY <1>2

\* A family of subsets of a finite set that has a set whenever it has all that
\* are one element smaller has every subset.
LEMMA SubsetInduction ==
  ASSUME NEW S, IsFiniteSet(S), NEW Q \in SUBSET SUBSET S,
         \A s \in SUBSET S : (\A x \in s : s \ {x} \in Q) => s \in Q
  PROVE  Q = SUBSET S
<1> DEFINE N == {n \in Nat : \A s \in SUBSET S : Cardinality(s) = n => s \in Q}
<1>1. \A s \in SUBSET S : IsFiniteSet(s) /\ Cardinality(s) \in Nat
  BY FS_Subset, FS_CardinalityType
<1>2. 0 \in N
  <2> SUFFICES ASSUME NEW s \in SUBSET S, Cardinality(s) = 0 PROVE s \in Q OBVIOUS
  <2>1. s = {} BY <1>1, FS_EmptySet
  <2> QED BY <2>1
<1>3. ASSUME NEW n \in N PROVE n + 1 \in N
  <2> SUFFICES ASSUME NEW s \in SUBSET S, Cardinality(s) = n + 1 PROVE s \in Q OBVIOUS
  <2>1. ASSUME NEW x \in s PROVE s \ {x} \in Q
    <3>1. n \in Nat BY DEF N
    <3>2. Cardinality(s \ {x}) = Cardinality(s) - 1 BY <1>1, FS_RemoveElement
    <3> QED BY <1>1, <3>1, <3>2 DEF N
  <2> QED BY <2>1
<1> HIDE DEF N
<1>4. N = Nat BY <1>2, <1>3, NumberInduction DEF N
<1> QED BY <1>1, <1>4 DEF N

\* A function of numbers may be given by its value at 0 and by each value from
\* the one before it.
Recurs(f, T, base, step) ==
  f \in [Nat -> T] /\ f[0] = base /\ \A n \in Nat : f[n + 1] = step[f[n]]

LEMMA RecursionExists ==
  ASSUME NEW T, NEW base, NEW step, base \in T, \A x \in T : step[x] \in T
  PROVE  \E f : Recurs(f, T, base, step)
<1> DEFINE Begins(g, n) == /\ g \in [0 .. n -> T]
                           /\ g[0] = base
                           /\ \A i \in 0 .. n : i # 0 => g[i] = step[g[i - 1]]
           N == {n \in Nat : \E g : Begins(g, n)}
<1>1. 0 \in N
  <2>1. Begins([i \in 0 .. 0 |-> base], 0) OBVIOUS
  <2> QED BY <2>1
<1>2. ASSUME NEW n \in N PROVE n + 1 \in N
  <2>1. n \in Nat /\ n + 1 \in Nat OBVIOUS
  <2>2. PICK g : Begins(g, n) OBVIOUS
  <2> DEFINE h == [i \in 0 .. n + 1 |-> IF i \in 0 .. n THEN g[i] ELSE step[g[n]]]
  <2>3. h \in [0 .. n + 1 -> T] BY <2>1, <2>2
  <2>4. h[0] = base BY <2>1, <2>2
  <2>5. ASSUME NEW i \in 0 .. n + 1, i # 0 PROVE h[i] = step[h[i - 1]]
    <3>1. CASE i = n + 1 BY <2>1, <3>1
    <3>2. CASE i # n + 1
      <4>1. i \in 0 .. n /\ i - 1 \in 0 .. n BY <2>1, <2>5, <3>2
      <4>2. h[i] = g[i] /\ h[i - 1] = g[i - 1] BY <2>1, <4>1
      <4> QED BY <2>2, <2>5, <4>1, <4>2
    <3> QED BY <3>1, <3>2
  <2> HIDE DEF h
  <2>6. Begins(h, n + 1) BY <2>3, <2>4, <2>5
  <2> HIDE DEF Begins
  <2> QED BY <2>1, <2>6
<1>3. N = Nat
  <2> HIDE DEF N
  <2>1. N \in SUBSET Nat BY DEF N
  <2> QED BY <1>1, <1>2, <2>1, NumberInduction
<1>4. ASSUME NEW n \in Nat, NEW g, Begins(g, n), NEW m \in Nat, NEW h, Begins(h, m), n <= m
      PROVE  g[n] = h[n]
  <2> DEFINE M == {i \in Nat : i <= n => g[i] = h[i]}
  <2>1. 0 \in M BY <1>4
  <2>2. ASSUME NEW i \in M PROVE i + 1 \in M
    <3> SUFFICES ASSUME i + 1 <= n PROVE g[i + 1] = h[i + 1] OBVIOUS
    <3>1. i \in Nat /\ i + 1 \in 0 .. n /\ i + 1 \in 0 .. m /\ (i + 1) - 1 = i /\ i + 1 # 0 BY <1>4
    <3>2. g[i] = h[i] BY <3>1
    <3>3. g[i + 1] = step[g[(i + 1) - 1]] BY <1>4, <3>1
    <3>4. h[i + 1] = step[h[(i + 1) - 1]] BY <1>4, <3>1
    <3> QED BY <3>1, <3>2, <3>3, <3>4
  <2>3. M = Nat
    <3> HIDE DEF M
    <3>1. M \in SUBSET Nat BY DEF M
    <3> QED BY <2>1, <2>2, <3>1, NumberInduction
  <2> QED BY <2>3
<1> DEFINE G(n) == CHOOSE g : Begins(g, n)
           f == [n \in Nat |-> G(n)[n]]
<1>5. \A n \in Nat : Begins(G(n), n)
  <2> HIDE DEF Begins
  <2> QED BY <1>3
<1> HIDE DEF G, Begins, N
<1>6. f[0] = base BY <1>5 DEF Begins
<1>7. f \in [Nat -> T]
  <2>1. \A n \in Nat : G(n)[n] \in T BY <1>5 DEF Begins
  <2> QED BY <2>1
<1>8. ASSUME NEW n \in Nat PROVE f[n + 1] = step[f[n]]
  <2>1. n + 1 \in Nat /\ (n + 1) - 1 = n /\ n + 1 # 0 /\ n + 1 \in 0 .. n + 1 OBVIOUS
  <2>2. Begins(G(n + 1), n + 1) /\ Begins(G(n), n) BY <1>5, <2>1
  <2>3. G(n + 1)[n + 1] = step[G(n + 1)[n]] BY <2>1, <2>2 DEF Begins
  <2>4. G(n)[n] = G(n + 1)[n] BY <1>4, <2>1, <2>2
  <2> QED BY <2>1, <2>3, <2>4
<1> HIDE DEF f
<1> QED BY <1>6, <1>7, <1>8 DEF Recurs

\* A recursive definition has a solution if each of its values depends on
\* values of less rank only.
Descends(step, rank, D, V) ==
  /\ step \in [[D -> V] -> [D -> V]]
  /\ rank \in [D -> Nat]
  /\ \A g, h \in [D -> V] : \A p \in D :
       (\A q \in D : rank[q] < rank[p] => g[q] = h[q]) => step[g][p] = step[h][p]

LEMMA RecursionByRank ==
  ASSUME NEW D, NEW V, NEW step, NEW rank, Descends(step, rank, D, V), V # {}
  PROVE  \E f : f \in [D -> V] /\ f = step[f]
<1>0. /\ step \in [[D -> V] -> [D -> V]]
      /\ rank \in [D -> Nat]
      /\ \A g, h \in [D -> V] : \A p \in D :
           (\A q \in D : rank[q] < rank[p] => g[q] = h[q]) => step[g][p] = step[h][p]
  BY DEF Descends
<1> USE <1>0
<1> PICK first \in V : TRUE OBVIOUS
<1> DEFINE start == [p \in D |-> first]
<1> start \in [D -> V] OBVIOUS
<1> HIDE DEF start
<1>1. PICK b \in [Nat -> [D -> V]] :
        b[0] = start /\ \A n \in Nat : b[n + 1] = step[b[n]]
  <2> DEFINE T == [D -> V]
  <2>1. start \in T /\ \A x \in T : step[x] \in T OBVIOUS
  <2> HIDE DEF T
  <2>2. PICK b : Recurs(b, T, start, step) BY <2>1, RecursionExists
  <2> QED BY <2>2 DEF T, Recurs
<1>2. \A n \in Nat : b[n] \in [D -> V] BY <1>1
<1> DEFINE N == {n \in Nat : \A p \in D : rank[p] < n => b[n + 1][p] = b[n][p]}
<1>3. N = Nat
  <2>1. 0 \in N OBVIOUS
  <2>2. ASSUME NEW n \in N PROVE n + 1 \in N
    <3> SUFFICES ASSUME NEW p \in D, rank[p] < n + 1 PROVE b[(n + 1) + 1][p] = b[n + 1][p]
      OBVIOUS
    <3>1. n \in Nat /\ n + 1 \in Nat OBVIOUS
    <3>2. \A q \in D : rank[q] < rank[p] => b[n + 1][q] = b[n][q] BY <3>1
    <3>3. b[n + 1] \in [D -> V] /\ b[n] \in [D -> V] BY <1>2, <3>1
    <3>4. step[b[n + 1]][p] = step[b[n]][p] BY <3>2, <3>3
    <3> QED BY <1>1, <3>1, <3>4
  <2> HIDE DEF N
  <2>3. N \in SUBSET Nat BY DEF N
  <2> QED BY <2>1, <2>2, <2>3, NumberInduction
<1> DEFINE f == [p \in D |-> b[rank[p] + 1][p]]
           M == {n \in Nat : \A p \in D : rank[p] < n => b[n][p] = f[p]}
<1>4. M = Nat
  <2>1. 0 \in M OBVIOUS
  <2>2. ASSUME NEW n \in M PROVE n + 1 \in M
    <3> SUFFICES ASSUME NEW p \in D, rank[p] < n + 1 PROVE b[n + 1][p] = f[p]
      OBVIOUS
    <3>1. n \in Nat /\ rank[p] \in Nat OBVIOUS
    <3>2. CASE rank[p] = n BY <3>2
    <3>3. CASE rank[p] < n
      <4>1. b[n + 1][p] = b[n][p] BY <1>3, <3>1, <3>3
      <4>2. b[n][p] = f[p] BY <3>3
      <4> QED BY <4>1, <4>2
    <3> QED BY <3>1, <3>2, <3>3
  <2> HIDE DEF M
  <2>3. M \in SUBSET Nat BY DEF M
  <2> QED BY <2>1, <2>2, <2>3, NumberInduction
<1>5. f \in [D -> V]
  <2>1. \A p \in D : rank[p] + 1 \in Nat OBVIOUS
  <2> QED BY <1>2, <2>1
<1>6. ASSUME NEW p \in D PROVE f[p] = step[f][p]
  <2>1. rank[p] \in Nat OBVIOUS
  <2>2. \A q \in D : rank[q] < rank[p] => b[rank[p]][q] = f[q] BY <1>4, <2>1
  <2>3. f[p] = b[rank[p] + 1][p] OBVIOUS
  <2> HIDE DEF f
  <2>4. b[rank[p]] \in [D -> V] BY <1>2, <2>1
  <2>5. step[b[rank[p]]][p] = step[f][p] BY <1>5, <2>2, <2>4
  <2>6. b[rank[p] + 1] = step[b[rank[p]]] BY <1>1, <2>1
  <2> QED BY <2>3, <2>5, <2>6
<1> HIDE DEF f
<1>7. step[f] \in [D -> V] BY <1>5
<1>8. f = step[f] BY <1>5, <1>6, <1>7
<1> QED BY <1>5, <1>8

---------------------------------------------------------------------------
(* Sums over a set are well defined *)

Sum(f, S) == SumFunctionOnSet(f, S)

Pick(s) == CHOOSE x \in s : TRUE

\* The function the sum over S is computed with.
Iterates(f, S, g) ==
  g = [s \in SUBSET S |-> IF s = {} THEN 0 ELSE f[Pick(s)] + g[s \ {Pick(s)}]]

LEMMA SumIterates ==
  ASSUME NEW f, NEW S, \E g : Iterates(f, S, g)
  PROVE  \E g : Iterates(f, S, g) /\ Sum(f, S) = g[S]
<1> DEFINE it == CHOOSE g : Iterates(f, S, g)
<1>1. Iterates(f, S, it) OBVIOUS
<1>2. Sum(f, S) = it[S]
  BY Zenon DEF Sum, SumFunctionOnSet, FoldFunctionOnSet, MapThenFoldSet, Iterates, Pick
<1> HIDE DEF it
<1> QED BY <1>1, <1>2

LEMMA IteratesBelow ==
  ASSUME NEW f, NEW S, NEW g, Iterates(f, S, g), NEW t \in SUBSET S
  PROVE  Iterates(f, t, [s \in SUBSET t |-> g[s]])
<1> DEFINE h == [s \in SUBSET t |-> g[s]]
<1>1. ASSUME NEW s \in SUBSET t, s # {}
      PROVE  h[s] = f[Pick(s)] + h[s \ {Pick(s)}]
  <2>1. g[s] = f[Pick(s)] + g[s \ {Pick(s)}] BY <1>1 DEF Iterates
  <2> QED BY <2>1
<1>2. h[{}] = 0 BY DEF Iterates
<1> HIDE DEF h
<1>3. h = [s \in SUBSET t |-> h[s]] BY DEF h
<1>4. \A s \in SUBSET t : h[s] = IF s = {} THEN 0 ELSE f[Pick(s)] + h[s \ {Pick(s)}]
  BY <1>1, <1>2
<1>5. h = [s \in SUBSET t |-> IF s = {} THEN 0 ELSE f[Pick(s)] + h[s \ {Pick(s)}]]
  BY <1>3, <1>4
<1> QED BY <1>5 DEF Iterates, h

LEMMA PickIsElement == \A s : s # {} => Pick(s) \in s
  BY DEF Pick

LEMMA IteratesOnce ==
  ASSUME NEW f, NEW S, IsFiniteSet(S), NEW g, Iterates(f, S, g), NEW h, Iterates(f, S, h)
  PROVE  \A s \in SUBSET S : g[s] = h[s]
<1> DEFINE Q == {s \in SUBSET S : g[s] = h[s]}
<1>1. ASSUME NEW s \in SUBSET S, \A x \in s : s \ {x} \in Q PROVE s \in Q
  <2>1. CASE s = {} BY <2>1 DEF Iterates
  <2>2. CASE s # {}
    <3>1. s \ {Pick(s)} \in Q BY <1>1, <2>2, PickIsElement
    <3>2. g[s] = f[Pick(s)] + g[s \ {Pick(s)}] BY <2>2 DEF Iterates
    <3>3. h[s] = f[Pick(s)] + h[s \ {Pick(s)}] BY <2>2 DEF Iterates
    <3> QED BY <3>1, <3>2, <3>3
  <2> QED BY <2>1, <2>2
<1>2. Q = SUBSET S
  <2> HIDE DEF Q
  <2>1. Q \in SUBSET SUBSET S BY DEF Q
  <2> QED BY <1>1, <2>1, SubsetInduction
<1> QED BY <1>2

\* Any function that iterates over a superset gives the sum.
LEMMA SumIsIteration ==
  ASSUME NEW f, NEW S, IsFiniteSet(S), NEW g, Iterates(f, S, g), NEW t \in SUBSET S
  PROVE  Sum(f, t) = g[t]
<1> DEFINE h == [s \in SUBSET t |-> g[s]]
<1>1. Iterates(f, t, h) BY IteratesBelow
<1>2. h[t] = g[t] OBVIOUS
<1> HIDE DEF h
<1>3. PICK k : Iterates(f, t, k) /\ Sum(f, t) = k[t] BY <1>1, SumIterates
<1>4. IsFiniteSet(t) BY FS_Subset
<1>5. k[t] = h[t] BY <1>1, <1>3, <1>4, IteratesOnce
<1> QED BY <1>2, <1>3, <1>5

LEMMA IterationExists ==
  ASSUME NEW f, NEW S, IsFiniteSet(S)
  PROVE  \E g : Iterates(f, S, g)
<1> DEFINE Q == {s \in SUBSET S : \E g : Iterates(f, s, g)}
<1>1. ASSUME NEW s \in SUBSET S, \A x \in s : s \ {x} \in Q PROVE s \in Q
  <2> DEFINE g == [t \in SUBSET s |->
                     IF t = {} THEN 0 ELSE f[Pick(t)] + Sum(f, t \ {Pick(t)})]
  <2>1. ASSUME NEW t \in SUBSET s, t # s PROVE Sum(f, t) = g[t]
    <3>1. PICK x \in s : t \subseteq s \ {x} BY <2>1
    <3>2. PICK h : Iterates(f, s \ {x}, h) BY <1>1
    <3>3. IsFiniteSet(s \ {x}) BY FS_Subset
    <3>4. \A u \in SUBSET (s \ {x}) : Sum(f, u) = h[u]
      <4> TAKE u \in SUBSET (s \ {x})
      <4> QED BY <3>2, <3>3, SumIsIteration
    <3>5. CASE t = {}
      <4>1. h[t] = 0 BY <3>2, <3>5 DEF Iterates
      <4> QED BY <3>1, <3>4, <3>5, <4>1
    <3>6. CASE t # {}
      <4>1. h[t] = f[Pick(t)] + h[t \ {Pick(t)}] BY <3>1, <3>2, <3>6 DEF Iterates
      <4>2. h[t \ {Pick(t)}] = Sum(f, t \ {Pick(t)}) BY <3>1, <3>4
      <4> QED BY <3>1, <3>4, <3>6, <4>1, <4>2
    <3> QED BY <3>5, <3>6
  <2>2. ASSUME NEW t \in SUBSET s, t # {}
        PROVE  g[t] = f[Pick(t)] + g[t \ {Pick(t)}]
    <3>1. t \ {Pick(t)} \in SUBSET s /\ t \ {Pick(t)} # s
      BY <2>2, PickIsElement
    <3>2. Sum(f, t \ {Pick(t)}) = g[t \ {Pick(t)}]
      <4> HIDE DEF g
      <4> QED BY <2>1, <3>1
    <3>3. g[t] = f[Pick(t)] + Sum(f, t \ {Pick(t)}) BY <2>2
    <3> HIDE DEF g
    <3> QED BY <3>2, <3>3
  <2>3. g[{}] = 0 /\ g = [t \in SUBSET s |-> g[t]] OBVIOUS
  <2> HIDE DEF g
  <2>4. g = [t \in SUBSET s |-> IF t = {} THEN 0 ELSE f[Pick(t)] + g[t \ {Pick(t)}]]
    <3>1. \A t \in SUBSET s :
            g[t] = IF t = {} THEN 0 ELSE f[Pick(t)] + g[t \ {Pick(t)}]
      BY <2>2, <2>3
    <3> QED BY <2>3, <3>1
  <2>5. Iterates(f, s, g) BY <2>4 DEF Iterates
  <2> QED BY <2>5
<1>2. Q = SUBSET S
  <2> HIDE DEF Q
  <2>1. Q \in SUBSET SUBSET S BY DEF Q
  <2> QED BY <1>1, <2>1, SubsetInduction
<1> QED BY <1>2

\* The sum of nothing, and the sum over the rest once an element is picked.
LEMMA SumStep ==
  ASSUME NEW f, NEW S, IsFiniteSet(S)
  PROVE  Sum(f, S) = IF S = {} THEN 0 ELSE f[Pick(S)] + Sum(f, S \ {Pick(S)})
<1>1. PICK g : Iterates(f, S, g) BY IterationExists
<1>2. \A t \in SUBSET S : Sum(f, t) = g[t]
  <2> TAKE t \in SUBSET S
  <2> QED BY <1>1, SumIsIteration
<1>3. g[S] = IF S = {} THEN 0 ELSE f[Pick(S)] + g[S \ {Pick(S)}] BY <1>1 DEF Iterates
<1> QED BY <1>2, <1>3

---------------------------------------------------------------------------
(* What sums over functions of numbers are *)

\* Functions that agree on a set have the same sum over it.
LEMMA SumAgrees ==
  ASSUME NEW S, IsFiniteSet(S), NEW f, NEW g, \A x \in S : f[x] = g[x]
  PROVE  Sum(f, S) = Sum(g, S)
<1> DEFINE Q == {s \in SUBSET S : Sum(f, s) = Sum(g, s)}
<1>1. ASSUME NEW s \in SUBSET S, \A x \in s : s \ {x} \in Q PROVE s \in Q
  <2>1. IsFiniteSet(s) BY FS_Subset
  <2>2. Sum(f, s) = IF s = {} THEN 0 ELSE f[Pick(s)] + Sum(f, s \ {Pick(s)})
    BY <2>1, SumStep
  <2>3. Sum(g, s) = IF s = {} THEN 0 ELSE g[Pick(s)] + Sum(g, s \ {Pick(s)})
    BY <2>1, SumStep
  <2>4. CASE s = {} BY <2>2, <2>3, <2>4
  <2>5. CASE s # {}
    <3>1. Pick(s) \in s BY <2>5, PickIsElement
    <3>2. f[Pick(s)] = g[Pick(s)] BY <3>1
    <3>3. s \ {Pick(s)} \in Q BY <1>1, <3>1
    <3> QED BY <2>2, <2>3, <2>5, <3>2, <3>3
  <2> QED BY <2>4, <2>5
<1>2. Q = SUBSET S
  <2> HIDE DEF Q
  <2>1. Q \in SUBSET SUBSET S BY DEF Q
  <2> QED BY <1>1, <2>1, SubsetInduction
<1> QED BY <1>2

\* The sum of numbers is one.
LEMMA SumType ==
  ASSUME NEW S, IsFiniteSet(S), NEW f, NEW T \in SUBSET Int, 0 \in T,
         \A a, b \in T : a + b \in T,
         \A x \in S : f[x] \in T
  PROVE  Sum(f, S) \in T
<1> DEFINE Q == {s \in SUBSET S : Sum(f, s) \in T}
<1>1. ASSUME NEW s \in SUBSET S, \A x \in s : s \ {x} \in Q PROVE s \in Q
  <2>1. IsFiniteSet(s) BY FS_Subset
  <2>2. Sum(f, s) = IF s = {} THEN 0 ELSE f[Pick(s)] + Sum(f, s \ {Pick(s)})
    BY <2>1, SumStep
  <2>3. CASE s = {} BY <2>2, <2>3
  <2>4. CASE s # {}
    <3>1. Pick(s) \in s BY <2>4, PickIsElement
    <3>2. f[Pick(s)] \in T /\ Sum(f, s \ {Pick(s)}) \in T BY <1>1, <3>1
    <3> QED BY <2>2, <2>4, <3>2
  <2> QED BY <2>3, <2>4
<1>2. Q = SUBSET S
  <2> HIDE DEF Q
  <2>1. Q \in SUBSET SUBSET S BY DEF Q
  <2> QED BY <1>1, <2>1, SubsetInduction
<1> QED BY <1>2

\* Any element may be added last.
LEMMA SumSplit ==
  ASSUME NEW S, IsFiniteSet(S), NEW f, \A x \in S : f[x] \in Int
  PROVE  \A x \in S : Sum(f, S) = f[x] + Sum(f, S \ {x})
<1> DEFINE Q == {s \in SUBSET S : \A x \in s : Sum(f, s) = f[x] + Sum(f, s \ {x})}
<1>1. ASSUME NEW s \in SUBSET S, \A x \in s : s \ {x} \in Q PROVE s \in Q
  <2> SUFFICES ASSUME NEW x \in s PROVE Sum(f, s) = f[x] + Sum(f, s \ {x})
    OBVIOUS
  <2> DEFINE c == Pick(s)
             rest == Sum(f, (s \ {c}) \ {x})
  <2>1. c \in s BY PickIsElement
  <2>2. Sum(f, s) = f[c] + Sum(f, s \ {c})
    <3>1. IsFiniteSet(s) BY FS_Subset
    <3> QED BY <3>1, SumStep
  <2> HIDE DEF c
  <2>3. CASE x = c BY <2>2, <2>3
  <2>4. CASE x # c
    <3>1. Sum(f, s \ {c}) = f[x] + rest BY <1>1, <2>1, <2>4
    <3>2. Sum(f, s \ {x}) = f[c] + rest
      <4>1. Sum(f, s \ {x}) = f[c] + Sum(f, (s \ {x}) \ {c}) BY <1>1, <2>1, <2>4
      <4>2. (s \ {x}) \ {c} = (s \ {c}) \ {x} OBVIOUS
      <4> QED BY <4>1, <4>2
    <3>3. f[x] \in Int /\ f[c] \in Int BY <2>1
    <3>4. rest \in Int
      <4>1. IsFiniteSet((s \ {c}) \ {x}) BY FS_Subset
      <4> QED BY <4>1, SumType
    <3> HIDE DEF rest
    <3> QED BY <2>2, <3>1, <3>2, <3>3, <3>4
  <2> QED BY <2>3, <2>4
<1>2. Q = SUBSET S
  <2> HIDE DEF Q
  <2>1. Q \in SUBSET SUBSET S BY DEF Q
  <2> QED BY <1>1, <2>1, SubsetInduction
<1> QED BY <1>2

\* What the models use: the sums of functions written as such.
LEMMA SumOfNothing == ASSUME NEW f, DOMAIN f = {} PROVE SumFunction(f) = 0
<1>1. IsFiniteSet({}) BY FS_EmptySet
<1> QED BY <1>1, SumStep DEF SumFunction, Sum

LEMMA SumFunctionType ==
  ASSUME NEW S, IsFiniteSet(S), NEW f \in [S -> Nat]
  PROVE  SumFunction(f) \in Nat
<1>1. DOMAIN f = S OBVIOUS
<1>2. Nat \in SUBSET Int /\ 0 \in Nat /\ \A a, b \in Nat : a + b \in Nat OBVIOUS
<1>3. \A x \in S : f[x] \in Nat OBVIOUS
<1>4. Sum(f, S) \in Nat BY <1>2, <1>3, SumType
<1> QED BY <1>1, <1>4 DEF SumFunction, Sum

\* g is f with one more argument, x.
AddsOne(g, f, S, x) ==
  /\ IsFiniteSet(S) /\ x \notin S
  /\ f \in [S -> Int] /\ g \in [S \cup {x} -> Int]
  /\ \A y \in S : f[y] = g[y]

LEMMA SumFunctionAdds ==
  ASSUME NEW g, NEW f, NEW S, NEW x, AddsOne(g, f, S, x)
  PROVE  SumFunction(g) = SumFunction(f) + g[x]
<1> USE DEF AddsOne
<1>1. IsFiniteSet(S \cup {x}) BY FS_AddElement
<1>2. Sum(g, S \cup {x}) = g[x] + Sum(g, (S \cup {x}) \ {x}) BY <1>1, SumSplit
<1>3. (S \cup {x}) \ {x} = S OBVIOUS
<1>4. Sum(g, S) = Sum(f, S) BY SumAgrees
<1>5. g[x] \in Int /\ Sum(f, S) \in Int
  <2>1. Sum(f, S) \in Int BY SumType
  <2> QED BY <2>1
<1>6. DOMAIN f = S /\ DOMAIN g = S \cup {x} OBVIOUS
<1>7. SumFunction(f) = Sum(f, S) BY <1>6 DEF SumFunction, Sum
<1>8. SumFunction(g) = Sum(g, S \cup {x}) BY <1>6 DEF SumFunction, Sum
<1>9. Sum(g, S \cup {x}) = g[x] + Sum(f, S) BY <1>2, <1>3, <1>4
<1> QED BY <1>5, <1>7, <1>8, <1>9

\* A sum of sums is the sum of both.
LEMMA SumFunctionOfSums ==
  ASSUME NEW S, IsFiniteSet(S), NEW f \in [S -> Nat], NEW g \in [S -> Nat]
  PROVE  SumFunction([x \in S |-> f[x] + g[x]]) = SumFunction(f) + SumFunction(g)
<1> DEFINE h == [x \in S |-> f[x] + g[x]]
           Q == {s \in SUBSET S : /\ Sum(f, s) \in Nat /\ Sum(g, s) \in Nat
                                  /\ Sum(h, s) = Sum(f, s) + Sum(g, s)}
<1>1. \A x \in S : f[x] \in Nat /\ g[x] \in Nat /\ h[x] = f[x] + g[x] OBVIOUS
<1>2. DOMAIN f = S /\ DOMAIN g = S /\ DOMAIN h = S OBVIOUS
<1> HIDE DEF h
<1>3. ASSUME NEW s \in SUBSET S, \A x \in s : s \ {x} \in Q PROVE s \in Q
  <2>1. IsFiniteSet(s) BY FS_Subset
  <2>2. Sum(f, s) = IF s = {} THEN 0 ELSE f[Pick(s)] + Sum(f, s \ {Pick(s)})
    BY <2>1, SumStep
  <2>3. Sum(g, s) = IF s = {} THEN 0 ELSE g[Pick(s)] + Sum(g, s \ {Pick(s)})
    BY <2>1, SumStep
  <2>4. Sum(h, s) = IF s = {} THEN 0 ELSE h[Pick(s)] + Sum(h, s \ {Pick(s)})
    BY <2>1, SumStep
  <2>5. CASE s = {} BY <2>2, <2>3, <2>4, <2>5
  <2>6. CASE s # {}
    <3>1. Pick(s) \in s BY <2>6, PickIsElement
    <3>2. s \ {Pick(s)} \in Q BY <1>3, <3>1
    <3> QED BY <1>1, <2>2, <2>3, <2>4, <2>6, <3>1, <3>2
  <2> QED BY <2>5, <2>6
<1>4. Q = SUBSET S
  <2> HIDE DEF Q
  <2>1. Q \in SUBSET SUBSET S BY DEF Q
  <2> QED BY <1>3, <2>1, SubsetInduction
<1>5. Sum(h, S) = Sum(f, S) + Sum(g, S) BY <1>4
<1>6. SumFunction(h) = Sum(h, S) /\ SumFunction(f) = Sum(f, S) /\ SumFunction(g) = Sum(g, S)
  BY <1>2 DEF SumFunction, Sum
<1> QED BY <1>5, <1>6 DEF h

\* Functions one of which is nowhere larger.
LEMMA SumFunctionMonotone ==
  ASSUME NEW S, IsFiniteSet(S), NEW f \in [S -> Nat], NEW g \in [S -> Nat],
         \A x \in S : f[x] <= g[x]
  PROVE  SumFunction(f) <= SumFunction(g)
<1> DEFINE rest == [x \in S |-> g[x] - f[x]]
           both == [x \in S |-> f[x] + rest[x]]
<1>1. rest \in [S -> Nat] OBVIOUS
<1>2. both = g
  <2>1. \A x \in S : f[x] + rest[x] = g[x] OBVIOUS
  <2>2. g = [x \in S |-> g[x]] OBVIOUS
  <2> HIDE DEF rest
  <2> QED BY <2>1, <2>2
<1> HIDE DEF rest
<1>3. SumFunction(both) = SumFunction(f) + SumFunction(rest) BY <1>1, SumFunctionOfSums
<1>4. SumFunction(f) \in Nat /\ SumFunction(rest) \in Nat BY <1>1, SumFunctionType
<1> QED BY <1>2, <1>3, <1>4

---------------------------------------------------------------------------
(* Shares *)

\* Division rounds down, by less than one.
LEMMA DivisionRounds ==
  ASSUME NEW a \in Nat, NEW b \in Nat \ {0}
  PROVE  a \div b \in Nat /\ b * (a \div b) <= a /\ a <= b * (a \div b) + (b - 1)
  OBVIOUS

LEMMA ProductType == \A a, b \in Nat : a * b \in Nat
  OBVIOUS

LEMMA Distributes == \A a, b, c \in Int : a * (b + c) = a * b + a * c
  OBVIOUS

\* When whole is divided in the proportions of counts, rounding down loses less
\* than one for each part.
LEMMA SharesOfWhole ==
  ASSUME NEW S, IsFiniteSet(S), NEW counts \in [S -> Nat], NEW whole \in Nat,
         NEW total, total = SumFunction(counts), total > 0,
         NEW shares, shares = [x \in S |-> (whole * counts[x]) \div total]
  PROVE  /\ shares \in [S -> Nat]
         /\ SumFunction(shares) <= whole
         /\ SumFunction(shares) > whole - Cardinality(S)
<1>1. total \in Nat BY SumFunctionType
<1>2. ASSUME NEW x \in S
      PROVE  /\ shares[x] \in Nat /\ counts[x] \in Nat /\ whole * counts[x] \in Nat
             /\ total * shares[x] <= whole * counts[x]
             /\ whole * counts[x] <= total * shares[x] + (total - 1)
  <2>1. counts[x] \in Nat /\ whole * counts[x] \in Nat BY ProductType
  <2>2. PICK a \in Nat : a = whole * counts[x] BY <2>1
  <2>3. total \in Nat \ {0} BY <1>1
  <2>4. a \div total \in Nat /\ total * (a \div total) <= a
        /\ a <= total * (a \div total) + (total - 1)
    BY <2>3, DivisionRounds
  <2>5. shares[x] = a \div total BY <2>2
  <2> QED BY <2>1, <2>2, <2>4, <2>5
<1>3. shares \in [S -> Nat] BY <1>2
<1> DEFINE c(s) == Sum(counts, s)
           p(s) == Sum(shares, s)
           n(s) == Cardinality(s)
           Q == {s \in SUBSET S : /\ c(s) \in Nat /\ p(s) \in Nat /\ n(s) \in Nat
                                  /\ total * p(s) <= whole * c(s)
                                  /\ whole * c(s) <= total * p(s) + (total - 1) * n(s)}
<1>4. ASSUME NEW s \in SUBSET S, \A x \in s : s \ {x} \in Q PROVE s \in Q
  <2>1. IsFiniteSet(s) BY FS_Subset
  <2> DEFINE x == Pick(s)
             r == s \ {x}
  <2>2. c(s) = IF s = {} THEN 0 ELSE counts[x] + c(r) BY <2>1, SumStep
  <2>3. p(s) = IF s = {} THEN 0 ELSE shares[x] + p(r) BY <2>1, SumStep
  <2>4. CASE s = {}
    <3>1. c(s) = 0 /\ p(s) = 0 /\ n(s) = 0 BY <2>2, <2>3, <2>4, FS_EmptySet
    <3> HIDE DEF c, p, n
    <3> QED BY <1>1, <3>1
  <2>5. CASE s # {}
    <3>1. x \in s BY <2>5, PickIsElement
    <3>2. r \in Q BY <1>4, <3>1
    <3>3. n(s) = n(r) + 1
      <4>1. n(r) = n(s) - 1 BY <2>1, <3>1, FS_RemoveElement
      <4>2. n(s) \in Nat BY <2>1, FS_CardinalityType
      <4> HIDE DEF n
      <4> QED BY <4>1, <4>2
    <3> HIDE DEF x
    <3>4. x \in S BY <3>1
    <3>5. c(r) \in Nat /\ p(r) \in Nat /\ n(r) \in Nat BY <3>2
    <3>6. total * p(r) <= whole * c(r) /\ whole * c(r) <= total * p(r) + (total - 1) * n(r)
      BY <3>2
    <3>7. c(s) = counts[x] + c(r) /\ p(s) = shares[x] + p(r) BY <2>2, <2>3, <2>5
    <3> HIDE DEF c, p, n, r
    <3>8. /\ whole * c(s) = whole * counts[x] + whole * c(r)
          /\ total * p(s) = total * shares[x] + total * p(r)
          /\ (total - 1) * n(s) = (total - 1) * n(r) + (total - 1)
      <4>1. counts[x] \in Nat /\ shares[x] \in Nat BY <1>2, <3>4
      <4>2. whole * c(s) = whole * counts[x] + whole * c(r)
        BY <3>5, <3>7, <4>1, Distributes
      <4>3. total * p(s) = total * shares[x] + total * p(r)
        BY <1>1, <3>5, <3>7, <4>1, Distributes
      <4>4. (total - 1) * (n(r) + 1) = (total - 1) * n(r) + (total - 1) * 1
        BY <1>1, <3>5, Distributes
      <4>5. (total - 1) * 1 = total - 1 BY <1>1
      <4> QED BY <3>3, <4>2, <4>3, <4>4, <4>5
    <3>9. /\ whole * counts[x] \in Int /\ whole * c(r) \in Int /\ total * shares[x] \in Int
          /\ total * p(r) \in Int /\ (total - 1) * n(r) \in Int
      BY <1>1, <1>2, <3>4, <3>5
    <3>10. /\ total * shares[x] <= whole * counts[x]
           /\ whole * counts[x] <= total * shares[x] + (total - 1)
      BY <1>2, <3>4
    <3>11. total * p(s) <= whole * c(s) BY <3>6, <3>8, <3>9, <3>10
    <3>12. whole * c(s) <= total * p(s) + (total - 1) * n(s)
      BY <1>1, <3>6, <3>8, <3>9, <3>10
    <3>13. c(s) \in Nat /\ p(s) \in Nat /\ n(s) \in Nat BY <1>2, <3>3, <3>4, <3>5, <3>7
    <3> QED BY <3>11, <3>12, <3>13
  <2> QED BY <2>4, <2>5
<1>5. Q = SUBSET S
  <2> HIDE DEF Q
  <2>1. Q \in SUBSET SUBSET S BY DEF Q
  <2> QED BY <1>4, <2>1, SubsetInduction
<1>6. S \in Q BY <1>5
<1>7. DOMAIN counts = S /\ DOMAIN shares = S BY <1>3
<1>8. c(S) = total /\ p(S) = SumFunction(shares) BY <1>7 DEF SumFunction, Sum
<1>9. n(S) > 0
  <2>1. S # {} BY <1>7, SumOfNothing
  <2> QED BY <2>1, <1>6, FS_EmptySet
<1>10. /\ p(S) \in Nat /\ n(S) \in Nat
       /\ total * p(S) <= whole * c(S)
       /\ whole * c(S) <= total * p(S) + (total - 1) * n(S)
  BY <1>6
<1> HIDE DEF c, p, n, Q
<1>11. p(S) <= whole
  <2> SUFFICES ASSUME p(S) >= whole + 1 PROVE FALSE BY <1>10
  <2>1. total * p(S) >= total * (whole + 1) BY <1>1, <1>10
  <2>2. total * (whole + 1) = total * whole + total BY <1>1
  <2>3. total * whole = whole * c(S) BY <1>1, <1>8
  <2>4. total * p(S) \in Int /\ total * whole \in Int BY <1>1, <1>10
  <2> QED BY <1>1, <1>10, <2>1, <2>2, <2>3, <2>4
<1>12. p(S) > whole - n(S)
  <2> SUFFICES ASSUME whole >= p(S) + n(S) PROVE FALSE BY <1>10
  <2>1. total * whole >= total * (p(S) + n(S)) BY <1>1, <1>10
  <2>2. total * (p(S) + n(S)) = total * p(S) + ((total - 1) * n(S) + n(S)) BY <1>1, <1>10
  <2>3. total * whole = whole * c(S) BY <1>1, <1>8
  <2>4. total * p(S) \in Int /\ total * whole \in Int /\ (total - 1) * n(S) \in Int
    BY <1>1, <1>10
  <2> QED BY <1>1, <1>9, <1>10, <2>1, <2>2, <2>3, <2>4
<1> QED BY <1>3, <1>8, <1>11, <1>12 DEF n

---------------------------------------------------------------------------
(* The size classes *)

LEMMA Pow2Recursion ==
  /\ Pow2 = [e \in Nat |-> IF e = 0 THEN 1 ELSE 2 * Pow2[e - 1]]
  /\ Pow2[0] = 1
  /\ \A e \in Nat : Pow2[e + 1] = 2 * Pow2[e]
<1> DEFINE double == [n \in Nat |-> 2 * n]
           Defines(f) == f = [e \in Nat |-> IF e = 0 THEN 1 ELSE 2 * f[e - 1]]
<1>1. \E f : Defines(f)
  <2>1. \E f \in [Nat -> Nat] : f[0] = 1 /\ \A n \in Nat : f[n + 1] = double[f[n]]
    <3>1. 1 \in Nat /\ \A x \in Nat : double[x] \in Nat OBVIOUS
    <3> HIDE DEF double
    <3>2. PICK f : Recurs(f, Nat, 1, double) BY <3>1, RecursionExists
    <3> QED BY <3>2 DEF Recurs
  <2>2. PICK f \in [Nat -> Nat] : f[0] = 1 /\ \A n \in Nat : f[n + 1] = double[f[n]]
    BY <2>1
  <2>3. \A e \in Nat : f[e] = IF e = 0 THEN 1 ELSE 2 * f[e - 1]
    <3> TAKE e \in Nat
    <3>1. CASE e = 0 BY <2>2, <3>1
    <3>2. CASE e # 0
      <4>1. e - 1 \in Nat /\ (e - 1) + 1 = e BY <3>2
      <4>2. f[(e - 1) + 1] = double[f[e - 1]] BY <2>2, <4>1
      <4>3. f[e - 1] \in Nat BY <2>2, <4>1
      <4> QED BY <3>2, <4>1, <4>2, <4>3
    <3> QED BY <3>1, <3>2
  <2>4. Defines(f) BY <2>2, <2>3
  <2> QED BY <2>4
<1>2. Pow2 = CHOOSE f : Defines(f) BY DEF Pow2
<1>3. Defines(Pow2) 
  <2> HIDE DEF Defines
  <2> QED BY <1>1, <1>2
<1> QED BY <1>3

LEMMA Pow2Type == \A e \in Nat : Pow2[e] \in Nat /\ e < Pow2[e]
<1> DEFINE S == {e \in Nat : Pow2[e] \in Nat /\ e < Pow2[e]}
<1>1. 0 \in S BY Pow2Recursion
<1>2. ASSUME NEW e \in S PROVE e + 1 \in S BY Pow2Recursion
<1>3. S = Nat
  <2> HIDE DEF S
  <2>1. S \in SUBSET Nat BY DEF S
  <2> QED BY <1>1, <1>2, <2>1, NumberInduction
<1> QED BY <1>3

LEMMA ClassType == \A i \in Nat : jemallocSizeClasses(i) \in Nat
<1> TAKE i \in Nat
<1>1. CASE i <= 12
  <2>1. CASE i = 0 BY <2>1 DEF jemallocSizeClasses
  <2>2. CASE i \in 1 .. 8 BY <2>2 DEF jemallocSizeClasses
  <2>3. CASE i \in 9 .. 12 BY <2>3 DEF jemallocSizeClasses
  <2> QED BY <1>1, <2>1, <2>2, <2>3
<1>2. CASE i > 12
  <2> DEFINE m == (i - 13) % 4
             e == (i - 13) \div 4
  <2>1. m \in Nat /\ e \in Nat BY <1>2
  <2>2. jemallocSizeClasses(i) = (160 + 32 * m) * Pow2[e] BY <1>2 DEF jemallocSizeClasses
  <2>3. Pow2[e] \in Nat BY <2>1, Pow2Type
  <2> HIDE DEF m, e
  <2>4. 160 + 32 * m \in Nat BY <2>1
  <2>5. \A a, b \in Nat : a * b \in Nat OBVIOUS
  <2> QED BY <2>2, <2>3, <2>4, <2>5
<1> QED BY <1>1, <1>2

LEMMA ClassesType == \A i \in 0 .. ClassCount : i \in Nat /\ jemallocSizeClasses(i) \in Nat
  BY ClassType DEF ClassCount

\* The function that Search is computed with.
Bisects(f, size) ==
  f = [r \in (0 .. ClassCount) \X (0 .. ClassCount) |->
        LET h == (r[1] + r[2]) \div 2
        IN IF r[1] >= r[2] THEN r[1]
           ELSE IF jemallocSizeClasses(h) >= size THEN f[<<r[1], h>>]
           ELSE f[<<h + 1, r[2]>>]]

LEMMA MiddleIsBetween ==
  \A i, j \in Nat : i < j => (i + j) \div 2 \in Nat /\ i <= (i + j) \div 2 /\ (i + j) \div 2 < j
  OBVIOUS

LEMMA BisectionExists == \A size \in Nat : \E f : Bisects(f, size)
<1> TAKE size \in Nat
<1> DEFINE I == 0 .. ClassCount
           D == I \X I
           half(p) == (p[1] + p[2]) \div 2
           next(p) == IF jemallocSizeClasses(half(p)) >= size THEN <<p[1], half(p)>>
                      ELSE <<half(p) + 1, p[2]>>
           step == [g \in [D -> I] |-> [p \in D |-> IF p[1] >= p[2] THEN p[1] ELSE g[next(p)]]]
           rank == [p \in D |-> IF p[1] >= p[2] THEN 0 ELSE p[2] - p[1]]
<1>1. ClassCount \in Nat BY DEF ClassCount
<1>2. ASSUME NEW p \in D, ~(p[1] >= p[2])
      PROVE  next(p) \in D /\ rank[next(p)] < rank[p]
  <2>1. p[1] \in Nat /\ p[2] \in Nat /\ p[1] < p[2] BY <1>1, <1>2
  <2>2. half(p) \in Nat /\ p[1] <= half(p) /\ half(p) < p[2] BY <2>1, MiddleIsBetween
  <2> HIDE DEF half
  <2>3. next(p) = <<p[1], half(p)>> \/ next(p) = <<half(p) + 1, p[2]>> OBVIOUS
  <2>4. half(p) \in I /\ half(p) + 1 \in I /\ p[1] \in I /\ p[2] \in I BY <1>1, <2>1, <2>2
  <2> HIDE DEF next, I
  <2>5. CASE next(p) = <<p[1], half(p)>>
    <3>1. next(p) \in D /\ next(p)[1] = p[1] /\ next(p)[2] = half(p) BY <2>4, <2>5
    <3> QED BY <2>1, <2>2, <3>1
  <2>6. CASE next(p) = <<half(p) + 1, p[2]>>
    <3>1. next(p) \in D /\ next(p)[1] = half(p) + 1 /\ next(p)[2] = p[2] BY <2>4, <2>6
    <3> QED BY <2>1, <2>2, <3>1
  <2> QED BY <2>3, <2>5, <2>6
<1>4. step \in [[D -> I] -> [D -> I]]
  <2> HIDE DEF next
  <2>1. \A g \in [D -> I] : \A p \in D : (IF p[1] >= p[2] THEN p[1] ELSE g[next(p)]) \in I
    BY <1>2
  <2> QED BY <2>1
<1>5. rank \in [D -> Nat] BY <1>1
<1>6. \A g, h \in [D -> I] : \A p \in D :
        (\A q \in D : rank[q] < rank[p] => g[q] = h[q]) => step[g][p] = step[h][p]
  <2> HIDE DEF next, rank
  <2> QED BY <1>2
<1>7. \E f : f \in [D -> I] /\ f = step[f]
  <2>1. I # {} BY <1>1
  <2> HIDE DEF step, rank, D, I
  <2>2. Descends(step, rank, D, I) BY <1>4, <1>5, <1>6 DEF Descends
  <2> QED BY <2>1, <2>2, RecursionByRank
<1>8. PICK f : f \in [D -> I] /\ f = step[f] BY <1>7
<1>9. ASSUME NEW r \in D
      PROVE  f[r] = LET h == (r[1] + r[2]) \div 2
                    IN IF r[1] >= r[2] THEN r[1]
                       ELSE IF jemallocSizeClasses(h) >= size THEN f[<<r[1], h>>]
                       ELSE f[<<h + 1, r[2]>>]
  <2>1. f[r] = step[f][r] BY <1>8
  <2>2. step[f][r] = IF r[1] >= r[2] THEN r[1] ELSE f[next(r)] BY <1>8
  <2>3. f[next(r)] = IF jemallocSizeClasses(half(r)) >= size THEN f[<<r[1], half(r)>>]
                     ELSE f[<<half(r) + 1, r[2]>>]
    OBVIOUS
  <2> HIDE DEF step
  <2> QED BY <2>1, <2>2, <2>3
<1>10. Bisects(f, size) 
  <2> HIDE DEF step, rank, next, half
  <2>1. f = [r \in D |-> f[r]] BY <1>8
  <2> QED BY <1>9, <2>1 DEF Bisects
<1> QED BY <1>10

\* Whatever the table, the bisection of a range ends at an index that holds size,
\* unless it is the last, and whose predecessor does not, unless it is the first.
LEMMA BisectionSplits ==
  ASSUME NEW size \in Nat, NEW f, Bisects(f, size)
  PROVE  \A i, j \in 0 .. ClassCount :
           i <= j =>
             /\ f[<<i, j>>] \in i .. j
             /\ f[<<i, j>>] < j => jemallocSizeClasses(f[<<i, j>>]) >= size
             /\ f[<<i, j>>] > i => jemallocSizeClasses(f[<<i, j>>] - 1) < size
<1> DEFINE I == 0 .. ClassCount
           Splits(i, j, k) == /\ k \in i .. j
                              /\ k < j => jemallocSizeClasses(k) >= size
                              /\ k > i => jemallocSizeClasses(k - 1) < size
           N == {n \in Nat : \A i, j \in I : i <= j /\ j - i < n => Splits(i, j, f[<<i, j>>])}
<1>1. ClassCount \in Nat BY DEF ClassCount
<1>2. 0 \in N BY <1>1
<1>3. ASSUME NEW n \in N PROVE n + 1 \in N
  <2> SUFFICES ASSUME NEW i \in I, NEW j \in I, i <= j, j - i < n + 1
               PROVE  Splits(i, j, f[<<i, j>>])
    OBVIOUS
  <2> DEFINE h == (i + j) \div 2
  <2>1. i \in Nat /\ j \in Nat /\ n \in Nat BY <1>1
  <2>2. f[<<i, j>>] = IF i >= j THEN i
                      ELSE IF jemallocSizeClasses(h) >= size THEN f[<<i, h>>] ELSE f[<<h + 1, j>>]
    <3>1. <<i, j>> \in I \X I OBVIOUS
    <3> QED BY <3>1 DEF Bisects
  <2>3. CASE i = j BY <2>1, <2>2, <2>3
  <2>4. CASE i # j
    <3>1. h \in Nat /\ i <= h /\ h < j BY <2>1, <2>4, MiddleIsBetween
    <3> HIDE DEF h
    <3>2. h \in I /\ h + 1 \in I BY <1>1, <2>1, <3>1
    <3>3. jemallocSizeClasses(h) \in Nat BY <3>1, ClassType
    <3>4. CASE jemallocSizeClasses(h) >= size
      <4>1. h - i < n BY <2>1, <3>1
      <4> HIDE DEF Splits
      <4>2. Splits(i, h, f[<<i, h>>]) BY <2>1, <3>1, <3>2, <4>1
      <4>3. f[<<i, j>>] = f[<<i, h>>] BY <2>1, <2>2, <2>4, <3>4
      <4> DEFINE k == f[<<i, h>>]
      <4> HIDE DEF k
      <4>4. Splits(i, h, k) => Splits(i, j, k)
        <5> SUFFICES ASSUME Splits(i, h, k) PROVE Splits(i, j, k) OBVIOUS
        <5>1. CASE k = h BY <2>1, <3>1, <3>4, <5>1 DEF Splits
        <5>2. CASE k # h BY <2>1, <3>1, <5>2 DEF Splits
        <5> QED BY <5>1, <5>2
      <4> QED BY <4>2, <4>3, <4>4 DEF k
    <3>5. CASE ~(jemallocSizeClasses(h) >= size)
      <4>1. h + 1 <= j /\ j - (h + 1) < n BY <2>1, <3>1
      <4> HIDE DEF Splits
      <4>2. Splits(h + 1, j, f[<<h + 1, j>>]) BY <3>2, <4>1
      <4>3. f[<<i, j>>] = f[<<h + 1, j>>] BY <2>1, <2>2, <2>4, <3>5
      <4> DEFINE k == f[<<h + 1, j>>]
      <4> HIDE DEF k
      <4>4. Splits(h + 1, j, k) => Splits(i, j, k)
        <5> SUFFICES ASSUME Splits(h + 1, j, k) PROVE Splits(i, j, k) OBVIOUS
        <5>1. CASE k = h + 1
          <6>1. k - 1 = h BY <3>1, <5>1
          <6> QED BY <2>1, <3>1, <3>3, <3>5, <5>1, <6>1 DEF Splits
        <5>2. CASE k # h + 1 BY <2>1, <3>1, <5>2 DEF Splits
        <5> QED BY <5>1, <5>2
      <4> QED BY <4>2, <4>3, <4>4 DEF k
    <3> QED BY <3>4, <3>5
  <2> QED BY <2>3, <2>4
<1>4. N = Nat
  <2> HIDE DEF N
  <2>1. N \in SUBSET Nat BY DEF N
  <2> QED BY <1>2, <1>3, <2>1, NumberInduction
<1> HIDE DEF Splits
<1>5. ASSUME NEW i \in I, NEW j \in I, i <= j PROVE Splits(i, j, f[<<i, j>>])
  <2>1. (j - i) + 1 \in Nat /\ j - i < (j - i) + 1 BY <1>1, <1>5
  <2>2. (j - i) + 1 \in {n \in Nat : \A k, l \in I : k <= l /\ l - k < n => Splits(k, l, f[<<k, l>>])}
    BY <1>4, <2>1
  <2> QED BY <1>5, <2>1, <2>2
<1> QED BY <1>5 DEF Splits

LEMMA SearchBisects ==
  \A size \in Nat : \E f : Bisects(f, size) /\ Search(size) = f[<<0, ClassCount>>]
<1> TAKE size \in Nat
<1> DEFINE g == CHOOSE f : Bisects(f, size)
<1>1. Bisects(g, size) BY BisectionExists
<1>2. Search(size) = g[<<0, ClassCount>>] BY Zenon DEF Search, Bisects
<1> QED BY <1>1, <1>2

\* MallocOverhead: the class that the bisection finds has room for what was
\* asked for, although the table is not sorted.
THEOREM AllocationHolds ==
  \A size \in Nat : MallocOverhead(size) \in Nat /\ MallocOverhead(size) >= size
<1> TAKE size \in Nat
<1>1. PICK f : Bisects(f, size) /\ Search(size) = f[<<0, ClassCount>>] BY SearchBisects
<1>2. 0 \in 0 .. ClassCount /\ ClassCount \in 0 .. ClassCount /\ 0 <= ClassCount BY DEF ClassCount
<1>3. /\ Search(size) \in 0 .. ClassCount
      /\ Search(size) < ClassCount => jemallocSizeClasses(Search(size)) >= size
  BY <1>1, <1>2, BisectionSplits
<1>4. jemallocSizeClasses(Search(size)) \in Nat BY <1>3, ClassesType
<1> QED BY <1>3, <1>4 DEF MallocOverhead

\* The first classes, and the rest: four per doubling, so that they ascend.
LEMMA FirstClasses ==
  /\ jemallocSizeClasses(0) = 8 /\ jemallocSizeClasses(1) = 16
  /\ jemallocSizeClasses(2) = 32 /\ jemallocSizeClasses(3) = 48
  /\ jemallocSizeClasses(4) = 64 /\ jemallocSizeClasses(5) = 80
  /\ jemallocSizeClasses(6) = 96 /\ jemallocSizeClasses(7) = 112
  /\ jemallocSizeClasses(8) = 128 /\ jemallocSizeClasses(9) = 80
  /\ jemallocSizeClasses(10) = 96 /\ jemallocSizeClasses(11) = 112
  /\ jemallocSizeClasses(12) = 128
  BY DEF jemallocSizeClasses

LEMMA LaterClasses ==
  \A i \in Nat, m \in 0 .. 3, e \in Nat :
    i = 13 + 4 * e + m => jemallocSizeClasses(i) = (160 + 32 * m) * Pow2[e]
<1> TAKE i \in Nat, m \in 0 .. 3, e \in Nat
<1> HAVE i = 13 + 4 * e + m
<1>1. i >= 13 /\ (i - 13) % 4 = m /\ (i - 13) \div 4 = e OBVIOUS
<1>2. i # 0 /\ i \notin 1 .. 8 /\ i \notin 9 .. 12 BY <1>1
<1>3. jemallocSizeClasses(i) = (160 + 32 * ((i - 13) % 4)) * Pow2[(i - 13) \div 4]
  BY <1>2 DEF jemallocSizeClasses
<1> QED BY <1>1, <1>3

LEMMA ClassesAscend ==
  \A i \in Nat : i >= 11 => jemallocSizeClasses(i) <= jemallocSizeClasses(i + 1)
<1> TAKE i \in Nat
<1> HAVE i >= 11
<1>1. CASE i = 11 BY <1>1, FirstClasses
<1>2. CASE i = 12
  <2>1. 13 \in Nat /\ 0 \in 0 .. 3 /\ 0 \in Nat /\ 13 = 13 + 4 * 0 + 0 OBVIOUS
  <2>2. jemallocSizeClasses(13) = (160 + 32 * 0) * Pow2[0] BY <2>1, LaterClasses
  <2> QED BY <1>2, <2>2, FirstClasses, Pow2Recursion
<1>3. CASE i >= 13
  <2>1. PICK m \in 0 .. 3, e \in Nat : i = 13 + 4 * e + m
    <3> DEFINE a == (i - 13) % 4
               b == (i - 13) \div 4
    <3>1. a \in 0 .. 3 /\ b \in Nat /\ i = 13 + 4 * b + a BY <1>3
    <3> HIDE DEF a, b
    <3> QED BY <3>1
  <2>2. jemallocSizeClasses(i) = (160 + 32 * m) * Pow2[e] BY <2>1, LaterClasses
  <2>3. Pow2[e] \in Nat BY Pow2Type
  <2>4. PICK p \in Nat : p = Pow2[e] BY <2>3
  <2>5. CASE m < 3
    <3>1. i + 1 \in Nat /\ m + 1 \in 0 .. 3 /\ i + 1 = 13 + 4 * e + (m + 1) BY <2>1, <2>5
    <3>2. jemallocSizeClasses(i + 1) = (160 + 32 * (m + 1)) * p BY <2>4, <3>1, LaterClasses
    <3>3. (160 + 32 * m) * p <= (160 + 32 * (m + 1)) * p
      <4>1. m = 0 \/ m = 1 \/ m = 2 BY <2>5
      <4> QED BY <4>1
    <3> QED BY <2>2, <2>4, <3>2, <3>3
  <2>6. CASE m = 3
    <3>1. i + 1 \in Nat /\ e + 1 \in Nat /\ 0 \in 0 .. 3 /\ i + 1 = 13 + 4 * (e + 1) + 0
      BY <2>1, <2>6
    <3>2. jemallocSizeClasses(i + 1) = (160 + 32 * 0) * Pow2[e + 1] BY <3>1, LaterClasses
    <3>3. Pow2[e + 1] = 2 * p BY <2>4, Pow2Recursion
    <3> QED BY <2>2, <2>4, <2>6, <3>2, <3>3
  <2> QED BY <2>1, <2>5, <2>6
<1> QED BY <1>1, <1>2, <1>3

LEMMA LaterClassesAscend ==
  \A i, j \in Nat : 11 <= i /\ i <= j => jemallocSizeClasses(i) <= jemallocSizeClasses(j)
<1> TAKE i, j \in Nat
<1> HAVE 11 <= i /\ i <= j
<1> DEFINE N == {n \in Nat : jemallocSizeClasses(i) <= jemallocSizeClasses(i + n)}
<1>1. 0 \in N
  <2>1. i + 0 = i /\ jemallocSizeClasses(i) \in Nat BY ClassType
  <2> QED BY <2>1
<1>2. ASSUME NEW n \in N PROVE n + 1 \in N
  <2>1. n \in Nat /\ i + n \in Nat /\ i + n >= 11 /\ (i + n) + 1 = i + (n + 1) BY DEF N
  <2>2. jemallocSizeClasses(i + n) <= jemallocSizeClasses(i + (n + 1)) BY <2>1, ClassesAscend
  <2>3. jemallocSizeClasses(i) <= jemallocSizeClasses(i + n) BY DEF N
  <2>4. /\ jemallocSizeClasses(i) \in Nat /\ jemallocSizeClasses(i + n) \in Nat
        /\ jemallocSizeClasses(i + (n + 1)) \in Nat
    BY <2>1, ClassType
  <2> QED BY <2>1, <2>2, <2>3, <2>4
<1>3. N = Nat
  <2> HIDE DEF N
  <2>1. N \in SUBSET Nat BY DEF N
  <2> QED BY <1>1, <1>2, <2>1, NumberInduction
<1>4. j - i \in N /\ i + (j - i) = j
  <2>1. j - i \in Nat /\ i + (j - i) = j OBVIOUS
  <2> HIDE DEF N
  <2> QED BY <1>3, <2>1
<1> QED BY <1>4

\* One step of the bisection of i .. j, whose middle is h, with k after it.
Halves(f, size, i, j, h, k) ==
  f[<<i, j>>] = IF jemallocSizeClasses(h) >= size THEN f[<<i, h>>] ELSE f[<<k, j>>]

LEMMA BisectionStep ==
  ASSUME NEW size \in Nat, NEW f, Bisects(f, size)
  PROVE  \A i, j, h, k \in 0 .. ClassCount :
           i < j /\ h = (i + j) \div 2 /\ k = h + 1 => Halves(f, size, i, j, h, k)
<1> TAKE i, j, h, k \in 0 .. ClassCount
<1> HAVE i < j /\ h = (i + j) \div 2 /\ k = h + 1
<1>1. i \in Nat /\ j \in Nat /\ ~(i >= j) BY DEF ClassCount
<1>2. <<i, j>> \in (0 .. ClassCount) \X (0 .. ClassCount) OBVIOUS
<1> QED BY <1>1, <1>2 DEF Bisects, Halves

\* The bisection never ends among the classes that the table lists again.
LEMMA SearchSkipsRepeats ==
  \A size \in Nat : IF size <= 96 THEN Search(size) \in 0 .. 6
                    ELSE Search(size) \in 11 .. ClassCount
<1> TAKE size \in Nat
<1>1. PICK f : Bisects(f, size) /\ Search(size) = f[<<0, ClassCount>>] BY SearchBisects
<1> DEFINE I == 0 .. ClassCount
           Holds(i) == jemallocSizeClasses(i) >= size
           F(i, j) == f[<<i, j>>]
<1>2. ClassCount = 161 BY DEF ClassCount
<1>3. \A i, j \in I : i <= j => F(i, j) \in i .. j BY <1>1, BisectionSplits
<1>4. F(0, 161) = IF Holds(80) THEN F(0, 80) ELSE F(81, 161)
  <2>1. /\ 0 \in I /\ 161 \in I /\ 80 \in I /\ 81 \in I
        /\ 0 < 161 /\ 80 = (0 + 161) \div 2 /\ 81 = 80 + 1
    BY <1>2
  <2>2. Halves(f, size, 0, 161, 80, 81) BY ZenonT(40), <1>1, <2>1, BisectionStep
  <2> QED BY <2>2 DEF Halves
<1>5. F(0, 80) = IF Holds(40) THEN F(0, 40) ELSE F(41, 80)
  <2>1. /\ 0 \in I /\ 80 \in I /\ 40 \in I /\ 41 \in I
        /\ 0 < 80 /\ 40 = (0 + 80) \div 2 /\ 41 = 40 + 1
    BY <1>2
  <2>2. Halves(f, size, 0, 80, 40, 41) BY Zenon, <1>1, <2>1, BisectionStep
  <2> QED BY <2>2 DEF Halves
<1>6. F(0, 40) = IF Holds(20) THEN F(0, 20) ELSE F(21, 40)
  <2>1. /\ 0 \in I /\ 40 \in I /\ 20 \in I /\ 21 \in I
        /\ 0 < 40 /\ 20 = (0 + 40) \div 2 /\ 21 = 20 + 1
    BY <1>2
  <2>2. Halves(f, size, 0, 40, 20, 21) BY Zenon, <1>1, <2>1, BisectionStep
  <2> QED BY <2>2 DEF Halves
<1>7. F(0, 20) = IF Holds(10) THEN F(0, 10) ELSE F(11, 20)
  <2>1. /\ 0 \in I /\ 20 \in I /\ 10 \in I /\ 11 \in I
        /\ 0 < 20 /\ 10 = (0 + 20) \div 2 /\ 11 = 10 + 1
    BY <1>2
  <2>2. Halves(f, size, 0, 20, 10, 11) BY Zenon, <1>1, <2>1, BisectionStep
  <2> QED BY <2>2 DEF Halves
<1>8. F(0, 10) = IF Holds(5) THEN F(0, 5) ELSE F(6, 10)
  <2>1. /\ 0 \in I /\ 10 \in I /\ 5 \in I /\ 6 \in I
        /\ 0 < 10 /\ 5 = (0 + 10) \div 2 /\ 6 = 5 + 1
    BY <1>2
  <2>2. Halves(f, size, 0, 10, 5, 6) BY Zenon, <1>1, <2>1, BisectionStep
  <2> QED BY <2>2 DEF Halves
<1>9. F(6, 10) = IF Holds(8) THEN F(6, 8) ELSE F(9, 10)
  <2>1. /\ 6 \in I /\ 10 \in I /\ 8 \in I /\ 9 \in I
        /\ 6 < 10 /\ 8 = (6 + 10) \div 2 /\ 9 = 8 + 1
    BY <1>2
  <2>2. Halves(f, size, 6, 10, 8, 9) BY Zenon, <1>1, <2>1, BisectionStep
  <2> QED BY <2>2 DEF Halves
<1>10. F(6, 8) = IF Holds(7) THEN F(6, 7) ELSE F(8, 8)
  <2>1. /\ 6 \in I /\ 8 \in I /\ 7 \in I /\ 8 \in I
        /\ 6 < 8 /\ 7 = (6 + 8) \div 2 /\ 8 = 7 + 1
    BY <1>2
  <2>2. Halves(f, size, 6, 8, 7, 8) BY Zenon, <1>1, <2>1, BisectionStep
  <2> QED BY <2>2 DEF Halves
<1>11. F(6, 7) = IF Holds(6) THEN F(6, 6) ELSE F(7, 7)
  <2>1. /\ 6 \in I /\ 7 \in I /\ 6 \in I /\ 7 \in I
        /\ 6 < 7 /\ 6 = (6 + 7) \div 2 /\ 7 = 6 + 1
    BY <1>2
  <2>2. Halves(f, size, 6, 7, 6, 7) BY Zenon, <1>1, <2>1, BisectionStep
  <2> QED BY <2>2 DEF Halves
<1> HIDE DEF F
<1>12. CASE size <= 96
  <2>1. Holds(80) /\ Holds(40) /\ Holds(20)
    <3>1. /\ jemallocSizeClasses(80) >= 112 /\ jemallocSizeClasses(40) >= 112
          /\ jemallocSizeClasses(20) >= 112
      BY FirstClasses, LaterClassesAscend
    <3>2. /\ jemallocSizeClasses(80) \in Nat /\ jemallocSizeClasses(40) \in Nat
          /\ jemallocSizeClasses(20) \in Nat
      BY ClassType
    <3> QED BY <1>12, <3>1, <3>2
  <2>2. Holds(10) /\ Holds(8) /\ Holds(7) /\ Holds(6) BY <1>12, FirstClasses
  <2> HIDE DEF Holds
  <2>3. F(0, 161) = F(0, 10) BY <1>4, <1>5, <1>6, <1>7, <2>1, <2>2
  <2>4. F(6, 10) = F(6, 6) BY <1>9, <1>10, <1>11, <2>2
  <2>5. F(0, 5) \in 0 .. 6 /\ F(6, 6) \in 0 .. 6
    <3>1. F(0, 5) \in 0 .. 5
      <4>1. 0 \in I /\ 5 \in I /\ 0 <= 5 BY <1>2
      <4> QED BY Zenon, <1>3, <4>1
    <3>2. F(6, 6) \in 6 .. 6
      <4>1. 6 \in I /\ 6 \in I /\ 6 <= 6 BY <1>2
      <4> QED BY Zenon, <1>3, <4>1
    <3> QED BY <3>1, <3>2
  <2>6. F(0, 161) \in 0 .. 6 BY <1>8, <2>3, <2>4, <2>5
  <2> QED BY <1>1, <1>2, <1>12, <2>6 DEF F
<1>13. CASE size > 96
  <2>1. ~Holds(10) BY <1>13, FirstClasses
  <2> HIDE DEF Holds
  <2>2. F(0, 161) \in {F(81, 161), F(41, 80), F(21, 40), F(11, 20)}
    BY <1>4, <1>5, <1>6, <1>7, <2>1
  <2>3. F(81, 161) \in 81 .. 161
    <3>1. 81 \in I /\ 161 \in I /\ 81 <= 161 BY <1>2
    <3> QED BY Zenon, <1>3, <3>1
  <2>4. F(41, 80) \in 41 .. 80
    <3>1. 41 \in I /\ 80 \in I /\ 41 <= 80 BY <1>2
    <3> QED BY Zenon, <1>3, <3>1
  <2>5. F(21, 40) \in 21 .. 40
    <3>1. 21 \in I /\ 40 \in I /\ 21 <= 40 BY <1>2
    <3> QED BY Zenon, <1>3, <3>1
  <2>6. F(11, 20) \in 11 .. 20
    <3>1. 11 \in I /\ 20 \in I /\ 11 <= 20 BY <1>2
    <3> QED BY Zenon, <1>3, <3>1
  <2>7. F(0, 161) \in 11 .. 161 BY <2>2, <2>3, <2>4, <2>5, <2>6
  <2> QED BY <1>1, <1>2, <1>13, <2>7 DEF F
<1> QED BY <1>12, <1>13

\* MallocOverhead: the least class that holds the size, and the size itself when
\* there is none, although the table that is bisected is not sorted.
THEOREM AllocationIsLeast ==
  \A size \in Nat :
    LET classes == {jemallocSizeClasses(i) : i \in 0 .. ClassCount - 1}
    IN IF size <= jemallocSizeClasses(ClassCount - 1)
       THEN IsLeast(MallocOverhead(size), {c \in classes : c >= size})
       ELSE MallocOverhead(size) = size
<1> TAKE size \in Nat
<1> DEFINE classes == {jemallocSizeClasses(i) : i \in 0 .. ClassCount - 1}
           r == Search(size)
<1>1. ClassCount = 161 BY DEF ClassCount
<1>2. PICK f : Bisects(f, size) /\ r = f[<<0, ClassCount>>] BY SearchBisects
<1>3. /\ r \in 0 .. 161
      /\ r < 161 => jemallocSizeClasses(r) >= size
      /\ r > 0 => jemallocSizeClasses(r - 1) < size
  <2>1. 0 \in 0 .. ClassCount /\ ClassCount \in 0 .. ClassCount /\ 0 <= ClassCount BY <1>1
  <2>2. /\ f[<<0, ClassCount>>] \in 0 .. ClassCount
        /\ f[<<0, ClassCount>>] < ClassCount => jemallocSizeClasses(f[<<0, ClassCount>>]) >= size
        /\ f[<<0, ClassCount>>] > 0 => jemallocSizeClasses(f[<<0, ClassCount>>] - 1) < size
    BY <1>2, <2>1, BisectionSplits
  <2> QED BY <1>1, <1>2, <2>2
<1>4. MallocOverhead(size) = IF r < 161 THEN jemallocSizeClasses(r) ELSE size
  BY <1>1 DEF MallocOverhead
<1>5. IF size <= 96 THEN r \in 0 .. 6 ELSE r \in 11 .. 161 BY <1>1, SearchSkipsRepeats
<1> HIDE DEF r
<1>6. ASSUME NEW k \in 0 .. 160, jemallocSizeClasses(k) >= size
      PROVE  r < 161 /\ jemallocSizeClasses(r) <= jemallocSizeClasses(k)
  <2>1. jemallocSizeClasses(k) \in Nat BY ClassType
  <2>2. CASE size <= 96
    <3>1. r \in 0 .. 6 BY <1>5, <2>2
    <3>2. jemallocSizeClasses(r) <= 96 /\ jemallocSizeClasses(r) \in Nat
      <4>1. r = 0 \/ r = 1 \/ r = 2 \/ r = 3 \/ r = 4 \/ r = 5 \/ r = 6 BY <3>1
      <4> QED BY <4>1, FirstClasses
    <3>3. CASE k >= 11
      <4>1. jemallocSizeClasses(k) >= 112 BY <3>3, FirstClasses, LaterClassesAscend
      <4> QED BY <2>1, <3>1, <3>2, <4>1
    <3>4. CASE k <= 10
      <4>1. r = 0 \/ r = 1 \/ r = 2 \/ r = 3 \/ r = 4 \/ r = 5 \/ r = 6 BY <3>1
      <4>2. k = 0 \/ k = 1 \/ k = 2 \/ k = 3 \/ k = 4 \/ k = 5 \/ k = 6 \/ k = 7 \/ k = 8 \/ k = 9 \/ k = 10
        BY <3>4
      <4>3. r > 0 => jemallocSizeClasses(r - 1) < jemallocSizeClasses(k)
        <5>1. r > 0 => jemallocSizeClasses(r - 1) \in Nat BY <3>1, ClassType
        <5> QED BY <1>3, <1>6, <2>1, <5>1
      <4>4. CASE r = 0 BY <4>2, <4>4, FirstClasses
      <4>5. CASE r = 1 BY <4>2, <4>3, <4>5, FirstClasses
      <4>6. CASE r = 2 BY <4>2, <4>3, <4>6, FirstClasses
      <4>7. CASE r = 3 BY <4>2, <4>3, <4>7, FirstClasses
      <4>8. CASE r = 4 BY <4>2, <4>3, <4>8, FirstClasses
      <4>9. CASE r = 5 BY <4>2, <4>3, <4>9, FirstClasses
      <4>10. CASE r = 6 BY <4>2, <4>3, <4>10, FirstClasses
      <4> QED BY <4>1, <4>4, <4>5, <4>6, <4>7, <4>8, <4>9, <4>10
    <3> QED BY <3>3, <3>4
  <2>3. CASE size > 96
    <3>1. r \in 11 .. 161 BY <1>5, <2>3
    <3>2. PICK l \in 11 .. 160 : jemallocSizeClasses(l) = jemallocSizeClasses(k)
      <4>1. CASE k >= 11 BY <4>1
      <4>2. CASE k <= 10
        <5>1. k = 0 \/ k = 1 \/ k = 2 \/ k = 3 \/ k = 4 \/ k = 5 \/ k = 6 \/ k = 7 \/ k = 8 \/ k = 9 \/ k = 10
          BY <4>2
        <5>2. k = 7 \/ k = 8 BY <1>6, <2>3, <5>1, FirstClasses
        <5> QED BY <5>2, FirstClasses
      <4> QED BY <4>1, <4>2
    <3>3. r <= l
      <4> SUFFICES ASSUME l < r PROVE FALSE BY <3>1
      <4>1. r - 1 \in Nat /\ l <= r - 1 BY <3>1
      <4>2. jemallocSizeClasses(l) <= jemallocSizeClasses(r - 1) BY <4>1, LaterClassesAscend
      <4>3. jemallocSizeClasses(r - 1) \in Nat BY <4>1, ClassType
      <4> QED BY <1>3, <1>6, <2>1, <3>1, <3>2, <4>2, <4>3
    <3> QED BY <3>1, <3>2, <3>3, LaterClassesAscend
  <2> QED BY <2>2, <2>3
<1>7. CASE size <= jemallocSizeClasses(160)
  <2>1. r < 161
    <3>1. 160 \in 0 .. 160 /\ jemallocSizeClasses(160) \in Nat BY ClassType
    <3>2. jemallocSizeClasses(160) >= size BY <1>7, <3>1
    <3> QED BY <1>6, <3>1, <3>2
  <2>2. MallocOverhead(size) \in {c \in classes : c >= size} BY <1>1, <1>3, <1>4, <2>1
  <2>3. ASSUME NEW d \in {c \in classes : c >= size} PROVE MallocOverhead(size) <= d
    <3>1. PICK k \in 0 .. 160 : d = jemallocSizeClasses(k) BY <1>1
    <3> QED BY <1>4, <1>6, <2>1, <3>1
  <2> HIDE DEF classes
  <2>4. IsLeast(MallocOverhead(size), {c \in classes : c >= size}) BY <2>2, <2>3 DEF IsLeast
  <2> QED BY <1>1, <1>7, <2>4 DEF classes
<1>8. CASE ~(size <= jemallocSizeClasses(160))
  <2>1. r = 161
    <3>1. r < 161 => jemallocSizeClasses(r) <= jemallocSizeClasses(160)
      <4>1. CASE size <= 96
        <5>1. 160 \in Nat /\ jemallocSizeClasses(160) \in Nat BY ClassType
        <5>2. jemallocSizeClasses(160) >= 112 BY <5>1, FirstClasses, LaterClassesAscend
        <5> QED BY <1>8, <4>1, <5>1, <5>2
      <4>2. CASE size > 96
        <5>1. r \in 11 .. 161 BY <1>5, <4>2
        <5> QED BY <5>1, LaterClassesAscend
      <4> QED BY <4>1, <4>2
    <3>2. jemallocSizeClasses(160) \in Nat /\ (r \in Nat => jemallocSizeClasses(r) \in Nat)
      BY ClassType
    <3> QED BY <1>3, <1>8, <3>1, <3>2
  <2> QED BY <1>1, <1>4, <1>8, <2>1
<1> QED BY <1>1, <1>7, <1>8

\* A greater size never takes less.
LEMMA AllocationMonotone ==
  \A size, more \in Nat : size <= more => MallocOverhead(size) <= MallocOverhead(more)
<1> TAKE size, more \in Nat
<1> HAVE size <= more
<1> DEFINE classes == {jemallocSizeClasses(i) : i \in 0 .. ClassCount - 1}
           top == jemallocSizeClasses(ClassCount - 1)
<1>1. ClassCount - 1 \in 0 .. ClassCount - 1 /\ ClassCount - 1 \in Nat BY DEF ClassCount
<1>2. top \in Nat /\ top \in classes BY <1>1, ClassType
<1>3. \A s \in Nat : IF s <= top THEN IsLeast(MallocOverhead(s), {c \in classes : c >= s})
                     ELSE MallocOverhead(s) = s
  BY AllocationIsLeast
<1>4. MallocOverhead(size) \in Nat /\ MallocOverhead(more) \in Nat BY AllocationHolds
<1> HIDE DEF classes, top
<1>5. CASE more <= top
  <2>1. size <= top BY <1>2, <1>5
  <2>2. MallocOverhead(more) \in classes /\ MallocOverhead(more) >= more
    BY <1>3, <1>5 DEF IsLeast
  <2>3. MallocOverhead(more) >= size BY <1>4, <2>2
  <2> QED BY <1>3, <2>1, <2>2, <2>3 DEF IsLeast
<1>6. CASE ~(more <= top) /\ size <= top
  <2>1. MallocOverhead(size) <= top BY <1>2, <1>3, <1>6 DEF IsLeast
  <2>2. MallocOverhead(more) = more BY <1>3, <1>6
  <2> QED BY <1>2, <1>4, <1>6, <2>1, <2>2
<1>7. CASE ~(more <= top) /\ ~(size <= top) BY <1>3, <1>7
<1> QED BY <1>5, <1>6, <1>7

\* MallocOverhead: what MallocIsLeastClass says of the first half of the table.
THEOREM LeastClassFound ==
  \A size \in 0 .. jemallocSizeClasses(81) : MallocIsLeastClass(size)
<1>1. jemallocSizeClasses(81) \in Nat BY ClassType
<1> TAKE size \in 0 .. jemallocSizeClasses(81)
<1> DEFINE classes == {jemallocSizeClasses(i) : i \in 0 .. ClassCount - 1}
           lower == {jemallocSizeClasses(i) : i \in 0 .. 81}
           m == MallocOverhead(size)
<1>2. ClassCount - 1 = 160 BY DEF ClassCount
<1>3. size \in Nat /\ size <= jemallocSizeClasses(81) BY <1>1
<1>4. size <= jemallocSizeClasses(160)
  <2>1. jemallocSizeClasses(160) \in Nat /\ jemallocSizeClasses(81) <= jemallocSizeClasses(160)
    BY ClassType, LaterClassesAscend
  <2> QED BY <1>1, <1>3, <2>1
<1>5. IsLeast(m, {c \in classes : c >= size}) BY <1>2, <1>3, <1>4, AllocationIsLeast
<1>6. lower \subseteq classes /\ jemallocSizeClasses(81) \in classes BY <1>2
<1>7. m <= jemallocSizeClasses(81)
  <2> HIDE DEF classes, m
  <2> QED BY <1>1, <1>3, <1>5, <1>6 DEF IsLeast
<1>8. m \in lower
  <2>1. PICK i \in 0 .. 160 : m = jemallocSizeClasses(i) BY <1>2, <1>5 DEF IsLeast
  <2>2. CASE i <= 81 BY <2>1, <2>2
  <2>3. CASE i > 81
    <3>1. jemallocSizeClasses(81) <= jemallocSizeClasses(i) BY <2>3, LaterClassesAscend
    <3>2. jemallocSizeClasses(i) \in Nat BY ClassType
    <3>3. m = jemallocSizeClasses(81) BY <1>1, <1>7, <2>1, <3>1, <3>2
    <3> QED BY <3>3
  <2> QED BY <2>2, <2>3
<1>9. m <= MallocOverhead(size + 1)
  <2>1. size + 1 \in Nat /\ size <= size + 1 BY <1>3
  <2> QED BY <1>3, <2>1, AllocationMonotone
<1> HIDE DEF classes, lower
<1>10. IsLeast(m, {c \in lower : c >= size}) BY <1>5, <1>6, <1>8 DEF IsLeast
<1> QED BY <1>9, <1>10 DEF MallocIsLeastClass, lower

---------------------------------------------------------------------------
(* The buckets of a dictionary *)

\* The function that NextPower is computed with.
Grows(f, size) ==
  f = [power \in Nat |-> IF power <= size THEN f[2 * power] ELSE power]

LEMMA GrowthExists == \A size \in Nat : \E f : Grows(f, size)
<1> TAKE size \in Nat
<1> DEFINE step == [g \in [Nat -> Nat] |->
                      [p \in Nat |-> IF p = 0 THEN 0 ELSE IF p <= size THEN g[2 * p] ELSE p]]
           rank == [p \in Nat |-> IF p <= size THEN size + 1 - p ELSE 0]
<1>1. step \in [[Nat -> Nat] -> [Nat -> Nat]]
  <2>1. \A g \in [Nat -> Nat] : \A p \in Nat :
          (IF p = 0 THEN 0 ELSE IF p <= size THEN g[2 * p] ELSE p) \in Nat
    OBVIOUS
  <2> QED BY <2>1
<1>2. rank \in [Nat -> Nat] OBVIOUS
<1>3. \A g, h \in [Nat -> Nat] : \A p \in Nat :
        (\A q \in Nat : rank[q] < rank[p] => g[q] = h[q]) => step[g][p] = step[h][p]
  <2>1. \A p \in Nat : p # 0 /\ p <= size => 2 * p \in Nat /\ rank[2 * p] < rank[p] OBVIOUS
  <2> HIDE DEF rank
  <2> QED BY <2>1
<1>4. PICK f : f \in [Nat -> Nat] /\ f = step[f]
  <2> DEFINE D == Nat
  <2>1. Descends(step, rank, D, D) BY <1>1, <1>2, <1>3 DEF Descends
  <2>2. D # {} OBVIOUS
  <2> HIDE DEF step, rank, D
  <2>3. \E f : f \in [D -> D] /\ f = step[f] BY <2>1, <2>2, RecursionByRank
  <2> QED BY <2>3 DEF D
<1>5. \A p \in Nat : f[p] = IF p <= size THEN f[2 * p] ELSE p
  <2> TAKE p \in Nat
  <2>1. f[p] = IF p = 0 THEN 0 ELSE IF p <= size THEN f[2 * p] ELSE p BY <1>4
  <2>2. CASE p = 0
    <3>1. 2 * p = p BY <2>2
    <3> QED BY <2>2, <3>1
  <2> QED BY <2>1, <2>2
<1>6. f = [p \in Nat |-> f[p]] BY <1>4
<1> QED BY <1>5, <1>6 DEF Grows

\* From a power of two the growth ends with the least one above size.
LEMMA GrowthHolds ==
  ASSUME NEW size \in Nat, NEW f, Grows(f, size)
  PROVE  \A e \in Nat : Pow2[e] <= 2 * size + 1 =>
           \E k \in Nat : f[Pow2[e]] = Pow2[k] /\ Pow2[k] > size /\ Pow2[k] <= 2 * size + 1
<1> DEFINE Good(e) ==
             \E k \in Nat : f[Pow2[e]] = Pow2[k] /\ Pow2[k] > size /\ Pow2[k] <= 2 * size + 1
           N == {n \in Nat : \A e \in Nat : (2 * size + 1) - Pow2[e] < n /\ Pow2[e] <= 2 * size + 1
                                              => Good(e)}
<1>1. 0 \in N BY Pow2Type
<1>2. ASSUME NEW n \in N PROVE n + 1 \in N
  <2> SUFFICES ASSUME NEW e \in Nat, (2 * size + 1) - Pow2[e] < n + 1, Pow2[e] <= 2 * size + 1
               PROVE  Good(e)
    OBVIOUS
  <2>1. Pow2[e] \in Nat /\ Pow2[e] > 0 BY Pow2Type
  <2>2. f[Pow2[e]] = IF Pow2[e] <= size THEN f[2 * Pow2[e]] ELSE Pow2[e] BY <2>1 DEF Grows
  <2>3. CASE Pow2[e] <= size
    <3>1. Pow2[e + 1] = 2 * Pow2[e] BY Pow2Recursion
    <3>2. (2 * size + 1) - Pow2[e + 1] < n /\ Pow2[e + 1] <= 2 * size + 1 BY <2>1, <2>3, <3>1
    <3>3. Good(e + 1)
      <4> HIDE DEF Good
      <4> QED BY <3>2
    <3> QED BY <2>2, <2>3, <3>1, <3>3
  <2>4. CASE ~(Pow2[e] <= size) BY <2>1, <2>2, <2>4
  <2> QED BY <2>3, <2>4
<1>3. N = Nat
  <2> HIDE DEF N
  <2>1. N \in SUBSET Nat BY DEF N
  <2> QED BY <1>1, <1>2, <2>1, NumberInduction
<1> HIDE DEF Good
<1>4. ASSUME NEW e \in Nat, Pow2[e] <= 2 * size + 1 PROVE Good(e)
  <2> DEFINE n == (2 * size + 1) - Pow2[e]
  <2>1. n + 1 \in Nat /\ n < n + 1 BY <1>4, Pow2Type
  <2> HIDE DEF n
  <2>2. n + 1 \in {m \in Nat : \A d \in Nat : (2 * size + 1) - Pow2[d] < m /\ Pow2[d] <= 2 * size + 1
                                                => Good(d)}
    BY <1>3, <2>1
  <2> QED BY <1>4, <2>1, <2>2 DEF n
<1> QED BY <1>4 DEF Good

LEMMA NextPowerHolds ==
  ASSUME NEW size \in Nat
  PROVE  \E k \in Nat : /\ NextPower(size) = Pow2[k]
                        /\ Pow2[k] > size /\ Pow2[k] <= 2 * size + 1
<1> DEFINE f == CHOOSE g : Grows(g, size)
<1>1. Grows(f, size) BY GrowthExists
<1>2. NextPower(size) = f[1] BY Zenon DEF NextPower, Grows
<1> HIDE DEF f
<1>3. Pow2[0] = 1 /\ 1 <= 2 * size + 1 BY Pow2Recursion
<1>4. \E k \in Nat : f[Pow2[0]] = Pow2[k] /\ Pow2[k] > size /\ Pow2[k] <= 2 * size + 1
  BY <1>1, <1>3, GrowthHolds
<1> QED BY <1>2, <1>3, <1>4

LEMMA FieldBucketsType == \A size \in Nat : FieldBucketOverhead(size) \in Nat
<1> TAKE size \in Nat
<1>1. PICK k \in Nat : NextPower(size) = Pow2[k] BY NextPowerHolds
<1>2. NextPower(size) \in Nat BY <1>1, Pow2Type
<1>3. NextPower(size) * pointerSize \in Nat /\ (NextPower(size) \div 2) * pointerSize \in Nat
  BY <1>2 DEF pointerSize
<1> QED BY <1>3, AllocationHolds DEF FieldBucketOverhead

\* FieldBucketOverhead: the larger table has a bucket for every element and at
\* most one more than twice as many, and both tables are counted, for any number
\* of elements.
THEOREM BucketsHoldAny == \A count \in Nat : BucketsHoldAll(count)
<1> TAKE count \in Nat
<1> DEFINE power == NextPower(count)
<1>1. PICK k \in Nat : power = Pow2[k] /\ Pow2[k] > count /\ Pow2[k] <= 2 * count + 1
  BY NextPowerHolds
<1>2. power \in Nat BY <1>1, Pow2Type
<1>3. k \in 0 .. count
  <2>1. CASE k = 0 BY <2>1
  <2>2. CASE k # 0
    <3>1. k - 1 \in Nat /\ (k - 1) + 1 = k BY <2>2
    <3>2. Pow2[k] = 2 * Pow2[k - 1] BY <3>1, Pow2Recursion
    <3>3. Pow2[k - 1] \in Nat /\ k - 1 < Pow2[k - 1] BY <3>1, Pow2Type
    <3> QED BY <1>1, <3>1, <3>2, <3>3
  <2> QED BY <2>1, <2>2
<1>4. FieldBucketOverhead(count) >= pointerSize * (power + power \div 2)
  <2> DEFINE large == power * pointerSize
             small == (power \div 2) * pointerSize
  <2>1. large \in Nat /\ small \in Nat BY <1>2 DEF pointerSize
  <2>2. large + small = pointerSize * (power + power \div 2) BY <1>2 DEF pointerSize
  <2>3. FieldBucketOverhead(count) = MallocOverhead(large) + MallocOverhead(small)
    BY DEF FieldBucketOverhead
  <2> HIDE DEF large, small
  <2>4. /\ MallocOverhead(large) \in Nat /\ MallocOverhead(large) >= large
        /\ MallocOverhead(small) \in Nat /\ MallocOverhead(small) >= small
    BY <2>1, AllocationHolds
  <2> HIDE DEF power
  <2> QED BY <2>1, <2>2, <2>3, <2>4
<1> QED BY <1>1, <1>3, <1>4 DEF BucketsHoldAll

\* The contents of a file.
Bytes == Seq(Byte)

---------------------------------------------------------------------------
(* Numbers in bytes *)

\* The function that Horner evaluates up to n digits with.
Evaluates(f, n, start, base, digits) ==
  f = [i \in 0 .. n |-> IF i = 0 THEN start ELSE base * f[i - 1] + digits[i]]

LEMMA EvaluationExists ==
  ASSUME NEW start, NEW base, NEW digits
  PROVE  \A n \in Nat : \E f : Evaluates(f, n, start, base, digits)
<1> DEFINE N == {n \in Nat : \E f : Evaluates(f, n, start, base, digits)}
<1>1. 0 \in N
  <2>1. Evaluates([i \in 0 .. 0 |-> start], 0, start, base, digits) BY DEF Evaluates
  <2> QED BY <2>1
<1>2. ASSUME NEW n \in N PROVE n + 1 \in N
  <2>1. n \in Nat OBVIOUS
  <2>2. PICK f : Evaluates(f, n, start, base, digits) OBVIOUS
  <2> DEFINE g == [i \in 0 .. n + 1 |-> IF i \in 0 .. n THEN f[i] ELSE base * f[n] + digits[n + 1]]
  <2>3. g[0] = start BY <2>1, <2>2 DEF Evaluates
  <2>4. ASSUME NEW i \in 0 .. n + 1, i # 0 PROVE g[i] = base * g[i - 1] + digits[i]
    <3>1. CASE i = n + 1
      <4>1. g[i - 1] = f[n] /\ g[i] = base * f[n] + digits[i] BY <2>1, <3>1
      <4> QED BY <4>1
    <3>2. CASE i # n + 1
      <4>1. i \in 0 .. n /\ i - 1 \in 0 .. n BY <2>1, <2>4, <3>2
      <4>2. g[i] = f[i] /\ g[i - 1] = f[i - 1] BY <2>1, <4>1
      <4>3. f[i] = base * f[i - 1] + digits[i] BY <2>2, <2>4, <4>1 DEF Evaluates
      <4> QED BY <4>2, <4>3
    <3> QED BY <3>1, <3>2
  <2>5. g = [i \in 0 .. n + 1 |-> g[i]] OBVIOUS
  <2> HIDE DEF g
  <2>6. Evaluates(g, n + 1, start, base, digits) BY <2>3, <2>4, <2>5 DEF Evaluates
  <2> QED BY <2>1, <2>6
<1>3. N = Nat
  <2> HIDE DEF N
  <2>1. N \in SUBSET Nat BY DEF N
  <2> QED BY <1>1, <1>2, <2>1, NumberInduction
<1> QED BY <1>3

LEMMA HornerEvaluates ==
  ASSUME NEW start, NEW base, NEW digits, Len(digits) \in Nat
  PROVE  \E f : Evaluates(f, Len(digits), start, base, digits) /\ Horner(start, base, digits) = f[Len(digits)]
<1> DEFINE f == CHOOSE g : Evaluates(g, Len(digits), start, base, digits)
<1>1. Evaluates(f, Len(digits), start, base, digits) BY EvaluationExists
<1>2. Horner(start, base, digits) = f[Len(digits)] BY Zenon DEF Horner, Evaluates
<1> HIDE DEF f
<1> QED BY <1>1, <1>2

LEMMA HornerOfNone ==
  ASSUME NEW start, NEW base
  PROVE  Horner(start, base, <<>>) = start
<1>1. Len(<<>>) = 0 OBVIOUS
<1>2. PICK f : Evaluates(f, Len(<<>>), start, base, <<>>) /\ Horner(start, base, <<>>) = f[Len(<<>>)]
  BY <1>1, HornerEvaluates
<1> QED BY <1>1, <1>2 DEF Evaluates

LEMMA HornerAppends ==
  ASSUME NEW start, NEW base, NEW digits \in Seq(Int), NEW d \in Int
  PROVE  Horner(start, base, Append(digits, d)) = base * Horner(start, base, digits) + d
<1> DEFINE n == Len(digits)
           more == Append(digits, d)
<1>1. n \in Nat /\ Len(more) = n + 1 OBVIOUS
<1>2. \A i \in 1 .. n : more[i] = digits[i] OBVIOUS
<1>3. more[n + 1] = d OBVIOUS
<1>4. PICK f : Evaluates(f, n, start, base, digits) /\ Horner(start, base, digits) = f[n]
  BY <1>1, HornerEvaluates
<1>5. PICK g : Evaluates(g, n + 1, start, base, more) /\ Horner(start, base, more) = g[n + 1]
  <2>1. Len(more) \in Nat BY <1>1
  <2>2. \E g : Evaluates(g, Len(more), start, base, more) /\ Horner(start, base, more) = g[Len(more)]
    <3> HIDE DEF more
    <3> QED BY <2>1, HornerEvaluates
  <2> QED BY <1>1, <2>2
<1> HIDE DEF n, more
<1> DEFINE M == {i \in Nat : i <= n => g[i] = f[i]}
<1>6. 0 \in M BY <1>1, <1>4, <1>5 DEF Evaluates
<1>7. ASSUME NEW i \in M PROVE i + 1 \in M
  <2> SUFFICES ASSUME i + 1 <= n PROVE g[i + 1] = f[i + 1] OBVIOUS
  <2>1. i + 1 \in 1 .. n /\ (i + 1) - 1 = i BY <1>1
  <2>2. g[i] = f[i] BY <1>1
  <2>3. f[i + 1] = base * f[i] + digits[i + 1] BY <1>1, <1>4, <2>1 DEF Evaluates
  <2>4. g[i + 1] = base * g[i] + more[i + 1] BY <1>1, <1>5, <2>1 DEF Evaluates
  <2> QED BY <1>2, <2>1, <2>2, <2>3, <2>4
<1>8. M = Nat
  <2> HIDE DEF M
  <2>1. M \in SUBSET Nat BY DEF M
  <2> QED BY <1>6, <1>7, <2>1, NumberInduction
<1>9. g[n] = f[n] BY <1>1, <1>8
<1>10. g[n + 1] = base * g[n] + more[n + 1] BY <1>1, <1>5 DEF Evaluates
<1> QED BY <1>3, <1>4, <1>5, <1>9, <1>10 DEF more

LEMMA HornerType ==
  ASSUME NEW start \in Int, NEW base \in Int, NEW digits \in Seq(Int)
  PROVE  Horner(start, base, digits) \in Int
<1> DEFINE n == Len(digits)
<1>1. n \in Nat OBVIOUS
<1>2. PICK f : Evaluates(f, n, start, base, digits) /\ Horner(start, base, digits) = f[n]
  BY <1>1, HornerEvaluates
<1> DEFINE M == {i \in Nat : i <= n => f[i] \in Int}
<1>3. 0 \in M BY <1>1, <1>2 DEF Evaluates
<1>4. ASSUME NEW i \in M PROVE i + 1 \in M
  <2> SUFFICES ASSUME i + 1 <= n PROVE f[i + 1] \in Int OBVIOUS
  <2>1. i + 1 \in 1 .. n /\ (i + 1) - 1 = i BY <1>1
  <2>2. f[i] \in Int /\ digits[i + 1] \in Int BY <1>1, <2>1
  <2>3. f[i + 1] = base * f[i] + digits[i + 1] BY <1>1, <1>2, <2>1 DEF Evaluates
  <2>4. base * f[i] \in Int BY <2>2
  <2> QED BY <2>2, <2>3, <2>4
<1>5. M = Nat
  <2> HIDE DEF M
  <2>1. M \in SUBSET Nat BY DEF M
  <2> QED BY <1>3, <1>4, <2>1, NumberInduction
<1> QED BY <1>1, <1>2, <1>5

LEMMA ReversePrepends ==
  ASSUME NEW S, NEW rest \in Seq(S), NEW b \in S
  PROVE  /\ Reverse(<<b>> \o rest) = Append(Reverse(rest), b)
         /\ Reverse(rest) \in Seq(S)
         /\ Len(Reverse(rest)) = Len(rest)
<1>1. Reverse(rest) \in Seq(S) /\ Len(Reverse(rest)) = Len(rest) BY DEF Reverse
<1> DEFINE s == <<b>> \o rest
<1>2. Len(s) = Len(rest) + 1 /\ Len(rest) \in Nat /\ s \in Seq(S) /\ s[1] = b OBVIOUS
<1>3. \A i \in 1 .. Len(rest) : s[i + 1] = rest[i] OBVIOUS
<1> HIDE DEF s
<1>4. Reverse(s) \in Seq(S) /\ Len(Reverse(s)) = Len(s) BY <1>2 DEF Reverse
<1> DEFINE t == Append(Reverse(rest), b)
<1>5. t \in Seq(S) /\ Len(t) = Len(s) BY <1>1, <1>2
<1>6. ASSUME NEW i \in 1 .. Len(s) PROVE Reverse(s)[i] = t[i]
  <2>1. CASE i = Len(s)
    <3>1. Reverse(s)[i] = b BY <1>2, <2>1 DEF Reverse
    <3>2. t[i] = b BY <1>1, <1>2, <2>1
    <3> QED BY <3>1, <3>2
  <2>2. CASE i # Len(s)
    <3>1. i \in 1 .. Len(rest) /\ (Len(rest) - i) + 1 \in 1 .. Len(rest) BY <1>2, <2>2
    <3>2. t[i] = rest[(Len(rest) - i) + 1] BY <1>1, <3>1 DEF Reverse
    <3>3. Reverse(s)[i] = s[((Len(rest) - i) + 1) + 1] BY <1>2, <3>1 DEF Reverse
    <3> QED BY <1>3, <3>1, <3>2, <3>3
  <2> QED BY <2>1, <2>2
<1> HIDE DEF t
<1>7. Reverse(s) = t BY <1>4, <1>5, <1>6, SeqEqual
<1> QED BY <1>1, <1>7 DEF s, t

LEMMA LittleEndianPrepends ==
  ASSUME NEW b \in Int, NEW rest \in Seq(Int)
  PROVE  /\ LittleEndian(<<b>> \o rest) = 256 * LittleEndian(rest) + b
         /\ LittleEndian(rest) \in Int
<1>1. Reverse(<<b>> \o rest) = Append(Reverse(rest), b) /\ Reverse(rest) \in Seq(Int)
  BY ReversePrepends
<1>2. Horner(0, 256, Append(Reverse(rest), b)) = 256 * Horner(0, 256, Reverse(rest)) + b
  BY <1>1, HornerAppends
<1>3. Horner(0, 256, Reverse(rest)) \in Int BY <1>1, HornerType
<1> QED BY <1>1, <1>2, <1>3 DEF LittleEndian, BigEndian

\* The function that IntBytes chooses.
Splits(f) ==
  f = [p \in Int \X Nat |->
         IF p[2] = 0 THEN <<>> ELSE <<p[1] % 256>> \o f[<<p[1] \div 256, p[2] - 1>>]]

LEMMA SplitsExists == \E f : Splits(f) /\ f \in [Int \X Nat -> Bytes]
<1> DEFINE D == Int \X Nat
           Step(g, p) == IF p[2] = 0 THEN <<>> ELSE <<p[1] % 256>> \o g[<<p[1] \div 256, p[2] - 1>>]
           step == [g \in [D -> Bytes] |-> [p \in D |-> Step(g, p)]]
           rank == [p \in D |-> p[2]]
<1>1. ASSUME NEW g \in [D -> Bytes], NEW p \in D PROVE Step(g, p) \in Bytes
  <2>1. CASE p[2] = 0 BY <2>1 DEF Bytes
  <2>2. CASE p[2] # 0
    <3>1. <<p[1] \div 256, p[2] - 1>> \in D BY <2>2
    <3>2. p[1] % 256 \in Byte BY DEF Byte
    <3>3. <<p[1] % 256>> \in Bytes BY <3>2 DEF Bytes
    <3>4. g[<<p[1] \div 256, p[2] - 1>>] \in Bytes BY <3>1
    <3> QED BY <2>2, <3>3, <3>4 DEF Bytes
  <2> QED BY <2>1, <2>2
<1>2. ASSUME NEW g \in [D -> Bytes], NEW h \in [D -> Bytes], NEW p \in D,
             \A q \in D : rank[q] < rank[p] => g[q] = h[q]
      PROVE  Step(g, p) = Step(h, p)
  <2>1. CASE p[2] = 0 BY <2>1
  <2>2. CASE p[2] # 0
    <3> DEFINE q == <<p[1] \div 256, p[2] - 1>>
    <3>1. q \in D /\ rank[q] < rank[p] BY <2>2
    <3>2. g[q] = h[q] BY <1>2, <3>1
    <3> QED BY <2>2, <3>2
  <2> QED BY <2>1, <2>2
<1>3. rank \in [D -> Nat] OBVIOUS
<1> HIDE DEF rank, Step, D
<1>4. Descends(step, rank, D, Bytes)
  <2>1. \A g \in [D -> Bytes] : step[g] = [p \in D |-> Step(g, p)] OBVIOUS
  <2>2. step \in [[D -> Bytes] -> [D -> Bytes]] BY <1>1
  <2> HIDE DEF step
  <2>3. \A g \in [D -> Bytes], p \in D : step[g][p] = Step(g, p) BY <2>1
  <2> QED BY <1>2, <1>3, <2>2, <2>3 DEF Descends
<1>5. Bytes # {}
  <2>1. <<>> \in Bytes BY DEF Bytes
  <2> QED BY <2>1
<1>6. PICK f : f \in [D -> Bytes] /\ f = step[f]
  <2> HIDE DEF step
  <2> QED BY <1>4, <1>5, RecursionByRank
<1>7. f = [p \in D |-> Step(f, p)] BY <1>6 DEF step
<1>8. Splits(f) BY Zenon, <1>7 DEF Splits, D, Step
<1> QED BY <1>6, <1>8 DEF D

LEMMA BytesAreNumbers == \A s \in Bytes : s \in Seq(Int) /\ s \in Seq(Nat)
<1>1. Byte \subseteq Int /\ Byte \subseteq Nat BY DEF Byte
<1> QED BY <1>1, SeqMonotonic DEF Bytes

LEMMA IntBytesOfNone == \A v \in Int : IntBytes(v, 0) = <<>>
<1> TAKE v \in Int
<1> DEFINE f == CHOOSE g : Splits(g)
           p == <<v, 0>>
<1>1. Splits(f) BY SplitsExists
<1>2. IntBytes(v, 0) = f[p] BY Zenon DEF IntBytes, Splits
<1>3. p \in Int \X Nat /\ p[2] = 0 OBVIOUS
<1> HIDE DEF f, p
<1>4. f[p] = IF p[2] = 0 THEN <<>> ELSE <<p[1] % 256>> \o f[<<p[1] \div 256, p[2] - 1>>]
  BY <1>1, <1>3 DEF Splits
<1> QED BY <1>2, <1>3, <1>4

\* v in more bytes is its low byte and the rest of it in w of them.
Divides(v, w, more, low, high) ==
  v \in Int /\ w \in Nat /\ more = w + 1 /\ low = v % 256 /\ high = v \div 256

SplitsOff(v, w, more, low, high) == IntBytes(v, more) = <<low>> \o IntBytes(high, w)

LEMMA IntBytesOfMore ==
  \A v, w, more, low, high : Divides(v, w, more, low, high) => SplitsOff(v, w, more, low, high)
<1> TAKE v, w, more, low, high
<1> HAVE Divides(v, w, more, low, high)
<1> USE DEF Divides
<1> DEFINE f == CHOOSE g : Splits(g)
           p == <<v, more>>
           q == <<high, w>>
<1>1. Splits(f) BY SplitsExists
<1>2. IntBytes(v, more) = f[p] /\ IntBytes(high, w) = f[q] BY Zenon DEF IntBytes, Splits
<1>3. p \in Int \X Nat /\ p[1] % 256 = low /\ p[2] # 0 /\ <<p[1] \div 256, p[2] - 1>> = q OBVIOUS
<1> HIDE DEF f, p, q
<1>4. f[p] = IF p[2] = 0 THEN <<>> ELSE <<p[1] % 256>> \o f[<<p[1] \div 256, p[2] - 1>>]
  BY <1>1, <1>3 DEF Splits
<1> QED BY <1>2, <1>3, <1>4 DEF SplitsOff

LEMMA IntBytesType ==
  \A v \in Int, w \in Nat : IntBytes(v, w) \in Bytes /\ Len(IntBytes(v, w)) = w
<1> DEFINE Good(w) == \A v \in Int : IntBytes(v, w) \in Bytes /\ Len(IntBytes(v, w)) = w
           N == {w \in Nat : Good(w)}
<1>1. 0 \in N
  <2> SUFFICES ASSUME NEW v \in Int PROVE IntBytes(v, 0) \in Bytes /\ Len(IntBytes(v, 0)) = 0 OBVIOUS
  <2>1. IntBytes(v, 0) = <<>> BY Zenon, IntBytesOfNone
  <2>2. <<>> \in Bytes /\ Len(<<>>) = 0 BY DEF Bytes
  <2> QED BY Zenon, <2>1, <2>2
<1>2. ASSUME NEW w \in N PROVE w + 1 \in N
  <2>1. PICK more : more = w + 1 /\ w \in Nat OBVIOUS
  <2>2. ASSUME NEW v \in Int PROVE IntBytes(v, more) \in Bytes /\ Len(IntBytes(v, more)) = more
    <3>1. PICK low, high : Divides(v, w, more, low, high) BY <2>1 DEF Divides
    <3>2. SplitsOff(v, w, more, low, high) BY <3>1, IntBytesOfMore
    <3>3. high \in Int /\ low \in Byte BY <3>1 DEF Divides, Byte
    <3>4. PICK rest \in Bytes : rest = IntBytes(high, w) /\ Len(rest) = w BY <3>3
    <3>5. <<low>> \o rest \in Bytes /\ Len(<<low>> \o rest) = more
      BY <2>1, <3>3, <3>4 DEF Bytes
    <3>6. IntBytes(v, more) = <<low>> \o rest BY <3>2, <3>4 DEF SplitsOff
    <3> QED BY <3>5, <3>6
  <2>3. Good(more) BY <2>2
  <2> HIDE DEF Good
  <2> QED BY <2>1, <2>3
<1>3. N = Nat
  <2> HIDE DEF N
  <2>1. N \in SUBSET Nat BY DEF N
  <2> QED BY <1>1, <1>2, <2>1, NumberInduction
<1> QED BY <1>3

\* w bytes hold the numbers up to m, and the integers from -g - 1 to g.
HoldsUnsigned(w, m) == \A v \in 0 .. m : LittleEndian(IntBytes(v, w)) = v

HoldsSigned(w, g) == \A v \in -g - 1 .. g : Signed(IntBytes(v, w)) = v

LEMMA SignedPrepends ==
  ASSUME NEW b \in Byte, NEW rest \in Bytes
  PROVE  Signed(<<b>> \o rest) = IF rest = <<>> THEN IF b < 128 THEN b ELSE b - 256
                                 ELSE 256 * Signed(rest) + b
<1> DEFINE s == <<b>> \o rest
<1>1. s \in Bytes /\ Len(s) = Len(rest) + 1 /\ Len(rest) \in Nat /\ s[1] = b BY DEF Bytes
<1>2. \A i \in 1 .. Len(rest) : s[i + 1] = rest[i] BY DEF Bytes
<1> DEFINE Top(t) == IF Last(t) < 128 THEN Last(t) ELSE Last(t) - 256
<1>3. \A t : Signed(t) = Horner(Top(t), 256, Reverse(Front(t))) BY DEF Signed
<1>4. CASE rest = <<>>
  <2>1. Front(s) = <<>> BY <1>1, <1>4 DEF Front
  <2>2. Reverse(Front(s)) = <<>> BY <2>1 DEF Reverse
  <2>3. Last(s) = b BY <1>1, <1>4 DEF Last
  <2> QED BY <1>3, <1>4, <2>2, <2>3, HornerOfNone
<1>5. CASE rest # <<>>
  <2>1. Len(rest) # 0 BY <1>1, <1>5 DEF Bytes
  <2>2. Last(s) = Last(rest)
    <3>1. s[Len(rest) + 1] = rest[Len(rest)] BY <1>1, <1>2, <2>1
    <3> QED BY <1>1, <3>1 DEF Last
  <2>3. Front(rest) \in Bytes /\ Len(Front(rest)) = Len(rest) - 1
    <3>1. \A i \in 1 .. Len(rest) - 1 : rest[i] \in Byte BY DEF Bytes
    <3>2. 1 \in Int /\ Len(rest) - 1 \in Int /\ (Len(rest) - 1) - 1 + 1 = Len(rest) - 1 BY <1>1
    <3>3. SubSeq(rest, 1, Len(rest) - 1) \in Seq(Byte) BY <3>1, <3>2, SubSeqProperties
    <3>4. Len(SubSeq(rest, 1, Len(rest) - 1)) = Len(rest) - 1 BY <1>1, <2>1, <3>1, <3>2, SubSeqProperties
    <3> QED BY <3>3, <3>4 DEF Front, Bytes
  <2>4. Front(s) = <<b>> \o Front(rest)
    <3>1. Front(s) \in Bytes /\ Len(Front(s)) = Len(rest) BY <1>1, <2>1 DEF Front, Bytes
    <3>2. <<b>> \o Front(rest) \in Bytes /\ Len(<<b>> \o Front(rest)) = Len(rest)
      BY <1>1, <2>1, <2>3 DEF Bytes
    <3>3. ASSUME NEW i \in 1 .. Len(rest) PROVE Front(s)[i] = (<<b>> \o Front(rest))[i]
      <4>1. Front(s)[i] = s[i] BY <1>1 DEF Front, Bytes
      <4>2. CASE i = 1 BY <1>1, <2>3, <4>1, <4>2 DEF Bytes
      <4>3. CASE i # 1
        <5>1. i - 1 \in 1 .. Len(rest) /\ i - 1 \in 1 .. Len(Front(rest)) BY <1>1, <2>3, <4>3
        <5>2. s[i] = rest[i - 1] BY <1>2, <5>1
        <5>3. Front(rest)[i - 1] = rest[i - 1] BY <1>1, <2>3, <5>1 DEF Front, Bytes
        <5>4. (<<b>> \o Front(rest))[i] = Front(rest)[i - 1] BY <2>3, <4>3, <5>1 DEF Bytes
        <5> QED BY <4>1, <5>2, <5>3, <5>4
      <4> QED BY <4>2, <4>3
    <3> QED BY <3>1, <3>2, <3>3, SeqEqual DEF Bytes
  <2>5. Reverse(Front(s)) = Append(Reverse(Front(rest)), b) /\ Reverse(Front(rest)) \in Bytes
    BY <2>3, <2>4, ReversePrepends DEF Bytes
  <2>6. Reverse(Front(rest)) \in Seq(Int) /\ b \in Int BY <2>5, BytesAreNumbers DEF Byte
  <2>7. Horner(Top(rest), 256, Append(Reverse(Front(rest)), b))
          = 256 * Horner(Top(rest), 256, Reverse(Front(rest))) + b
    BY <2>6, HornerAppends
  <2>8. Signed(s) = Horner(Top(rest), 256, Append(Reverse(Front(rest)), b)) BY <1>3, <2>2, <2>5
  <2> QED BY <1>3, <1>5, <2>7, <2>8
<1> QED BY <1>4, <1>5

\* A byte more than w holds 256 times as many numbers, the limit being n.
Widens(w, m, more, n) ==
  w \in Nat /\ m \in Nat /\ more = w + 1 /\ n = 256 * m + 255

LEMMA UnsignedWidens ==
  \A w, m, more, n : Widens(w, m, more, n) /\ HoldsUnsigned(w, m) => HoldsUnsigned(more, n)
<1> TAKE w, m, more, n
<1> HAVE Widens(w, m, more, n) /\ HoldsUnsigned(w, m)
<1>1. w \in Nat /\ m \in Nat /\ more = w + 1 /\ n = 256 * m + 255 BY DEF Widens
<1> SUFFICES ASSUME NEW v \in 0 .. n PROVE LittleEndian(IntBytes(v, more)) = v BY DEF HoldsUnsigned
<1>2. v \in Int BY <1>1
<1>3. PICK low, high : low = v % 256 /\ high = v \div 256 BY <1>2
<1>4. Divides(v, w, more, low, high) BY <1>1, <1>2, <1>3 DEF Divides
<1>5. SplitsOff(v, w, more, low, high) BY <1>4, IntBytesOfMore
<1>6. PICK rest : rest = IntBytes(high, w) OBVIOUS
<1>7. high \in 0 .. m /\ high \in Int /\ low \in Int /\ v = 256 * high + low
  BY <1>1, <1>2, <1>3
<1>8. rest \in Seq(Int) BY <1>1, <1>6, <1>7, IntBytesType, BytesAreNumbers
<1>9. LittleEndian(rest) = high BY <1>6, <1>7 DEF HoldsUnsigned
<1>10. LittleEndian(<<low>> \o rest) = 256 * high + low BY <1>7, <1>8, <1>9, LittleEndianPrepends
<1> QED BY <1>5, <1>6, <1>7, <1>10 DEF SplitsOff

LEMMA SignedWidens ==
  \A w, g, more, n : Widens(w, g, more, n) /\ w # 0 /\ HoldsSigned(w, g)
                       => HoldsSigned(more, n)
<1> TAKE w, g, more, n
<1> HAVE Widens(w, g, more, n) /\ w # 0 /\ HoldsSigned(w, g)
<1>1. w \in Nat /\ g \in Nat /\ more = w + 1 /\ n = 256 * g + 255 BY DEF Widens
<1> SUFFICES ASSUME NEW v \in -n - 1 .. n PROVE Signed(IntBytes(v, more)) = v BY DEF HoldsSigned
<1>2. v \in Int BY <1>1
<1>3. PICK low, high : low = v % 256 /\ high = v \div 256 BY <1>2
<1>4. Divides(v, w, more, low, high) BY <1>1, <1>2, <1>3 DEF Divides
<1>5. SplitsOff(v, w, more, low, high) BY <1>4, IntBytesOfMore
<1>6. PICK rest : rest = IntBytes(high, w) OBVIOUS
<1>7. high \in -g - 1 .. g /\ low \in Byte /\ v = 256 * high + low
  BY <1>1, <1>2, <1>3 DEF Byte
<1>8. high \in Int BY <1>1, <1>7
<1>9. Len(rest) = w BY <1>1, <1>6, <1>8, IntBytesType
<1>10. rest \in Bytes BY <1>1, <1>6, <1>8, IntBytesType
<1>11. Signed(rest) = high BY <1>6, <1>7 DEF HoldsSigned
<1>12. rest # <<>> BY <1>9
<1>13. Signed(<<low>> \o rest) = 256 * high + low BY <1>7, <1>10, <1>11, <1>12, SignedPrepends
<1> QED BY <1>5, <1>6, <1>7, <1>13 DEF SplitsOff

LEMMA ByteHolds == HoldsUnsigned(0, 0) /\ HoldsUnsigned(1, 255) /\ HoldsSigned(1, 127)
<1>1. HoldsUnsigned(0, 0)
  <2> SUFFICES ASSUME NEW v \in 0 .. 0 PROVE LittleEndian(IntBytes(v, 0)) = v
    BY DEF HoldsUnsigned
  <2>2. v = 0 /\ v \in Int OBVIOUS
  <2>1. IntBytes(v, 0) = <<>> BY Zenon, <2>2, IntBytesOfNone
  <2>3. Reverse(<<>>) = <<>> BY DEF Reverse
  <2>4. LittleEndian(<<>>) = 0 BY Zenon, <2>3, HornerOfNone DEF LittleEndian, BigEndian
  <2> QED BY Zenon, <2>1, <2>2, <2>4
<1>2. HoldsUnsigned(1, 255)
  <2>1. Widens(0, 0, 1, 255) BY DEF Widens
  <2> QED BY Zenon, <1>1, <2>1, UnsignedWidens
<1>3. HoldsSigned(1, 127)
  <2> SUFFICES ASSUME NEW v \in -127 - 1 .. 127 PROVE Signed(IntBytes(v, 1)) = v BY DEF HoldsSigned
  <2>1. v \in Int OBVIOUS
  <2>2. PICK low, high : low = v % 256 /\ high = v \div 256 OBVIOUS
  <2>3. Divides(v, 0, 1, low, high) BY <2>1, <2>2 DEF Divides
  <2>4. SplitsOff(v, 0, 1, low, high) BY Zenon, <2>3, IntBytesOfMore
  <2>5. high \in Int /\ low \in Byte BY <2>1, <2>2 DEF Byte
  <2>6. IntBytes(high, 0) = <<>> BY Zenon, <2>5, IntBytesOfNone
  <2>7. IntBytes(v, 1) = <<low>> \o <<>> BY Zenon, <2>4, <2>6 DEF SplitsOff
  <2>8. <<>> \in Bytes BY DEF Bytes
  <2>9. Signed(<<low>> \o <<>>) = IF low < 128 THEN low ELSE low - 256
    BY ZenonT(40), <2>5, <2>8, SignedPrepends
  <2>10. v = IF low < 128 THEN low ELSE low - 256 BY <2>1, <2>2
  <2> QED BY Zenon, <2>7, <2>9, <2>10
<1> QED BY <1>1, <1>2, <1>3

\* What the widths of the format hold.
LEMMA WidthsHold ==
  \E m1, m2, m3, m4, m8 \in Nat :
    /\ m1 = 255 /\ m2 = 65535 /\ m3 = 16777215 /\ m4 = 2 * Greatest(32) + 1 /\ m8 > m4
    /\ HoldsUnsigned(1, m1) /\ HoldsUnsigned(2, m2) /\ HoldsUnsigned(3, m3)
    /\ HoldsUnsigned(4, m4) /\ HoldsUnsigned(8, m8)
<1>1. PICK w1, w2, w3, w4, w5, w6, w7, w8 \in Nat :
        /\ w1 = 1 /\ w2 = w1 + 1 /\ w3 = w2 + 1 /\ w4 = w3 + 1
        /\ w5 = w4 + 1 /\ w6 = w5 + 1 /\ w7 = w6 + 1 /\ w8 = w7 + 1
  OBVIOUS
<1>2. PICK m1, m2, m3, m4, m5, m6, m7, m8 \in Nat :
        /\ m1 = 255
        /\ m2 = 256 * m1 + 255 /\ m3 = 256 * m2 + 255 /\ m4 = 256 * m3 + 255
        /\ m5 = 256 * m4 + 255 /\ m6 = 256 * m5 + 255 /\ m7 = 256 * m6 + 255
        /\ m8 = 256 * m7 + 255
  OBVIOUS
<1>3. /\ Widens(w1, m1, w2, m2) /\ Widens(w2, m2, w3, m3) /\ Widens(w3, m3, w4, m4)
      /\ Widens(w4, m4, w5, m5) /\ Widens(w5, m5, w6, m6) /\ Widens(w6, m6, w7, m7)
      /\ Widens(w7, m7, w8, m8)
  BY <1>1, <1>2 DEF Widens
<1>4. HoldsUnsigned(w1, m1) BY <1>1, <1>2, ByteHolds
<1>5. HoldsUnsigned(w2, m2) BY <1>3, <1>4, UnsignedWidens
<1>6. HoldsUnsigned(w3, m3) BY <1>3, <1>5, UnsignedWidens
<1>7. HoldsUnsigned(w4, m4) BY <1>3, <1>6, UnsignedWidens
<1>8. HoldsUnsigned(w5, m5) BY <1>3, <1>7, UnsignedWidens
<1>9. HoldsUnsigned(w6, m6) BY <1>3, <1>8, UnsignedWidens
<1>10. HoldsUnsigned(w7, m7) BY <1>3, <1>9, UnsignedWidens
<1>11. HoldsUnsigned(w8, m8) BY <1>3, <1>10, UnsignedWidens
<1>12. w2 = 2 /\ w3 = 3 /\ w4 = 4 /\ w8 = 8 BY <1>1
<1>13. m2 = 65535 /\ m3 = 16777215 /\ m4 = 2 * Greatest(32) + 1 /\ m8 > m4 BY <1>2 DEF Greatest
<1>14. /\ HoldsUnsigned(1, m1) /\ HoldsUnsigned(2, m2) /\ HoldsUnsigned(3, m3)
       /\ HoldsUnsigned(4, m4) /\ HoldsUnsigned(8, m8)
  BY <1>1, <1>4, <1>5, <1>6, <1>7, <1>11, <1>12
<1> QED BY <1>2, <1>13, <1>14

LEMMA WidthsHoldSigned ==
  /\ HoldsSigned(1, Greatest(8)) /\ HoldsSigned(2, Greatest(16)) /\ HoldsSigned(3, Greatest(24))
  /\ HoldsSigned(4, Greatest(32)) /\ HoldsSigned(8, Greatest(32))
<1>1. PICK w1, w2, w3, w4, w5, w6, w7, w8 \in Nat :
        /\ w1 = 1 /\ w2 = w1 + 1 /\ w3 = w2 + 1 /\ w4 = w3 + 1
        /\ w5 = w4 + 1 /\ w6 = w5 + 1 /\ w7 = w6 + 1 /\ w8 = w7 + 1
  OBVIOUS
<1>2. PICK g1, g2, g3, g4, g5, g6, g7, g8 \in Nat :
        /\ g1 = 127
        /\ g2 = 256 * g1 + 255 /\ g3 = 256 * g2 + 255 /\ g4 = 256 * g3 + 255
        /\ g5 = 256 * g4 + 255 /\ g6 = 256 * g5 + 255 /\ g7 = 256 * g6 + 255
        /\ g8 = 256 * g7 + 255
  OBVIOUS
<1>3. /\ Widens(w1, g1, w2, g2) /\ Widens(w2, g2, w3, g3) /\ Widens(w3, g3, w4, g4)
      /\ Widens(w4, g4, w5, g5) /\ Widens(w5, g5, w6, g6) /\ Widens(w6, g6, w7, g7)
      /\ Widens(w7, g7, w8, g8)
  BY <1>1, <1>2 DEF Widens
<1>0. w1 # 0 /\ w2 # 0 /\ w3 # 0 /\ w4 # 0 /\ w5 # 0 /\ w6 # 0 /\ w7 # 0 BY <1>1
<1>4. HoldsSigned(w1, g1) BY <1>1, <1>2, ByteHolds
<1>5. HoldsSigned(w2, g2) BY <1>0, <1>3, <1>4, SignedWidens
<1>6. HoldsSigned(w3, g3) BY <1>0, <1>3, <1>5, SignedWidens
<1>7. HoldsSigned(w4, g4) BY <1>0, <1>3, <1>6, SignedWidens
<1>8. HoldsSigned(w5, g5) BY <1>0, <1>3, <1>7, SignedWidens
<1>9. HoldsSigned(w6, g6) BY <1>0, <1>3, <1>8, SignedWidens
<1>10. HoldsSigned(w7, g7) BY <1>0, <1>3, <1>9, SignedWidens
<1>11. HoldsSigned(w8, g8) BY <1>0, <1>3, <1>10, SignedWidens
<1>12. w2 = 2 /\ w3 = 3 /\ w4 = 4 /\ w8 = 8 BY <1>1
<1>13. g1 = Greatest(8) /\ g2 = Greatest(16) /\ g3 = Greatest(24) /\ g4 = Greatest(32)
  BY <1>2 DEF Greatest
<1>14. g4 <= g8 BY <1>2
<1>15. HoldsSigned(w8, g4)
  <2> SUFFICES ASSUME NEW v \in -g4 - 1 .. g4 PROVE Signed(IntBytes(v, w8)) = v BY DEF HoldsSigned
  <2>0. g4 \in Nat /\ g8 \in Nat BY <1>2
  <2>1. v \in -g8 - 1 .. g8
    <3>1. v \in Int /\ -g4 - 1 <= v /\ v <= g4 BY <2>0
    <3> QED BY <1>14, <2>0, <3>1
  <2> QED BY <1>11, <2>1 DEF HoldsSigned
<1> QED BY <1>1, <1>4, <1>5, <1>6, <1>7, <1>12, <1>13, <1>15

---------------------------------------------------------------------------
(* Integers in decimal *)

Decimals(f) == f = [n \in Nat |-> IF n < 10 THEN <<48 + n>> ELSE Append(f[n \div 10], 48 + (n % 10))]

LEMMA DecimalsExist == \E f : Decimals(f) /\ f \in [Nat -> Bytes]
<1> DEFINE More(g, n) == IF n < 10 THEN <<48 + n>> ELSE Append(g[n \div 10], 48 + (n % 10))
           step == [g \in [Nat -> Bytes] |-> [n \in Nat |-> More(g, n)]]
           rank == [n \in Nat |-> n]
<1>1. ASSUME NEW g \in [Nat -> Bytes], NEW n \in Nat PROVE More(g, n) \in Bytes
  <2>1. CASE n < 10
    <3>1. 48 + n \in Byte BY <2>1 DEF Byte
    <3> QED BY <2>1, <3>1 DEF Bytes
  <2>2. CASE ~(n < 10)
    <3>1. 48 + (n % 10) \in Byte BY DEF Byte
    <3>2. n \div 10 \in Nat OBVIOUS
    <3>3. g[n \div 10] \in Bytes BY <3>2
    <3> QED BY <2>2, <3>1, <3>3 DEF Bytes
  <2> QED BY <2>1, <2>2
<1>2. ASSUME NEW g \in [Nat -> Bytes], NEW h \in [Nat -> Bytes], NEW n \in Nat,
             \A q \in Nat : rank[q] < rank[n] => g[q] = h[q]
      PROVE  More(g, n) = More(h, n)
  <2>1. CASE n < 10 BY <2>1
  <2>2. CASE ~(n < 10)
    <3>1. n \div 10 \in Nat /\ rank[n \div 10] < rank[n] BY <2>2
    <3>2. g[n \div 10] = h[n \div 10] BY <1>2, <3>1
    <3> QED BY <2>2, <3>2
  <2> QED BY <2>1, <2>2
<1>3. rank \in [Nat -> Nat] OBVIOUS
<1> HIDE DEF rank, More
<1>4. Descends(step, rank, Nat, Bytes)
  <2>1. \A g \in [Nat -> Bytes] : step[g] = [n \in Nat |-> More(g, n)] OBVIOUS
  <2>2. step \in [[Nat -> Bytes] -> [Nat -> Bytes]] BY <1>1
  <2> HIDE DEF step
  <2>3. \A g \in [Nat -> Bytes], n \in Nat : step[g][n] = More(g, n) BY <2>1
  <2> QED BY <1>2, <1>3, <2>2, <2>3 DEF Descends
<1>5. Bytes # {}
  <2>1. <<>> \in Bytes BY DEF Bytes
  <2> QED BY <2>1
<1>6. PICK f : f \in [Nat -> Bytes] /\ f = step[f]
  <2> HIDE DEF step
  <2> QED BY <1>4, <1>5, RecursionByRank
<1>7. f = [n \in Nat |-> More(f, n)] BY <1>6 DEF step
<1>8. Decimals(f) BY Zenon, <1>7 DEF Decimals, More
<1> QED BY <1>6, <1>8

\* n is written with k digits at most.
Short(f, n, k) == Len(f[n]) <= k

LEMMA FormatIntDigits ==
  \E f : Decimals(f) /\ \A v \in Int : FormatInt(v) = IF v < 0 THEN <<45>> \o f[-v] ELSE f[v]
<1> DEFINE f == CHOOSE g : Decimals(g)
<1>1. Decimals(f) BY DecimalsExist
<1>2. \A v : FormatInt(v) = IF v < 0 THEN <<45>> \o f[-v] ELSE f[v] BY Zenon DEF FormatInt, Decimals
<1> HIDE DEF f
<1> QED BY <1>1, <1>2

LEMMA DecimalsType ==
  ASSUME NEW f, Decimals(f)
  PROVE  \A n \in Nat : f[n] \in Bytes
<1>1. ASSUME NEW n \in Nat
      PROVE  f[n] = IF n < 10 THEN <<48 + n>> ELSE Append(f[n \div 10], 48 + (n % 10))
  BY DEF Decimals
<1> DEFINE N == {n \in Nat : \A k \in Nat : k < n => f[k] \in Bytes}
<1>2. 0 \in N OBVIOUS
<1>3. ASSUME NEW n \in N PROVE n + 1 \in N
  <2> SUFFICES ASSUME NEW k \in Nat, k < n + 1 PROVE f[k] \in Bytes OBVIOUS
  <2>1. CASE k < 10
    <3>1. 48 + k \in Byte BY <2>1 DEF Byte
    <3>2. f[k] = <<48 + k>> BY <1>1, <2>1
    <3>3. <<48 + k>> \in Bytes BY <3>1 DEF Bytes
    <3> QED BY <3>2, <3>3
  <2>2. CASE ~(k < 10)
    <3>1. k \div 10 \in Nat /\ k \div 10 < n BY <2>2
    <3>2. PICK digits \in Bytes : digits = f[k \div 10] BY <3>1
    <3>3. 48 + (k % 10) \in Byte BY DEF Byte
    <3>4. f[k] = Append(digits, 48 + (k % 10)) BY <1>1, <2>2, <3>2
    <3>5. Append(digits, 48 + (k % 10)) \in Bytes BY <3>3 DEF Bytes
    <3> QED BY <3>4, <3>5
  <2> QED BY <2>1, <2>2
<1>4. N = Nat
  <2> HIDE DEF N
  <2>1. N \in SUBSET Nat BY DEF N
  <2> QED BY <1>2, <1>3, <2>1, NumberInduction
<1> SUFFICES ASSUME NEW n \in Nat PROVE f[n] \in Bytes OBVIOUS
<1>5. n + 1 \in N BY <1>4
<1> QED BY <1>5

LEMMA FormatIntType == \A v \in Int : FormatInt(v) \in Bytes
<1>1. PICK f : Decimals(f) /\ \A v \in Int : FormatInt(v) = IF v < 0 THEN <<45>> \o f[-v] ELSE f[v]
  BY FormatIntDigits
<1> TAKE v \in Int
<1>2. \A n \in Nat : f[n] \in Bytes BY <1>1, DecimalsType
<1>3. CASE v < 0
  <2>1. PICK n \in Nat : n = -v BY <1>3
  <2>2. PICK digits \in Bytes : digits = f[n] BY <1>2
  <2>3. 45 \in Byte BY DEF Byte
  <2>4. <<45>> \o digits \in Bytes BY <2>3 DEF Bytes
  <2>5. FormatInt(v) = <<45>> \o digits BY <1>1, <1>3, <2>1, <2>2
  <2> QED BY <2>4, <2>5
<1>4. CASE ~(v < 0)
  <2>1. v \in Nat BY <1>4
  <2>2. f[v] \in Bytes BY <1>2, <2>1
  <2> QED BY <1>1, <1>4, <2>2
<1> QED BY <1>3, <1>4

\* A number below m has k digits at most.
Within(f, m, k) == \A n \in Nat : n < m => Len(f[n]) <= k

Tenfold(m, k, more, n) == m \in Nat /\ k \in Nat /\ more = 10 * m /\ n = k + 1

LEMMA DigitsGrow ==
  \A f, m, k, more, n : Decimals(f) /\ Tenfold(m, k, more, n) /\ n > 1 /\ Within(f, m, k) => Within(f, more, n)
<1> TAKE f, m, k, more, n
<1> HAVE Decimals(f) /\ Tenfold(m, k, more, n) /\ n > 1 /\ Within(f, m, k)
<1>1. m \in Nat /\ k \in Nat /\ more = 10 * m /\ n = k + 1 BY DEF Tenfold
<1> SUFFICES ASSUME NEW i \in Nat, i < more PROVE Len(f[i]) <= n BY DEF Within
<1>2. f[i] = IF i < 10 THEN <<48 + i>> ELSE Append(f[i \div 10], 48 + (i % 10)) BY DEF Decimals
<1>3. CASE i < 10
  <2>1. Len(<<48 + i>>) = 1 OBVIOUS
  <2>2. Len(f[i]) = 1 BY <1>2, <1>3, <2>1
  <2>3. 1 <= n BY <1>1
  <2> QED BY Zenon, <2>2, <2>3
<1>4. CASE ~(i < 10)
  <2>1. i \div 10 \in Nat /\ i \div 10 < m BY <1>1, <1>4
  <2>2. Len(f[i \div 10]) <= k BY <2>1 DEF Within
  <2>3. f[i \div 10] \in Bytes BY <2>1, DecimalsType
  <2>4. 48 + (i % 10) \in Byte BY DEF Byte
  <2>5. Len(Append(f[i \div 10], 48 + (i % 10))) = Len(f[i \div 10]) + 1 /\ Len(f[i \div 10]) \in Nat
    BY <2>3, <2>4 DEF Bytes
  <2>6. Len(f[i]) = Len(f[i \div 10]) + 1 BY <1>2, <1>4, <2>5
  <2>7. n = k + 1 /\ k \in Nat BY <1>1
  <2>8. PICK l \in Nat : l = Len(f[i \div 10]) BY <2>5
  <2>9. l + 1 <= n BY <2>2, <2>7, <2>8
  <2>10. Len(f[i]) = l + 1 BY <2>6, <2>8
  <2> QED BY <2>9, <2>10
<1> QED BY <1>3, <1>4

\* The decimal of an integer that fits in 32 bits has eleven characters at most.
LEMMA FormatIntLength ==
  \A v \in Int : -Greatest(32) - 1 <= v /\ v <= Greatest(32) => Len(FormatInt(v)) <= 11
<1>1. PICK f : Decimals(f) /\ \A v \in Int : FormatInt(v) = IF v < 0 THEN <<45>> \o f[-v] ELSE f[v]
  BY FormatIntDigits
<1>2. PICK m1, m2, m3, m4, m5, m6, m7, m8, m9, m10 \in Nat :
        /\ m1 = 10 /\ m2 = 10 * m1 /\ m3 = 10 * m2 /\ m4 = 10 * m3 /\ m5 = 10 * m4
        /\ m6 = 10 * m5 /\ m7 = 10 * m6 /\ m8 = 10 * m7 /\ m9 = 10 * m8 /\ m10 = 10 * m9
  OBVIOUS
<1>3. PICK k1, k2, k3, k4, k5, k6, k7, k8, k9, k10 \in Nat :
        /\ k1 = 1 /\ k2 = k1 + 1 /\ k3 = k2 + 1 /\ k4 = k3 + 1 /\ k5 = k4 + 1
        /\ k6 = k5 + 1 /\ k7 = k6 + 1 /\ k8 = k7 + 1 /\ k9 = k8 + 1 /\ k10 = k9 + 1
  OBVIOUS
<1>4. /\ Tenfold(m1, k1, m2, k2) /\ Tenfold(m2, k2, m3, k3) /\ Tenfold(m3, k3, m4, k4)
      /\ Tenfold(m4, k4, m5, k5) /\ Tenfold(m5, k5, m6, k6) /\ Tenfold(m6, k6, m7, k7)
      /\ Tenfold(m7, k7, m8, k8) /\ Tenfold(m8, k8, m9, k9) /\ Tenfold(m9, k9, m10, k10)
  BY <1>2, <1>3 DEF Tenfold
<1>5. k2 > 1 /\ k3 > 1 /\ k4 > 1 /\ k5 > 1 /\ k6 > 1 /\ k7 > 1 /\ k8 > 1 /\ k9 > 1 /\ k10 > 1
  BY <1>3
<1>6. Within(f, m1, k1)
  <2> SUFFICES ASSUME NEW i \in Nat, i < m1 PROVE Len(f[i]) <= k1 BY DEF Within
  <2>1. f[i] = <<48 + i>> BY <1>1, <1>2 DEF Decimals
  <2>2. Len(<<48 + i>>) = 1 OBVIOUS
  <2> QED BY <1>3, <2>1, <2>2
<1>7. Within(f, m2, k2) BY <1>1, <1>4, <1>5, <1>6, DigitsGrow
<1>8. Within(f, m3, k3) BY <1>1, <1>4, <1>5, <1>7, DigitsGrow
<1>9. Within(f, m4, k4) BY <1>1, <1>4, <1>5, <1>8, DigitsGrow
<1>10. Within(f, m5, k5) BY <1>1, <1>4, <1>5, <1>9, DigitsGrow
<1>11. Within(f, m6, k6) BY <1>1, <1>4, <1>5, <1>10, DigitsGrow
<1>12. Within(f, m7, k7) BY <1>1, <1>4, <1>5, <1>11, DigitsGrow
<1>13. Within(f, m8, k8) BY <1>1, <1>4, <1>5, <1>12, DigitsGrow
<1>14. Within(f, m9, k9) BY <1>1, <1>4, <1>5, <1>13, DigitsGrow
<1>15. Within(f, m10, k10) BY <1>1, <1>4, <1>5, <1>14, DigitsGrow
<1> SUFFICES ASSUME NEW v \in Int, -Greatest(32) - 1 <= v, v <= Greatest(32)
             PROVE  Len(FormatInt(v)) <= 11
  OBVIOUS
<1>16. m10 > Greatest(32) + 1 /\ k10 = 10 BY <1>2, <1>3 DEF Greatest
<1>17. Greatest(32) \in Nat BY DEF Greatest
<1>18. CASE v < 0
  <2>1. -v \in Nat /\ -v < m10 BY <1>16, <1>17, <1>18
  <2>2. PICK n \in Nat : n = -v BY <2>1
  <2>3. Len(f[n]) <= 10 /\ f[n] \in Bytes BY <1>1, <1>15, <1>16, <2>1, <2>2, DecimalsType DEF Within
  <2>4. FormatInt(v) = <<45>> \o f[n] BY <1>1, <1>18, <2>2
  <2>5. Len(<<45>> \o f[n]) = 1 + Len(f[n]) /\ Len(f[n]) \in Nat BY <2>3 DEF Bytes
  <2> QED BY <2>3, <2>4, <2>5
<1>19. CASE ~(v < 0)
  <2>1. v \in Nat /\ v < m10 BY <1>16, <1>17, <1>19
  <2>2. Len(f[v]) <= 10 /\ f[v] \in Bytes BY <1>1, <1>15, <1>16, <2>1, DecimalsType DEF Within
  <2>3. FormatInt(v) = f[v] /\ Len(f[v]) \in Nat BY <1>1, <1>19, <2>2 DEF Bytes
  <2> QED BY <2>2, <2>3
<1> QED BY <1>18, <1>19

---------------------------------------------------------------------------
(* Readers *)

LEMMA ByteRead == \A b \in Byte, rest \in Bytes : ReadByte(<<b>> \o rest) = Got(b, rest)
<1> TAKE b \in Byte, rest \in Bytes
<1> DEFINE all == <<b>> \o rest
<1>1. Len(all) = Len(rest) + 1 /\ Len(rest) \in Nat /\ all \in Bytes /\ all[1] = b BY DEF Bytes
<1>2. all # <<>> /\ Head(all) = b BY <1>1 DEF Bytes
<1>3. Tail(all) = rest BY DEF Bytes
<1> QED BY <1>2, <1>3 DEF ReadByte

\* rd begins with bytes, n of them.
Begins(rd, bytes, n, rest) == bytes \in Bytes /\ rest \in Bytes /\ rd = bytes \o rest /\ n = Len(bytes)

LEMMA BytesRead == \A rd, bytes, n, rest : Begins(rd, bytes, n, rest) => ReadBytes(rd, n) = Got(bytes, rest)
<1> SUFFICES ASSUME NEW bytes \in Bytes, NEW rest \in Bytes
             PROVE  ReadBytes(bytes \o rest, Len(bytes)) = Got(bytes, rest)
  BY DEF Begins
<1> DEFINE all == bytes \o rest
           n == Len(bytes)
<1>1. n \in Nat /\ Len(rest) \in Nat /\ Len(all) = n + Len(rest) /\ all \in Bytes BY DEF Bytes
<1>2. n \in 0 .. Len(all) BY <1>1
<1>3. SubSeq(all, 1, n) = bytes BY DEF Bytes
<1>4. SubSeq(all, n + 1, Len(all)) = rest BY DEF Bytes
<1> QED BY <1>2, <1>3, <1>4 DEF ReadBytes

---------------------------------------------------------------------------
(* Lengths *)

\* The numbers of 32 bits.
Word == 0 .. 2 * Greatest(32) + 1

Plainly(n, rest) == Got([len |-> n, special |-> FALSE], rest)

\* bytes are the length n, whatever follows.
IsLength(bytes, n) ==
  bytes \in Bytes /\ \A rest \in Bytes : readEncodedLength(bytes \o rest) = Plainly(n, rest)

\* What readEncodedLength makes of its first byte and the reader after it.
LengthAfter(first, rest) ==
  CASE first < 64 -> Plainly(first, rest)
    [] first \in 64 .. 127 ->
         Convert(ReadByte(rest), LAMBDA low : [len |-> (first - 64) * 256 + low, special |-> FALSE])
    [] first = 128 -> Convert(ReadBytes(rest, 4), LAMBDA b : [len |-> BigEndian(b), special |-> FALSE])
    [] first = 129 -> Convert(ReadBytes(rest, 8), LAMBDA b : [len |-> BigEndian(b), special |-> FALSE])
    [] first \in 130 .. 191 -> Panicked
    [] OTHER -> Got([len |-> first - 192, special |-> TRUE], rest)

LEMMA LengthBegins ==
  \A rd, first, rest : ReadByte(rd) = Got(first, rest) => readEncodedLength(rd) = LengthAfter(first, rest)
<1> SUFFICES ASSUME NEW rd, NEW first, NEW rest, ReadByte(rd) = Got(first, rest)
             PROVE  readEncodedLength(rd) = LengthAfter(first, rest)
  OBVIOUS
<1> DEFINE r == ReadByte(rd)
<1>1. r.ok /\ r.val = first /\ r.rest = rest BY DEF Got
<1>2. readEncodedLength(rd) = Bind(r, LengthAfter) BY Zenon DEF readEncodedLength, LengthAfter, Plainly
<1> HIDE DEF r
<1> QED BY <1>1, <1>2 DEF Bind

LEMMA SixBits == \A n \in 0 .. 63 : IsLength(<<n>>, n)
<1> TAKE n \in 0 .. 63
<1>1. n \in Byte BY DEF Byte
<1>2. <<n>> \in Bytes BY <1>1 DEF Bytes
<1> SUFFICES ASSUME NEW rest \in Bytes PROVE readEncodedLength(<<n>> \o rest) = Plainly(n, rest)
  BY <1>2 DEF IsLength
<1> DEFINE rd == <<n>> \o rest
<1>3. ReadByte(rd) = Got(n, rest) BY <1>1, ByteRead
<1> HIDE DEF rd
<1>4. readEncodedLength(rd) = LengthAfter(n, rest) BY <1>3, LengthBegins
<1>5. n < 64 /\ n \notin 64 .. 127 /\ n # 128 /\ n # 129 /\ n \notin 130 .. 191 OBVIOUS
<1>6. LengthAfter(n, rest) = Plainly(n, rest) BY ZenonT(40), <1>5 DEF LengthAfter
<1> QED BY <1>4, <1>6 DEF rd

LEMMA PairIsConcat == \A S : \A a, b \in S : <<a>> \o <<b>> = <<a, b>>
<1> SUFFICES ASSUME NEW S, NEW a \in S, NEW b \in S PROVE <<a>> \o <<b>> = <<a, b>> OBVIOUS
<1> DEFINE s == <<a>> \o <<b>>
           t == <<a, b>>
<1>1. /\ s \in Seq(S) /\ t \in Seq(S) /\ Len(s) = 2 /\ Len(t) = 2
      /\ s[1] = a /\ s[2] = b /\ t[1] = a /\ t[2] = b
  OBVIOUS
<1> HIDE DEF s, t
<1>2. \A i \in 1 .. 2 : s[i] = t[i]
  <2> TAKE i \in 1 .. 2
  <2>1. CASE i = 1 BY <1>1, <2>1
  <2>2. CASE i = 2 BY <1>1, <2>2
  <2> QED BY <2>1, <2>2
<1>3. s = t BY <1>1, <1>2, SeqEqual
<1> QED BY <1>3 DEF s, t

\* b follows a at the beginning of rd.
TwoFirst(rd, a, b, rest) ==
  /\ <<a, b>> \in Bytes /\ <<b>> \o rest \in Bytes
  /\ <<a, b>> \o rest = <<a>> \o (<<b>> \o rest)

LEMMA TwoBytes == \A a, b \in Byte, rest \in Bytes : TwoFirst(<<a, b>> \o rest, a, b, rest)
<1> TAKE a, b \in Byte, rest \in Bytes
<1>1. rest \in Seq(Byte) /\ <<a>> \in Seq(Byte) /\ <<b>> \in Seq(Byte) /\ <<a, b>> \in Seq(Byte)
  BY DEF Bytes
<1>2. <<a>> \o <<b>> = <<a, b>> BY PairIsConcat
<1>3. (<<a>> \o <<b>>) \o rest = <<a>> \o (<<b>> \o rest) BY <1>1, ConcatAssociative
<1>4. <<b>> \o rest \in Seq(Byte) BY <1>1
<1> QED BY <1>1, <1>2, <1>3, <1>4 DEF Bytes, TwoFirst

\* n in the fourteen bits that are left of first and low.
InFourteen(n, first, low) == first \in 64 .. 127 /\ low \in Byte /\ (first - 64) * 256 + low = n

LEMMA FourteenBits == \A n, first, low : InFourteen(n, first, low) => IsLength(<<first, low>>, n)
<1> SUFFICES ASSUME NEW n, NEW first, NEW low, InFourteen(n, first, low) PROVE IsLength(<<first, low>>, n)
  OBVIOUS
<1>2. first \in 64 .. 127 /\ (first - 64) * 256 + low = n BY DEF InFourteen
<1>3. first \in Byte /\ low \in Byte BY <1>2 DEF Byte, InFourteen
<1>4. <<first, low>> \in Bytes BY <1>3 DEF Bytes
<1>5. ASSUME NEW rest \in Bytes PROVE readEncodedLength(<<first, low>> \o rest) = Plainly(n, rest)
  <2> DEFINE rd == <<first, low>> \o rest
             left == <<low>> \o rest
  <2>8. TwoFirst(<<first, low>> \o rest, first, low, rest) BY <1>3, TwoBytes
  <2>1. left \in Bytes /\ rd = <<first>> \o left BY <2>8 DEF TwoFirst
  <2> HIDE DEF rd
  <2>2. ReadByte(left) = Got(low, rest) BY <1>3, ByteRead
  <2> HIDE DEF left
  <2>3. ReadByte(rd) = Got(first, left) BY <1>3, <2>1, ByteRead
  <2>4. readEncodedLength(rd) = LengthAfter(first, left) BY <2>3, LengthBegins
  <2> DEFINE r == ReadByte(left)
  <2>5. r.ok /\ r.val = low /\ r.rest = rest BY <2>2 DEF Got
  <2>6. ~(first < 64) /\ first \in 64 .. 127 /\ first # 128 /\ first # 129 /\ first \notin 130 .. 191
    BY <1>2
  <2> HIDE DEF r
  <2>7. LengthAfter(first, left)
          = Convert(r, LAMBDA b : [len |-> (first - 64) * 256 + b, special |-> FALSE])
    BY ZenonT(40), <2>6 DEF LengthAfter, Bind, Convert, r
  <2>9. Convert(r, LAMBDA b : [len |-> (first - 64) * 256 + b, special |-> FALSE])
          = Plainly((first - 64) * 256 + low, rest)
    BY <2>5 DEF Convert, Bind, Plainly
  <2> QED BY Zenon, <1>2, <2>4, <2>7, <2>9 DEF rd
<1> QED BY <1>4, <1>5 DEF IsLength

Fourteen(n) == \E first, low : first = 64 + (n \div 256) /\ low = n % 256 /\ InFourteen(n, first, low)

LEMMA FourteenHold == \A n \in Nat : n < 16384 => Fourteen(n)
<1> SUFFICES ASSUME NEW n \in Nat, n < 16384 PROVE Fourteen(n) OBVIOUS
<1>1. PICK first, low \in Int : first = 64 + (n \div 256) /\ low = n % 256 OBVIOUS
<1>2. first \in 64 .. 127 /\ low \in 0 .. 255 /\ (first - 64) * 256 + low = n BY <1>1
<1> QED BY <1>1, <1>2 DEF Fourteen, InFourteen, Byte

LEMMA ReversedTwice == \A s \in Bytes : /\ Reverse(s) \in Bytes /\ Len(Reverse(s)) = Len(s)
                                        /\ BigEndian(Reverse(s)) = LittleEndian(s)
  BY DEF Bytes, Reverse, LittleEndian

\* The width four, or eight, and the byte that announces it.
IsWide(first, width) == (first = 128 /\ width = 4) \/ (first = 129 /\ width = 8)

LEMMA WideBits ==
  \A n \in Word : \A first, width : IsWide(first, width) => IsLength(<<first>> \o Reverse(IntBytes(n, width)), n)
<1> SUFFICES ASSUME NEW n \in Word, NEW first, NEW width, IsWide(first, width)
             PROVE  IsLength(<<first>> \o Reverse(IntBytes(n, width)), n)
  OBVIOUS
<1>1. PICK int : int = IntBytes(n, width) OBVIOUS
<1>2. first \in Nat /\ width \in Nat /\ first \in Byte BY DEF IsWide, Byte
<1>3. int \in Bytes /\ Len(int) = width /\ LittleEndian(int) = n
  <2>1. n \in Int BY DEF Word
  <2>2. PICK m : m >= 2 * Greatest(32) + 1 /\ m \in Nat /\ HoldsUnsigned(width, m)
    <3>1. PICK m4, m8 \in Nat : /\ m4 = 2 * Greatest(32) + 1 /\ m8 > m4
                                /\ HoldsUnsigned(4, m4) /\ HoldsUnsigned(8, m8)
      BY WidthsHold
    <3>2. m4 >= m4 /\ m8 >= m4 BY <3>1
    <3> QED BY <3>1, <3>2 DEF IsWide
  <2>3. n \in 0 .. m
    <3>1. PICK g \in Nat : g = 2 * Greatest(32) + 1 BY DEF Greatest
    <3> QED BY <2>2, <3>1 DEF Word
  <2>4. LittleEndian(int) = n BY <1>1, <2>2, <2>3 DEF HoldsUnsigned
  <2> QED BY <1>1, <1>2, <2>1, <2>4, IntBytesType
<1> DEFINE big == Reverse(int)
<1>4. big \in Bytes /\ Len(big) = width /\ BigEndian(big) = n BY <1>3, ReversedTwice
<1> HIDE DEF big
<1>5. <<first>> \o big \in Bytes BY <1>2, <1>4 DEF Bytes
<1>6. ASSUME NEW rest \in Bytes PROVE readEncodedLength((<<first>> \o big) \o rest) = Plainly(n, rest)
  <2> DEFINE left == big \o rest
             rd == (<<first>> \o big) \o rest
  <2>1. left \in Bytes BY <1>4 DEF Bytes
  <2>2. rd = <<first>> \o left
    <3>1. <<first>> \in Seq(Byte) BY <1>2
    <3> QED BY <1>4, <3>1, ConcatAssociative DEF Bytes
  <2> HIDE DEF rd
  <2>3. ReadBytes(left, width) = Got(big, rest) BY <1>4, BytesRead DEF Begins
  <2> HIDE DEF left
  <2>4. ReadByte(rd) = Got(first, left) BY <1>2, <2>1, <2>2, ByteRead
  <2>5. readEncodedLength(rd) = LengthAfter(first, left) BY <2>4, LengthBegins
  <2> DEFINE r == ReadBytes(left, width)
  <2>6. r.ok /\ r.val = big /\ r.rest = rest BY <2>3 DEF Got
  <2> HIDE DEF r
  <2>7. LengthAfter(first, left) = Convert(r, LAMBDA b : [len |-> BigEndian(b), special |-> FALSE])
    <3>1. CASE first = 128 /\ width = 4
      <4>1. ~(first < 64) /\ first \notin 64 .. 127 BY <3>1
      <4> QED BY <3>1, <4>1 DEF LengthAfter, Bind, Convert, r
    <3>2. CASE first = 129 /\ width = 8
      <4>1. ~(first < 64) /\ first \notin 64 .. 127 /\ first # 128 BY <3>2
      <4> QED BY <3>2, <4>1 DEF LengthAfter, Bind, Convert, r
    <3> QED BY <3>1, <3>2 DEF IsWide
  <2>8. Convert(r, LAMBDA b : [len |-> BigEndian(b), special |-> FALSE]) = Plainly(BigEndian(big), rest)
    BY <2>6 DEF Convert, Bind, Plainly
  <2>9. readEncodedLength(rd) = Plainly(n, rest) BY <1>4, <2>5, <2>7, <2>8
  <2> QED BY <2>9 DEF rd
<1>7. IsLength(<<first>> \o big, n) BY <1>5, <1>6 DEF IsLength
<1> QED BY <1>1, <1>7 DEF big

---------------------------------------------------------------------------
(* Options *)

LEMMA LeastOfTwo == \A a, b \in Int : Min({a, b}) = IF a <= b THEN a ELSE b
<1> TAKE a, b \in Int
<1> DEFINE m == IF a <= b THEN a ELSE b
<1>1. m \in {a, b} /\ \A y \in {a, b} : m <= y OBVIOUS
<1>2. \A x \in {a, b} : (\A y \in {a, b} : x <= y) => x = m OBVIOUS
<1> QED BY <1>1, <1>2 DEF Min

LEMMA ChoiceType ==
  ASSUME NEW S, NEW options \in Seq(S), options # <<>>, NEW steps \in Nat
  PROVE  Choice(options, steps) \in S
<1>1. Len(options) \in Nat /\ Len(options) # 0 OBVIOUS
<1>2. Min({steps + 1, Len(options)}) \in 1 .. Len(options) BY <1>1, LeastOfTwo
<1> QED BY <1>2 DEF Choice

\* options has what is in x, when there is something to have.
Optional(options, S) == options = <<>> \/ \E x \in S : options = <<x>>

LEMMA OptionalType == \A options, S : Optional(options, S) => options \in Seq(S)
<1> SUFFICES ASSUME NEW options, NEW S, Optional(options, S) PROVE options \in Seq(S) OBVIOUS
<1>1. <<>> \in Seq(S) /\ \A x \in S : <<x>> \in Seq(S) OBVIOUS
<1> QED BY Zenon, <1>1 DEF Optional

\* The byte strings that a length is written as.
AsLength(n) == {bytes \in Bytes : IsLength(bytes, n)}

\* readEncodedLength: a length of 32 bits is read back from every encoding it may
\* have, whatever follows.
THEOREM LengthsLoad == \A n \in Word, steps \in Nat : LengthBytes(n, steps) \in AsLength(n)
<1> TAKE n \in Word, steps \in Nat
<1>1. n \in Nat
  <2>1. PICK g \in Nat : g = 2 * Greatest(32) + 1 BY DEF Greatest
  <2> QED BY <2>1 DEF Word
<1> DEFINE S == AsLength(n)
           short == When(n < 64, <<n>>)
           medium == When(n < 16384, <<64 + n \div 256, n % 256>>)
           wide == <<128>> \o Reverse(IntBytes(n, 4))
           wider == <<129>> \o Reverse(IntBytes(n, 8))
<1>2. short \in Seq(S)
  <2>1. CASE n < 64
    <3>1. n \in 0 .. 63 BY <1>1, <2>1
    <3>2. <<n>> \in S BY <3>1, SixBits DEF AsLength, IsLength
    <3>3. short = << <<n>> >> BY <2>1 DEF When
    <3> QED BY Zenon, <3>2, <3>3, OptionalType DEF Optional
  <2>2. CASE ~(n < 64)
    <3>1. short = <<>> BY <2>2 DEF When
    <3> QED BY Zenon, <3>1, OptionalType DEF Optional
  <2> QED BY <2>1, <2>2
<1>3. medium \in Seq(S)
  <2>1. CASE n < 16384
    <3>1. PICK first, low : /\ first = 64 + (n \div 256) /\ low = n % 256
                            /\ InFourteen(n, first, low)
      <4>1. Fourteen(n) BY <1>1, <2>1, FourteenHold
      <4> QED BY <4>1 DEF Fourteen
    <3>2. <<first, low>> \in S BY <3>1, FourteenBits DEF AsLength, IsLength
    <3>3. medium = << <<first, low>> >> BY <2>1, <3>1 DEF When
    <3> HIDE DEF medium
    <3> QED BY Zenon, <3>2, <3>3, OptionalType DEF Optional
  <2>2. CASE ~(n < 16384)
    <3>1. medium = <<>> BY <2>2 DEF When
    <3> HIDE DEF medium
    <3> QED BY Zenon, <3>1, OptionalType DEF Optional
  <2> QED
    <3> HIDE DEF medium
    <3> QED BY <2>1, <2>2
<1>4. wide \in S /\ wider \in S
  <2>1. IsWide(128, 4) /\ IsWide(129, 8) BY DEF IsWide
  <2>2. IsLength(wide, n) /\ IsLength(wider, n) BY Zenon, <2>1, WideBits
  <2> QED BY <2>2 DEF AsLength, IsLength
<1>7. LengthBytes(n, steps) = Choice((short \o medium) \o <<wide, wider>>, steps) BY DEF LengthBytes
<1> HIDE DEF S, short, medium, wide, wider
<1>5. <<wide, wider>> \in Seq(S) /\ <<wide, wider>> # <<>> BY <1>4
<1>6. (short \o medium) \o <<wide, wider>> \in Seq(S) /\ (short \o medium) \o <<wide, wider>> # <<>>
  BY <1>2, <1>3, <1>5
<1>8. Choice((short \o medium) \o <<wide, wider>>, steps) \in S BY Zenon, <1>6, ChoiceType
<1> QED BY <1>7, <1>8 DEF S

---------------------------------------------------------------------------
(* Strings *)

\* What ReadString makes of a length and the reader after it.
StringAfter(l, rest) ==
  CASE ~l.special -> ReadBytes(rest, l.len)
    [] l.special /\ l.len \in 0 .. 2 -> Convert(ReadInt(rest, <<1, 2, 4>>[l.len + 1]), FormatInt)
    [] l.special /\ l.len = 3 -> ReadCompressed(rest)
    [] OTHER -> Panicked

LEMMA StringBegins ==
  \A rd, l, rest : readEncodedLength(rd) = Got(l, rest) => ReadString(rd) = StringAfter(l, rest)
<1> SUFFICES ASSUME NEW rd, NEW l, NEW rest, readEncodedLength(rd) = Got(l, rest)
             PROVE  ReadString(rd) = StringAfter(l, rest)
  OBVIOUS
<1> DEFINE r == readEncodedLength(rd)
<1>1. r.ok /\ r.val = l /\ r.rest = rest BY DEF Got
<1>2. ReadString(rd) = Bind(r, StringAfter) BY Zenon DEF ReadString, StringAfter
<1> HIDE DEF r
<1> QED BY <1>1, <1>2 DEF Bind

\* bytes are the string s, whatever follows.
IsString(bytes, s) ==
  bytes \in Bytes /\ \A rest \in Bytes : ReadString(bytes \o rest) = Got(s, rest)

\* ReadString: a string that is neither an integer nor compressed is read back,
\* and not a byte more of the file, whatever its bytes.
THEOREM BlobsLoad ==
  \A s \in Bytes, steps \in Nat : Len(s) \in Word => IsString(Blob(s, steps), s)
<1> TAKE s \in Bytes, steps \in Nat
<1> HAVE Len(s) \in Word
<1>1. PICK n \in Word : n = Len(s) OBVIOUS
<1>2. PICK head : head = LengthBytes(n, steps) /\ head \in Bytes /\ IsLength(head, n)
  BY <1>1, LengthsLoad DEF AsLength
<1>3. head \o s \in Bytes BY <1>2 DEF Bytes
<1> SUFFICES ASSUME NEW rest \in Bytes PROVE ReadString((head \o s) \o rest) = Got(s, rest)
  <2>1. Blob(s, steps) = head \o s BY <1>1, <1>2 DEF Blob
  <2> QED BY <1>3, <2>1 DEF IsString
<1> DEFINE left == s \o rest
           rd == (head \o s) \o rest
           l == [len |-> n, special |-> FALSE]
<1>4. left \in Bytes BY DEF Bytes
<1>5. rd = head \o left BY <1>2, ConcatAssociative DEF Bytes
<1>6. ReadBytes(left, n) = Got(s, rest) BY <1>1, BytesRead DEF Begins
<1> HIDE DEF left, rd
<1>7. readEncodedLength(rd) = Got(l, left) BY <1>2, <1>4, <1>5 DEF IsLength, Plainly
<1>8. ~l.special /\ l.len = n OBVIOUS
<1> HIDE DEF l
<1>9. ReadString(rd) = StringAfter(l, left) BY <1>7, StringBegins
<1>10. StringAfter(l, left) = ReadBytes(left, n) BY Zenon, <1>8 DEF StringAfter
<1> QED BY <1>6, <1>9, <1>10 DEF rd

\* A structure that is read from the string it travels in.
LEMMA InsideReads ==
  \A s \in Bytes, steps \in Nat, rest \in Bytes :
    Len(s) \in Word => ReadString(Blob(s, steps) \o rest) = Got(s, rest)
  BY BlobsLoad DEF IsString

\* w bytes hold an integer below zero as what is missing to m + 1.
HoldsNegative(w, m) == \A v \in -m - 1 .. -1 : LittleEndian(IntBytes(v, w)) = v + m + 1

LEMMA NegativeWidens ==
  \A w, m, more, n : Widens(w, m, more, n) /\ HoldsNegative(w, m) => HoldsNegative(more, n)
<1> TAKE w, m, more, n
<1> HAVE Widens(w, m, more, n) /\ HoldsNegative(w, m)
<1>1. w \in Nat /\ m \in Nat /\ more = w + 1 /\ n = 256 * m + 255 BY DEF Widens
<1> SUFFICES ASSUME NEW v \in -n - 1 .. -1 PROVE LittleEndian(IntBytes(v, more)) = v + n + 1
  BY DEF HoldsNegative
<1>2. v \in Int BY <1>1
<1>3. PICK low, high : low = v % 256 /\ high = v \div 256 BY <1>2
<1>4. Divides(v, w, more, low, high) BY <1>1, <1>2, <1>3 DEF Divides
<1>5. SplitsOff(v, w, more, low, high) BY <1>4, IntBytesOfMore
<1>6. PICK rest : rest = IntBytes(high, w) OBVIOUS
<1>7. high \in -m - 1 .. -1 /\ high \in Int /\ low \in Int /\ v = 256 * high + low
  BY <1>1, <1>2, <1>3
<1>8. LittleEndian(rest) = high + m + 1 BY <1>6, <1>7 DEF HoldsNegative
<1>9. rest \in Seq(Int) BY <1>1, <1>6, <1>7, IntBytesType, BytesAreNumbers
<1>10. LittleEndian(<<low>> \o rest) = 256 * LittleEndian(rest) + low
  BY <1>7, <1>9, LittleEndianPrepends
<1>11. IntBytes(v, more) = <<low>> \o rest BY <1>5, <1>6 DEF SplitsOff
<1>12. 256 * (high + m + 1) + low = v + n + 1 BY <1>1, <1>2, <1>7
<1> QED BY <1>8, <1>10, <1>11, <1>12

LEMMA NegativesHold == HoldsNegative(2, 65535) /\ HoldsNegative(3, 16777215)
<1>1. HoldsNegative(0, 0)
  <2> SUFFICES ASSUME NEW v \in -0 - 1 .. -1 PROVE LittleEndian(IntBytes(v, 0)) = v + 0 + 1
    BY DEF HoldsNegative
  <2>1. v = -1 /\ v \in Int OBVIOUS
  <2>2. IntBytes(v, 0) = <<>> BY Zenon, <2>1, IntBytesOfNone
  <2>3. Reverse(<<>>) = <<>> BY DEF Reverse
  <2>4. LittleEndian(<<>>) = 0 BY Zenon, <2>3, HornerOfNone DEF LittleEndian, BigEndian
  <2>5. v + 0 + 1 = 0 BY <2>1
  <2> QED BY Zenon, <2>2, <2>4, <2>5
<1>2. PICK w0, w1, w2, w3 \in Nat : w0 = 0 /\ w1 = w0 + 1 /\ w2 = w1 + 1 /\ w3 = w2 + 1 OBVIOUS
<1>3. PICK m0, m1, m2, m3 \in Nat :
        m0 = 0 /\ m1 = 256 * m0 + 255 /\ m2 = 256 * m1 + 255 /\ m3 = 256 * m2 + 255
  OBVIOUS
<1>4. Widens(w0, m0, w1, m1) /\ Widens(w1, m1, w2, m2) /\ Widens(w2, m2, w3, m3)
  BY <1>2, <1>3 DEF Widens
<1>5. HoldsNegative(w0, m0) BY <1>1, <1>2, <1>3
<1>6. HoldsNegative(w1, m1) BY <1>4, <1>5, NegativeWidens
<1>7. HoldsNegative(w2, m2) BY <1>4, <1>6, NegativeWidens
<1>8. HoldsNegative(w3, m3) BY <1>4, <1>7, NegativeWidens
<1>9. w2 = 2 /\ w3 = 3 /\ m2 = 65535 /\ m3 = 16777215 BY <1>2, <1>3
<1> QED BY <1>7, <1>8, <1>9

---------------------------------------------------------------------------
(* Integers as strings *)

LEMMA IntegersAreNumbers == 0 \in Int /\ 10 \in Int OBVIOUS

LEMMA ParseIntType == \A s \in Bytes : IsNumber(s) => ParseInt(s) \in Int /\ FormatInt(ParseInt(s)) = s
<1> TAKE s \in Bytes
<1> HAVE IsNumber(s)
<1> DEFINE Value(digits) == Horner(0, 10, [i \in DOMAIN digits |-> digits[i] - 48])
<1>1. ASSUME NEW digits \in Bytes PROVE Value(digits) \in Int
  <2>1. digits \in Seq(Int) BY BytesAreNumbers
  <2>2. [i \in DOMAIN digits |-> digits[i] - 48] \in Seq(Int) BY <2>1
  <2> QED BY Zenon, <2>2, HornerType, IntegersAreNumbers
<1>2. s # <<>> BY DEF IsNumber, IsInteger
<1>3. Tail(s) \in Bytes BY <1>2 DEF Bytes
<1>4. ParseInt(s) = CASE Head(s) = 43 -> Value(Tail(s))
                      [] Head(s) = 45 -> -Value(Tail(s))
                      [] OTHER        -> Value(s)
  BY DEF ParseInt
<1>5. Value(Tail(s)) \in Int /\ Value(s) \in Int BY <1>1, <1>3
<1> HIDE DEF Value
<1>6. -Value(Tail(s)) \in Int BY <1>5
<1>7. ParseInt(s) \in Int BY <1>4, <1>5, <1>6
<1> QED BY <1>7 DEF IsNumber

\* s is an integer v between -g - 1 and g.
IsIntOf(s, v, g) == v \in -g - 1 .. g /\ v \in Int /\ FormatInt(v) = s

LEMMA IntRead ==
  \A w, g, v, s, rest :
    w \in Nat /\ HoldsSigned(w, g) /\ IsIntOf(s, v, g) /\ rest \in Bytes
      => Convert(ReadInt(IntBytes(v, w) \o rest, w), FormatInt) = Got(s, rest)
<1> SUFFICES ASSUME NEW w \in Nat, NEW g, NEW v, NEW s, NEW rest \in Bytes,
                    HoldsSigned(w, g), IsIntOf(s, v, g)
             PROVE  Convert(ReadInt(IntBytes(v, w) \o rest, w), FormatInt) = Got(s, rest)
  OBVIOUS
<1>1. v \in Int /\ FormatInt(v) = s BY DEF IsIntOf
<1>2. Signed(IntBytes(v, w)) = v BY DEF IsIntOf, HoldsSigned
<1>3. PICK int \in Bytes : int = IntBytes(v, w) /\ Len(int) = w BY <1>1, IntBytesType
<1> DEFINE r == ReadBytes(int \o rest, w)
<1>4. r = Got(int, rest) BY <1>3, BytesRead DEF Begins
<1> HIDE DEF r
<1>5. r.ok /\ r.val = int /\ r.rest = rest BY <1>4 DEF Got
<1>6. ReadInt(int \o rest, w) = Convert(r, Signed) BY DEF ReadInt, r
<1>7. Convert(Convert(r, Signed), FormatInt) = Got(FormatInt(Signed(int)), rest)
  BY <1>5 DEF Convert, Bind, Got
<1> QED BY <1>1, <1>2, <1>3, <1>6, <1>7

---------------------------------------------------------------------------
(* Entries of listpacks *)

LEMMA MinIsLeast == \A S \in SUBSET Int : \A m \in S : (\A k \in S : m <= k) => Min(S) = m
<1> TAKE S \in SUBSET Int
<1> TAKE m \in S
<1> HAVE \A k \in S : m <= k
<1>1. ASSUME NEW x \in S, \A k \in S : x <= k PROVE x = m
  <2>1. x <= m /\ m <= x /\ x \in Int /\ m \in Int BY <1>1
  <2> QED BY <2>1
<1> QED BY <1>1 DEF Min

LEMMA BacklenType == \A n \in Nat : /\ BacklenBytes(n) \in Bytes
                                    /\ Len(BacklenBytes(n)) = lpEncodeBacklen(n)
<1> TAKE n \in Nat
<1> DEFINE most == <<127, 16382, 2097150, 268435454>>
           unit == <<1, 128, 16384, 2097152, 268435456>>
           S == {g \in 1 .. 5 : g = 5 \/ n <= most[g]}
           groups == Min(S)
           m == lpEncodeBacklen(n)
           Group(i) == (IF i = 1 THEN 0 ELSE 128) + ((n \div unit[groups + 1 - i]) % 128)
<1>0. BacklenBytes(n) = [i \in 1 .. groups |-> Group(i)] BY SMT DEF BacklenBytes
<1>1. m \in 1 .. 5 BY SMT DEF lpEncodeBacklen
<1>2. m \in S /\ \A k \in S : m <= k
  <2>1. m = 5 \/ n <= most[m] BY SMT DEF lpEncodeBacklen
  <2>2. ASSUME NEW k \in S PROVE m <= k BY SMT DEF lpEncodeBacklen
  <2> HIDE DEF m
  <2> QED BY <1>1, <2>1, <2>2
<1>3. groups = m BY <1>2, MinIsLeast
<1>4. unit \in [1 .. 5 -> Nat \ {0}] OBVIOUS
<1> HIDE DEF m, unit
<1>5. ASSUME NEW i \in 1 .. m PROVE Group(i) \in Byte
  <2>1. m + 1 - i \in 1 .. 5 BY <1>1
  <2>2. PICK d \in Nat \ {0} : d = unit[m + 1 - i] BY <1>4, <2>1
  <2>3. (n \div d) % 128 \in 0 .. 127
    <3>1. PICK q \in Nat : q = n \div d BY <2>2
    <3> QED BY <3>1
  <2> HIDE DEF groups
  <2>4. Group(i) = (IF i = 1 THEN 0 ELSE 128) + ((n \div d) % 128) BY <1>3, <2>2
  <2> QED BY <2>3, <2>4 DEF Byte
<1> HIDE DEF groups, Group
<1>6. BacklenBytes(n) = [i \in 1 .. m |-> Group(i)] BY <1>0, <1>3
<1>7. [i \in 1 .. m |-> Group(i)] \in Seq(Byte) /\ Len([i \in 1 .. m |-> Group(i)]) = m
  BY <1>1, <1>5
<1> QED BY <1>6, <1>7 DEF Bytes, m

\* The entry s when the n bytes of its content have been read.
Backing(s, n, rest) == Bind(ReadBytes(rest, lpEncodeBacklen(n)), LAMBDA backlen, left : Got(s, left))

BackedNumber(result, n) == Backed(Convert(result, FormatInt), LAMBDA ele : n)

BackedText(result, head) == Backed(result, LAMBDA ele : head + Len(ele))

LEMMA NumberIsBacked ==
  \A result, n, s, rest : Convert(result, FormatInt) = Got(s, rest) => BackedNumber(result, n) = Backing(s, n, rest)
<1> SUFFICES ASSUME NEW result, NEW n, NEW s, NEW rest, Convert(result, FormatInt) = Got(s, rest)
             PROVE  BackedNumber(result, n) = Backing(s, n, rest)
  OBVIOUS
<1> DEFINE r == Convert(result, FormatInt)
<1>1. r.ok /\ r.val = s /\ r.rest = rest BY DEF Got
<1>2. BackedNumber(result, n) = Backed(r, LAMBDA ele : n) BY Zenon DEF BackedNumber
<1> HIDE DEF r
<1>3. Backed(r, LAMBDA ele : n) = Backing(s, n, rest) BY <1>1 DEF Backed, Backing, Bind
<1> QED BY Zenon, <1>2, <1>3

LEMMA TextIsBacked ==
  \A result, head, s, rest : result = Got(s, rest) => BackedText(result, head) = Backing(s, head + Len(s), rest)
<1> SUFFICES ASSUME NEW result, NEW head, NEW s, NEW rest, result = Got(s, rest)
             PROVE  BackedText(result, head) = Backing(s, head + Len(s), rest)
  OBVIOUS
<1>1. PICK r : r = result OBVIOUS
<1>2. r.ok /\ r.val = s /\ r.rest = rest BY <1>1 DEF Got
<1>3. Backed(r, LAMBDA ele : head + Len(ele)) = Backing(s, head + Len(s), rest)
  BY <1>2 DEF Backed, Backing, Bind
<1> QED BY Zenon, <1>1, <1>3 DEF BackedText

\* What readListpackEntry makes of its first byte and the reader after it.
EntryAfter(e, rest) ==
  CASE e < 128           -> BackedNumber(Got(e, rest), 1)
    [] e \in 128 .. 191  -> BackedText(ReadBytes(rest, e - 128), 1)
    [] e \in 192 .. 223  -> BackedNumber(Convert(ReadByte(rest), LAMBDA low :
                              TwosComplement((e - 192) * 256 + low, 4096, 8191)), 2)
    [] e = 241           -> BackedNumber(Convert(ReadUint(rest, 2), LAMBDA u :
                              TwosComplement(u, 32768, 65535)), 2)
    [] e = 242           -> BackedNumber(Convert(ReadUint(rest, 3), LAMBDA u :
                              TwosComplement(u, 8388608, 16777215)), 4)
    [] e = 243           -> BackedNumber(ReadInt(rest, 4), 5)
    [] e = 244           -> BackedNumber(ReadInt(rest, 8), 9)
    [] e \in 224 .. 239  -> BackedText(Bind(ReadByte(rest), LAMBDA low, left :
                              ReadBytes(left, (e - 224) * 256 + low)), 2)
    [] e = 240           -> BackedText(Bind(ReadUint(rest, 4), LAMBDA len, left :
                              ReadBytes(left, len)), 5)
    [] OTHER             -> Panicked

LEMMA EntryBegins ==
  \A rd, e, rest : ReadByte(rd) = Got(e, rest) => readListpackEntry(rd) = EntryAfter(e, rest)
<1> SUFFICES ASSUME NEW rd, NEW e, NEW rest, ReadByte(rd) = Got(e, rest)
             PROVE  readListpackEntry(rd) = EntryAfter(e, rest)
  OBVIOUS
<1> DEFINE r == ReadByte(rd)
<1>1. r.ok /\ r.val = e /\ r.rest = rest BY DEF Got
<1>2. readListpackEntry(rd) = Bind(r, EntryAfter)
  BY SMT DEF readListpackEntry, EntryAfter, BackedNumber, BackedText, Bind, Convert, Backed
<1> HIDE DEF r
<1> QED BY <1>1, <1>2 DEF Bind

\* content is the entry s, whatever follows.
IsContent(content, s) ==
  /\ content \in Bytes /\ content # <<>> /\ Head(content) # 255
  /\ \A rest \in Bytes : readListpackEntry(content \o rest) = Backing(s, Len(content), rest)

\* It begins with e.
Begun(e, more, s) ==
  /\ e \in Byte /\ e # 255 /\ more \in Bytes
  /\ \A rest \in Bytes : EntryAfter(e, more \o rest) = Backing(s, 1 + Len(more), rest)

LEMMA ContentFrom == \A e, more, s : Begun(e, more, s) => IsContent(<<e>> \o more, s)
<1> SUFFICES ASSUME NEW e, NEW more, NEW s, Begun(e, more, s) PROVE IsContent(<<e>> \o more, s)
  OBVIOUS
<1>1. e \in Byte /\ e # 255 /\ more \in Bytes BY DEF Begun
<1>2. <<e>> \in Seq(Byte) /\ more \in Seq(Byte) BY <1>1 DEF Bytes
<1> DEFINE content == <<e>> \o more
<1>3. content \in Bytes /\ Len(content) = 1 + Len(more) /\ content # <<>> /\ Head(content) = e
  BY <1>2 DEF Bytes
<1>4. ASSUME NEW rest \in Bytes
      PROVE  readListpackEntry(content \o rest) = Backing(s, Len(content), rest)
  <2>1. content \o rest = <<e>> \o (more \o rest) BY <1>2, ConcatAssociative DEF Bytes
  <2>2. more \o rest \in Bytes BY <1>1 DEF Bytes
  <2>3. ReadByte(<<e>> \o (more \o rest)) = Got(e, more \o rest) BY <1>1, <2>2, ByteRead
  <2>4. readListpackEntry(<<e>> \o (more \o rest)) = EntryAfter(e, more \o rest) BY <2>3, EntryBegins
  <2>5. EntryAfter(e, more \o rest) = Backing(s, 1 + Len(more), rest) BY DEF Begun
  <2> HIDE DEF content
  <2> QED BY Zenon, <1>3, <2>1, <2>4, <2>5
<1> HIDE DEF content
<1>5. IsContent(content, s) BY <1>1, <1>3, <1>4 DEF IsContent
<1> QED BY <1>5 DEF content

LEMMA UintRead ==
  \A w, int, rest : w \in Nat /\ Begins(int \o rest, int, w, rest)
                      => ReadUint(int \o rest, w) = Got(LittleEndian(int), rest)
<1> SUFFICES ASSUME NEW w \in Nat, NEW int, NEW rest, Begins(int \o rest, int, w, rest)
             PROVE  ReadUint(int \o rest, w) = Got(LittleEndian(int), rest)
  OBVIOUS
<1> DEFINE r == ReadBytes(int \o rest, w)
<1>1. r = Got(int, rest) BY BytesRead
<1> HIDE DEF r
<1>2. r.ok /\ r.val = int /\ r.rest = rest BY <1>1 DEF Got
<1>3. ReadUint(int \o rest, w) = Convert(r, LittleEndian) BY DEF ReadUint, r
<1> QED BY <1>2, <1>3 DEF Convert, Bind

LEMMA IntIsNumber == \A s, bits : bits \in {8, 13, 16, 24, 32} /\ s \in Bytes /\ IsInt(s, bits)
                                    => IsIntOf(s, ParseInt(s), Greatest(bits))
<1> SUFFICES ASSUME NEW s \in Bytes, NEW bits \in {8, 13, 16, 24, 32}, IsInt(s, bits)
             PROVE  IsIntOf(s, ParseInt(s), Greatest(bits))
  OBVIOUS
<1>1. PICK v : v = ParseInt(s) OBVIOUS
<1>2. v \in Int /\ FormatInt(v) = s BY <1>1, ParseIntType DEF IsInt
<1>3. PICK g : g = Greatest(bits) OBVIOUS
<1>4. g \in Nat BY <1>3 DEF Greatest
<1>5. -g - 1 <= v /\ v <= g BY <1>1, <1>3 DEF IsInt, Fits
<1>6. v \in -g - 1 .. g BY <1>2, <1>4, <1>5
<1> QED BY <1>1, <1>2, <1>3, <1>6 DEF IsIntOf

\* 0 to 127
LEMMA EntryOfSeven == \A s, v : v \in 0 .. 127 /\ FormatInt(v) = s => IsContent(<<v>>, s)
<1> SUFFICES ASSUME NEW s, NEW v \in 0 .. 127, FormatInt(v) = s PROVE IsContent(<<v>>, s)
  OBVIOUS
<1>1. v \in Byte /\ v # 255 /\ <<>> \in Bytes BY DEF Byte, Bytes
<1>2. ASSUME NEW rest \in Bytes PROVE EntryAfter(v, <<>> \o rest) = Backing(s, 1 + Len(<<>>), rest)
  <2>1. <<>> \o rest = rest /\ 1 + Len(<<>>) = 1 BY DEF Bytes
  <2>2. /\ v < 128 /\ v \notin 128 .. 191 /\ v \notin 192 .. 223 /\ v \notin 224 .. 239
        /\ v # 240 /\ v # 241 /\ v # 242 /\ v # 243 /\ v # 244
    OBVIOUS
  <2>3. EntryAfter(v, rest) = BackedNumber(Got(v, rest), 1) BY SMT, <2>2 DEF EntryAfter
  <2>4. Convert(Got(v, rest), FormatInt) = Got(s, rest) BY DEF Convert, Bind, Got
  <2>5. BackedNumber(Got(v, rest), 1) = Backing(s, 1, rest) BY <2>4, NumberIsBacked
  <2> QED BY Zenon, <2>1, <2>3, <2>5
<1>3. Begun(v, <<>>, s) BY <1>1, <1>2 DEF Begun
<1>4. <<v>> \o <<>> = <<v>> BY <1>1
<1>5. IsContent(<<v>> \o <<>>, s) BY <1>3, ContentFrom
<1> QED BY <1>4, <1>5

\* n bytes of text, after a byte that tells how many they are.
LEMMA EntryOfShortText ==
  \A s \in Bytes, e \in 128 .. 191 : Len(s) = e - 128 => IsContent(<<e>> \o s, s)
<1> SUFFICES ASSUME NEW s \in Bytes, NEW e \in 128 .. 191, Len(s) = e - 128
             PROVE  IsContent(<<e>> \o s, s)
  OBVIOUS
<1>1. PICK n : n = e - 128 OBVIOUS
<1>2. n = Len(s) BY <1>1
<1>3. e \in Byte /\ e # 255 BY DEF Byte
<1>4. ASSUME NEW rest \in Bytes PROVE EntryAfter(e, s \o rest) = Backing(s, 1 + n, rest)
  <2>1. PICK left : left = s \o rest OBVIOUS
  <2>2. ReadBytes(left, n) = Got(s, rest) BY <1>2, <2>1, BytesRead DEF Begins
  <2>3. /\ ~(e < 128) /\ e \notin 192 .. 223 /\ e \notin 224 .. 239
        /\ e # 240 /\ e # 241 /\ e # 242 /\ e # 243 /\ e # 244
    OBVIOUS
  <2>4. EntryAfter(e, left) = BackedText(ReadBytes(left, e - 128), 1) BY SMT, <2>3 DEF EntryAfter
  <2>5. BackedText(ReadBytes(left, n), 1) = Backing(s, 1 + n, rest) BY <1>2, <2>2, TextIsBacked
  <2> QED BY Zenon, <1>1, <2>1, <2>4, <2>5
<1>5. Begun(e, s, s) BY <1>2, <1>3, <1>4 DEF Begun
<1> QED BY <1>5, ContentFrom

\* The widths that are read as integers.
WideInt(e, w, g) == (e = 243 /\ w = 4 /\ g = Greatest(32)) \/ (e = 244 /\ w = 8 /\ g = Greatest(32))

LEMMA EntryOfWideInt ==
  \A s, v, e, w, g : WideInt(e, w, g) /\ IsIntOf(s, v, g) => IsContent(<<e>> \o IntBytes(v, w), s)
<1> SUFFICES ASSUME NEW s, NEW v, NEW e, NEW w, NEW g, WideInt(e, w, g), IsIntOf(s, v, g)
             PROVE  IsContent(<<e>> \o IntBytes(v, w), s)
  OBVIOUS
<1>1. e \in {243, 244} /\ w \in Nat /\ e \in Byte /\ e # 255 BY DEF WideInt, Byte
<1>2. HoldsSigned(w, g) BY WidthsHoldSigned DEF WideInt
<1>3. v \in Int BY DEF IsIntOf
<1>4. PICK int \in Bytes : int = IntBytes(v, w) /\ Len(int) = w BY <1>1, <1>3, IntBytesType
<1>5. ASSUME NEW rest \in Bytes PROVE EntryAfter(e, int \o rest) = Backing(s, 1 + w, rest)
  <2>1. PICK left : left = int \o rest OBVIOUS
  <2>2. Convert(ReadInt(left, w), FormatInt) = Got(s, rest) BY <1>1, <1>2, <1>4, <2>1, IntRead
  <2>3. BackedNumber(ReadInt(left, w), 1 + w) = Backing(s, 1 + w, rest) BY <2>2, NumberIsBacked
  <2>4. EntryAfter(e, left) = BackedNumber(ReadInt(left, w), 1 + w)
    <3>1. CASE e = 243 /\ w = 4
      <4>1. 1 + w = 5 /\ ~(e < 128) /\ e \notin 128 .. 191 /\ e \notin 192 .. 223 BY <3>1
      <4> QED BY <3>1, <4>1 DEF EntryAfter
    <3>2. CASE e = 244 /\ w = 8
      <4>1. 1 + w = 9 /\ ~(e < 128) /\ e \notin 128 .. 191 /\ e \notin 192 .. 223 BY <3>2
      <4> QED BY <3>2, <4>1 DEF EntryAfter
    <3> QED BY <3>1, <3>2 DEF WideInt
  <2> QED BY <2>1, <2>3, <2>4
<1>6. Begun(e, int, s) BY <1>1, <1>4, <1>5 DEF Begun
<1>7. IsContent(<<e>> \o int, s) BY <1>6, ContentFrom
<1> QED BY <1>4, <1>7

\* The integers of thirteen bits.
InThirteen(v, e, low) ==
  /\ e \in 192 .. 223 /\ low \in Byte
  /\ TwosComplement((e - 192) * 256 + low, 4096, 8191) = v

LEMMA ThirteenHold ==
  \A v \in Int : -4095 - 1 <= v /\ v <= 4095 =>
    \E e, low : e = 192 + ((v \div 256) % 32) /\ low = v % 256 /\ InThirteen(v, e, low)
<1> SUFFICES ASSUME NEW v \in Int, -4095 - 1 <= v, v <= 4095
             PROVE  \E e, low : /\ e = 192 + ((v \div 256) % 32) /\ low = v % 256
                                /\ InThirteen(v, e, low)
  OBVIOUS
<1>1. PICK high, low \in Int : high = v \div 256 /\ low = v % 256 OBVIOUS
<1>2. v = 256 * high + low /\ low \in 0 .. 255 /\ high \in -16 .. 15 BY <1>1
<1>3. PICK five \in Int : five = high % 32 BY <1>2
<1>4. five = IF high < 0 THEN high + 32 ELSE high BY <1>2, <1>3
<1>5. PICK e \in Int : e = 192 + five OBVIOUS
<1>6. e \in 192 .. 223 /\ (e - 192) * 256 + low = IF high < 0 THEN v + 8192 ELSE v
  BY <1>2, <1>4, <1>5
<1>7. high < 0 <=> v < 0 BY <1>2
<1>8. TwosComplement((e - 192) * 256 + low, 4096, 8191) = v
  <2>1. PICK u \in Int : u = (e - 192) * 256 + low BY <1>2, <1>5
  <2>2. u = IF v < 0 THEN v + 8192 ELSE v BY <1>6, <1>7, <2>1
  <2>3. TwosComplement(u, 4096, 8191) = v BY <2>2 DEF TwosComplement
  <2> QED BY <2>1, <2>3
<1>9. low \in Byte BY <1>2 DEF Byte
<1>10. InThirteen(v, e, low) BY <1>6, <1>8, <1>9 DEF InThirteen
<1> QED BY <1>1, <1>3, <1>5, <1>10

LEMMA EntryOfThirteen ==
  \A s, v, e, low : InThirteen(v, e, low) /\ FormatInt(v) = s => IsContent(<<e, low>>, s)
<1> SUFFICES ASSUME NEW s, NEW v, NEW e, NEW low, InThirteen(v, e, low), FormatInt(v) = s
             PROVE  IsContent(<<e, low>>, s)
  OBVIOUS
<1>1. e \in 192 .. 223 /\ low \in Byte BY DEF InThirteen
<1>2. e \in Byte /\ e # 255 BY <1>1 DEF Byte
<1>3. <<low>> \in Bytes /\ Len(<<low>>) = 1 BY <1>1 DEF Bytes
<1>4. ASSUME NEW rest \in Bytes PROVE EntryAfter(e, <<low>> \o rest) = Backing(s, 2, rest)
  <2>1. PICK left : left = <<low>> \o rest OBVIOUS
  <2>2. ReadByte(left) = Got(low, rest) BY <1>1, <2>1, ByteRead
  <2> DEFINE r == ReadByte(left)
             number == Convert(r, LAMBDA l : TwosComplement((e - 192) * 256 + l, 4096, 8191))
  <2>3. r.ok /\ r.val = low /\ r.rest = rest BY <2>2 DEF Got
  <2>4. /\ ~(e < 128) /\ e \notin 128 .. 191 /\ e \notin 224 .. 239
        /\ e # 240 /\ e # 241 /\ e # 242 /\ e # 243 /\ e # 244
    BY <1>1
  <2> HIDE DEF r
  <2>5. EntryAfter(e, left) = BackedNumber(number, 2)
    BY SMT, <1>1, <2>4 DEF EntryAfter, BackedNumber, Backed, Convert, Bind, r
  <2>6. number = Got(TwosComplement((e - 192) * 256 + low, 4096, 8191), rest)
    BY <2>3 DEF Convert, Bind
  <2>7. TwosComplement((e - 192) * 256 + low, 4096, 8191) = v BY DEF InThirteen
  <2> HIDE DEF number
  <2>8. number = Got(v, rest) BY SMT, <2>6, <2>7
  <2>9. Convert(number, FormatInt) = Got(s, rest) BY <2>8 DEF Convert, Bind, Got
  <2>10. BackedNumber(number, 2) = Backing(s, 2, rest) BY <2>9, NumberIsBacked
  <2> QED BY Zenon, <2>1, <2>5, <2>10
<1>5. 1 + Len(<<low>>) = 2 BY <1>3
<1>6. Begun(e, <<low>>, s)
  <2> HIDE DEF IsContent
  <2> QED BY <1>2, <1>3, <1>4, <1>5 DEF Begun
<1>7. IsContent(<<e>> \o <<low>>, s) BY <1>6, ContentFrom
<1>8. <<e>> \o <<low>> = <<e, low>> BY <1>1, <1>2, PairIsConcat
<1> QED BY Zenon, <1>7, <1>8

\* The widths that are read as unsigned numbers.
NarrowInt(e, w, g, m) ==
  \/ e = 241 /\ w = 2 /\ g = 32767 /\ m = 65535
  \/ e = 242 /\ w = 3 /\ g = 8388607 /\ m = 16777215

LEMMA NarrowHold ==
  \A e, w, g, m, v : NarrowInt(e, w, g, m) /\ v \in Int /\ v \in -g - 1 .. g =>
    TwosComplement(LittleEndian(IntBytes(v, w)), g + 1, m) = v
<1> SUFFICES ASSUME NEW e, NEW w, NEW g, NEW m, NEW v \in Int, NarrowInt(e, w, g, m), v \in -g - 1 .. g
             PROVE  TwosComplement(LittleEndian(IntBytes(v, w)), g + 1, m) = v
  OBVIOUS
<1>1. g \in Nat /\ m = 2 * g + 1 BY DEF NarrowInt
<1>2. HoldsUnsigned(w, m) /\ HoldsNegative(w, m)
  <2>1. PICK m2, m3 \in Nat : /\ m2 = 65535 /\ m3 = 16777215
                              /\ HoldsUnsigned(2, m2) /\ HoldsUnsigned(3, m3)
    BY WidthsHold
  <2> QED BY <2>1, NegativesHold DEF NarrowInt
<1>3. PICK u : u = LittleEndian(IntBytes(v, w)) OBVIOUS
<1>4. u = IF v < 0 THEN v + m + 1 ELSE v
  <2>1. CASE v < 0
    <3>1. v \in -m - 1 .. -1 BY <1>1, <2>1
    <3> QED BY <1>2, <1>3, <2>1, <3>1 DEF HoldsNegative
  <2>2. CASE ~(v < 0)
    <3>1. v \in 0 .. m BY <1>1, <2>2
    <3> QED BY <1>2, <1>3, <2>2, <3>1 DEF HoldsUnsigned
  <2> QED BY <2>1, <2>2
<1>5. TwosComplement(u, g + 1, m) = v BY <1>1, <1>4 DEF TwosComplement
<1> QED BY Zenon, <1>3, <1>5

LEMMA ShortBacklen == \A s, rest : \A n, k \in 1 .. 127 : Backing(s, n, rest) = Backing(s, k, rest)
<1> TAKE s, rest
<1> TAKE n, k \in 1 .. 127
<1>1. n <= 127 /\ k <= 127 OBVIOUS
<1>2. lpEncodeBacklen(n) = 1 /\ lpEncodeBacklen(k) = 1 BY SMT, <1>1 DEF lpEncodeBacklen
<1> QED BY SMTT(30), <1>2 DEF Backing

LEMMA EntryOfNarrowInt ==
  \A s, v, e, w, g, m : NarrowInt(e, w, g, m) /\ IsIntOf(s, v, g) => IsContent(<<e>> \o IntBytes(v, w), s)
<1> SUFFICES ASSUME NEW s, NEW v, NEW e, NEW w, NEW g, NEW m, NarrowInt(e, w, g, m), IsIntOf(s, v, g)
             PROVE  IsContent(<<e>> \o IntBytes(v, w), s)
  OBVIOUS
<1>1. e \in {241, 242} /\ w \in 2 .. 3 /\ e \in Byte /\ e # 255 BY DEF NarrowInt, Byte
<1>2. v \in Int /\ FormatInt(v) = s /\ v \in -g - 1 .. g BY DEF IsIntOf
<1>3. TwosComplement(LittleEndian(IntBytes(v, w)), g + 1, m) = v BY Zenon, <1>2, NarrowHold
<1>4. PICK int \in Bytes : int = IntBytes(v, w) /\ Len(int) = w BY <1>1, <1>2, IntBytesType
<1>5. ASSUME NEW rest \in Bytes PROVE EntryAfter(e, int \o rest) = Backing(s, 1 + w, rest)
  <2>1. PICK left : left = int \o rest OBVIOUS
  <2> DEFINE r == ReadUint(left, w)
             number == Convert(r, LAMBDA u : TwosComplement(u, g + 1, m))
  <2>2. r = Got(LittleEndian(int), rest) BY <1>1, <1>4, <2>1, UintRead DEF Begins
  <2> HIDE DEF r
  <2>3. r.ok /\ r.val = LittleEndian(int) /\ r.rest = rest BY <2>2 DEF Got
  <2>4. number = Got(TwosComplement(LittleEndian(int), g + 1, m), rest) BY <2>3 DEF Convert, Bind
  <2>5. PICK n \in 1 .. 127 : EntryAfter(e, left) = BackedNumber(number, n)
    <3>1. CASE e = 241 /\ w = 2 /\ g = 32767 /\ m = 65535
      <4>1. ~(e < 128) /\ e \notin 128 .. 191 /\ e \notin 192 .. 223 /\ g + 1 = 32768 BY <3>1
      <4>2. EntryAfter(e, left) = BackedNumber(number, 2)
        BY SMT, <3>1, <4>1 DEF EntryAfter, BackedNumber, Backed, Convert, Bind, r
      <4> QED BY <4>2
    <3>2. CASE e = 242 /\ w = 3 /\ g = 8388607 /\ m = 16777215
      <4>1. ~(e < 128) /\ e \notin 128 .. 191 /\ e \notin 192 .. 223 /\ g + 1 = 8388608 BY <3>2
      <4>2. EntryAfter(e, left) = BackedNumber(number, 4)
        BY SMT, <3>2, <4>1 DEF EntryAfter, BackedNumber, Backed, Convert, Bind, r
      <4> QED BY <4>2
    <3> QED BY <3>1, <3>2 DEF NarrowInt
  <2> HIDE DEF number
  <2>6. number = Got(v, rest) BY Zenon, <1>3, <1>4, <2>4
  <2>7. Convert(number, FormatInt) = Got(s, rest) BY <1>2, <2>6 DEF Convert, Bind, Got
  <2>8. BackedNumber(number, n) = Backing(s, n, rest) BY <2>7, NumberIsBacked
  <2>9. 1 + w \in 1 .. 127 BY SMTT(30), <1>1
  <2>10. Backing(s, n, rest) = Backing(s, 1 + w, rest) BY <2>9, ShortBacklen
  <2> QED BY Zenon, <2>1, <2>5, <2>8, <2>10
<1>6. Begun(e, int, s) BY <1>1, <1>4, <1>5 DEF Begun
<1>7. IsContent(<<e>> \o int, s) BY <1>6, ContentFrom
<1> QED BY <1>4, <1>7

\* The lengths of twelve bits.
InTwelve(n, e, low) == e \in 224 .. 239 /\ low \in Byte /\ (e - 224) * 256 + low = n

Twelve(n) == \E e, low : e = 224 + (n \div 256) /\ low = n % 256 /\ InTwelve(n, e, low)

LEMMA TwelveHold == \A n \in Nat : n < 4096 => Twelve(n)
<1> SUFFICES ASSUME NEW n \in Nat, n < 4096 PROVE Twelve(n) OBVIOUS
<1>1. PICK e, low \in Int : e = 224 + (n \div 256) /\ low = n % 256 OBVIOUS
<1>2. e \in 224 .. 239 /\ low \in 0 .. 255 /\ (e - 224) * 256 + low = n BY <1>1
<1> QED BY <1>1, <1>2 DEF Twelve, InTwelve, Byte

LEMMA EntryOfText ==
  \A s \in Bytes : \A e, low : InTwelve(Len(s), e, low) => IsContent(<<e, low>> \o s, s)
<1> SUFFICES ASSUME NEW s \in Bytes, NEW e, NEW low, InTwelve(Len(s), e, low)
             PROVE  IsContent(<<e, low>> \o s, s)
  OBVIOUS
<1>1. e \in 224 .. 239 /\ low \in Byte BY DEF InTwelve
<1>2. e \in Byte /\ e # 255 BY <1>1 DEF Byte
<1>3. PICK n \in Nat : n = Len(s) BY DEF Bytes
<1>4. (e - 224) * 256 + low = n BY <1>3 DEF InTwelve
<1> DEFINE more == <<low>> \o s
<1>5. more \in Bytes /\ Len(more) = 1 + n BY <1>1, <1>3 DEF Bytes
<1>6. ASSUME NEW rest \in Bytes PROVE EntryAfter(e, more \o rest) = Backing(s, 2 + n, rest)
  <2>0. PICK left : left = s \o rest OBVIOUS
  <2>1. left = s \o rest /\ left \in Bytes BY <2>0 DEF Bytes
  <2>2. PICK rd : rd = <<low>> \o left OBVIOUS
  <2>3. more \o rest = rd
    <3>1. <<low>> \in Seq(Byte) BY <1>1
    <3> QED BY SMTT(30), <2>1, <2>2, <3>1, ConcatAssociative DEF Bytes
  <2>4. ReadByte(rd) = Got(low, left) BY <1>1, <2>1, <2>2, ByteRead
  <2>5. ReadBytes(left, n) = Got(s, rest) BY <1>3, <2>1, BytesRead DEF Begins
  <2> DEFINE r == ReadByte(rd)
             text == Bind(r, LAMBDA l, t : ReadBytes(t, (e - 224) * 256 + l))
  <2>6. r.ok /\ r.val = low /\ r.rest = left BY <2>4 DEF Got
  <2>7. /\ ~(e < 128) /\ e \notin 128 .. 191 /\ e \notin 192 .. 223
        /\ e # 240 /\ e # 241 /\ e # 242 /\ e # 243 /\ e # 244
    BY <1>1
  <2> HIDE DEF r
  <2>8. EntryAfter(e, rd) = BackedText(text, 2)
    BY SMT, <1>1, <2>7 DEF EntryAfter, BackedText, Backed, Convert, Bind, r
  <2>9. text = ReadBytes(left, (e - 224) * 256 + low) BY <2>6 DEF Bind
  <2> HIDE DEF text
  <2>10. text = Got(s, rest) BY <1>4, <2>5, <2>9
  <2>11. BackedText(text, 2) = Backing(s, 2 + Len(s), rest) BY <2>10, TextIsBacked
  <2> QED BY Zenon, <1>3, <2>3, <2>8, <2>11
<1>7. 1 + Len(more) = 2 + n BY <1>5
<1> HIDE DEF more
<1>8. Begun(e, more, s) BY <1>2, <1>5, <1>6, <1>7 DEF Begun
<1>9. IsContent(<<e>> \o more, s) BY <1>8, ContentFrom
<1>10. <<e>> \o more = <<e, low>> \o s BY <1>1, <1>2, TwoBytes DEF TwoFirst, more
<1> QED BY Zenon, <1>9, <1>10

LEMMA EntryOfLongText ==
  \A s \in Bytes : Len(s) \in Word => IsContent(<<240>> \o IntBytes(Len(s), 4) \o s, s)
<1> TAKE s \in Bytes
<1> HAVE Len(s) \in Word
<1>1. PICK n \in Nat : n = Len(s) /\ n \in Word BY DEF Bytes
<1>2. PICK e \in Byte : e = 240 BY DEF Byte
<1>0. PICK w \in Nat : w = 4 OBVIOUS
<1>3. PICK int \in Bytes : int = IntBytes(n, w) /\ Len(int) = w BY <1>1, IntBytesType
<1>4. LittleEndian(int) = n
  <2>1. PICK m4 : m4 = 2 * Greatest(32) + 1 /\ HoldsUnsigned(w, m4) BY <1>0, WidthsHold
  <2>2. n \in 0 .. m4 BY <1>1, <2>1 DEF Word
  <2> QED BY <1>3, <2>1, <2>2 DEF HoldsUnsigned
<1> DEFINE more == int \o s
<1>5. more \in Bytes /\ Len(more) = 4 + n
  <2>1. more \in Bytes /\ Len(more) = Len(int) + Len(s) BY DEF Bytes
  <2> HIDE DEF more
  <2> QED BY <1>0, <1>1, <1>3, <2>1
<1>6. ASSUME NEW rest \in Bytes PROVE EntryAfter(e, more \o rest) = Backing(s, 5 + n, rest)
  <2>0. PICK left : left = s \o rest OBVIOUS
  <2>1. left = s \o rest /\ left \in Bytes BY <2>0 DEF Bytes
  <2>2. PICK rd : rd = int \o left OBVIOUS
  <2>3. more \o rest = rd BY <2>1, <2>2, ConcatAssociative DEF Bytes
  <2>4. ReadUint(rd, w) = Got(n, left) BY <1>3, <1>4, <2>1, <2>2, UintRead DEF Begins
  <2>5. ReadBytes(left, n) = Got(s, rest) BY <1>1, <2>1, BytesRead DEF Begins
  <2> DEFINE r == ReadUint(rd, w)
             text == Bind(r, LAMBDA l, t : ReadBytes(t, l))
  <2>6. r.ok /\ r.val = n /\ r.rest = left BY <2>4 DEF Got
  <2>7. ~(e < 128) /\ e \notin 128 .. 191 /\ e \notin 192 .. 223 /\ e \notin 224 .. 239
    BY <1>2
  <2> HIDE DEF r
  <2>8. EntryAfter(e, rd) = BackedText(text, 5)
    BY SMT, <1>0, <1>2, <2>7 DEF EntryAfter, BackedText, Backed, Convert, Bind, r
  <2>9. text = ReadBytes(left, n) BY <2>6 DEF Bind
  <2> HIDE DEF text
  <2>10. text = Got(s, rest) BY <2>5, <2>9
  <2>11. BackedText(text, 5) = Backing(s, 5 + Len(s), rest) BY <2>10, TextIsBacked
  <2> QED BY Zenon, <1>1, <2>3, <2>8, <2>11
<1>7. 1 + Len(more) = 5 + n BY <1>1, <1>5
<1> HIDE DEF more
<1>8. e # 255 BY <1>2
<1>9. Begun(e, more, s) BY <1>5, <1>6, <1>7, <1>8 DEF Begun
<1>10. IsContent(<<e>> \o more, s) BY <1>9, ContentFrom
<1>11. <<e>> \o more = (<<e>> \o int) \o s
  <2>1. <<e>> \in Seq(Byte) BY <1>2
  <2> QED BY <2>1, ConcatAssociative DEF Bytes, more
<1> QED BY <1>0, <1>1, <1>2, <1>3, <1>10, <1>11

\* The contents that an entry is written as.
AsContent(s) == {content \in Bytes : IsContent(content, s) /\ Len(content) <= 9 + Len(s)}

LEMMA ContentOfSeven ==
  \A s \in Bytes : IsNumber(s) /\ ParseInt(s) \in 0 .. 127 => <<ParseInt(s)>> \in AsContent(s)
<1> TAKE s \in Bytes
<1> HAVE IsNumber(s) /\ ParseInt(s) \in 0 .. 127
<1>1. PICK v \in 0 .. 127 : v = ParseInt(s) OBVIOUS
<1>2. FormatInt(v) = s BY <1>1, ParseIntType
<1>3. IsContent(<<v>>, s) BY <1>2, EntryOfSeven
<1>4. Len(<<v>>) = 1 /\ 1 <= 9 + Len(s) BY DEF Bytes
<1>5. <<v>> \in AsContent(s) BY <1>3, <1>4 DEF AsContent, IsContent
<1> QED BY <1>1, <1>5

LEMMA ContentOfThirteen ==
  \A s \in Bytes : IsInt(s, 13) =>
    <<192 + ((ParseInt(s) \div 256) % 32), ParseInt(s) % 256>> \in AsContent(s)
<1> TAKE s \in Bytes
<1> HAVE IsInt(s, 13)
<1>1. PICK v : v = ParseInt(s) OBVIOUS
<1>2. FormatInt(v) = s /\ v \in Int BY <1>1, ParseIntType DEF IsInt
<1>3. -4095 - 1 <= v /\ v <= 4095
  <2>1. Greatest(13) = 4095 BY DEF Greatest
  <2> QED BY <1>1, <2>1 DEF IsInt, Fits
<1>4. PICK e, low : e = 192 + ((v \div 256) % 32) /\ low = v % 256 /\ InThirteen(v, e, low)
  BY <1>2, <1>3, ThirteenHold
<1>5. IsContent(<<e, low>>, s) BY <1>2, <1>4, EntryOfThirteen
<1>6. Len(<<e, low>>) = 2 /\ 2 <= 9 + Len(s) BY DEF Bytes
<1>7. <<e, low>> \in AsContent(s) BY <1>5, <1>6 DEF AsContent, IsContent
<1> QED BY <1>1, <1>4, <1>7

\* The announced widths.
Announced(e, w, bits) ==
  \/ e = 241 /\ w = 2 /\ bits = 16
  \/ e = 242 /\ w = 3 /\ bits = 24
  \/ e = 243 /\ w = 4 /\ bits = 32
  \/ e = 244 /\ w = 8 /\ bits = 32

LEMMA ContentOfInt ==
  \A e, w, bits : \A s \in Bytes : Announced(e, w, bits) /\ IsInt(s, bits) =>
    <<e>> \o IntBytes(ParseInt(s), w) \in AsContent(s)
<1> SUFFICES ASSUME NEW e, NEW w, NEW bits, NEW s \in Bytes, Announced(e, w, bits), IsInt(s, bits)
             PROVE  <<e>> \o IntBytes(ParseInt(s), w) \in AsContent(s)
  OBVIOUS
<1>1. bits \in {8, 13, 16, 24, 32} /\ w \in Nat /\ w <= 8 /\ e \in Byte BY DEF Announced, Byte
<1>2. PICK v, g : v = ParseInt(s) /\ g = Greatest(bits) OBVIOUS
<1>3. IsIntOf(s, v, g) BY <1>1, <1>2, IntIsNumber
<1>4. PICK int \in Bytes : int = IntBytes(v, w) /\ Len(int) = w
  BY <1>1, <1>3, IntBytesType DEF IsIntOf
<1>5. IsContent(<<e>> \o int, s)
  <2>1. CASE e \in {241, 242}
    <3>1. NarrowInt(e, w, g, 2 * g + 1) BY <1>2, <2>1 DEF Announced, NarrowInt, Greatest
    <3> QED BY <1>3, <1>4, <3>1, EntryOfNarrowInt
  <2>2. CASE e \in {243, 244}
    <3>1. WideInt(e, w, g) BY <1>2, <2>2 DEF Announced, WideInt
    <3> QED BY <1>3, <1>4, <3>1, EntryOfWideInt
  <2> QED BY <2>1, <2>2 DEF Announced
<1>6. Len(<<e>> \o int) = 1 + w /\ 1 + w <= 9 + Len(s) BY <1>1, <1>4 DEF Bytes
<1>7. <<e>> \o int \in AsContent(s) BY <1>5, <1>6 DEF AsContent, IsContent
<1> QED BY <1>2, <1>4, <1>7

LEMMA ContentOfShortText ==
  \A s \in Bytes : Len(s) < 64 => <<128 + Len(s)>> \o s \in AsContent(s)
<1> TAKE s \in Bytes
<1> HAVE Len(s) < 64
<1>1. PICK n \in Nat : n = Len(s) BY DEF Bytes
<1>2. n < 64 BY <1>1
<1>3. PICK e \in Nat : e = 128 + n OBVIOUS
<1>4. e >= 128 /\ e <= 191 BY <1>2, <1>3
<1>5. e \in 128 .. 191 /\ n = e - 128 BY <1>3, <1>4
<1>6. IsContent(<<e>> \o s, s) BY <1>1, <1>5, EntryOfShortText
<1>7. Len(<<e>> \o s) = 1 + n /\ 1 + n <= 9 + n BY <1>1 DEF Bytes
<1>8. <<e>> \o s \in AsContent(s) BY <1>1, <1>6, <1>7 DEF AsContent, IsContent
<1> QED BY <1>1, <1>3, <1>8

LEMMA LenOfConcat == \A S, T : \A s \in Seq(S), t \in Seq(T) : Len(s \o t) = Len(s) + Len(t) OBVIOUS

LEMMA ContentOfText ==
  \A s \in Bytes : Len(s) < 4096 => <<224 + Len(s) \div 256, Len(s) % 256>> \o s \in AsContent(s)
<1> TAKE s \in Bytes
<1> HAVE Len(s) < 4096
<1>1. PICK n \in Nat : n = Len(s) BY DEF Bytes
<1>2. n < 4096 BY <1>1
<1>3. PICK e, low : e = 224 + (n \div 256) /\ low = n % 256 /\ InTwelve(n, e, low)
  <2>1. Twelve(n) BY <1>2, TwelveHold
  <2> QED BY <2>1 DEF Twelve
<1>4. IsContent(<<e, low>> \o s, s) BY <1>1, <1>3, EntryOfText
<1>5. Len(<<e, low>> \o s) = 2 + n /\ 2 + n <= 9 + n
  <2>1. <<e, low>> \in Seq({e, low}) /\ Len(<<e, low>>) = 2 OBVIOUS
  <2>2. Len(<<e, low>> \o s) = Len(<<e, low>>) + Len(s) BY <2>1, LenOfConcat
  <2> QED BY <1>1, <2>1, <2>2
<1>6. <<e, low>> \o s \in AsContent(s)
  <2> DEFINE content == <<e, low>> \o s
  <2>1. IsContent(content, s) /\ Len(content) <= 9 + Len(s) BY <1>1, <1>4, <1>5
  <2> HIDE DEF content
  <2>2. content \in AsContent(s) BY <2>1 DEF AsContent, IsContent
  <2> QED BY <2>2 DEF content
<1> QED BY <1>1, <1>3, <1>6

LEMMA ContentOfLongText ==
  \A s \in Bytes : Len(s) \in Word => <<240>> \o IntBytes(Len(s), 4) \o s \in AsContent(s)
<1> TAKE s \in Bytes
<1> HAVE Len(s) \in Word
<1>1. PICK n \in Nat : n = Len(s) BY DEF Bytes
<1>2. PICK w \in Nat : w = 4 OBVIOUS
<1>3. PICK int \in Bytes : int = IntBytes(n, w) /\ Len(int) = w BY IntBytesType
<1>4. PICK e \in Byte : e = 240 BY DEF Byte
<1>5. IsContent((<<e>> \o int) \o s, s) BY <1>1, <1>2, <1>3, <1>4, EntryOfLongText
<1>6. Len((<<e>> \o int) \o s) = Len(int) + 1 + Len(s) BY DEF Bytes
<1>7. Len((<<e>> \o int) \o s) <= 9 + n
  <2>1. PICK k : k = Len((<<e>> \o int) \o s) OBVIOUS
  <2>2. k = w + 1 + n BY <1>1, <1>3, <1>6, <2>1
  <2>3. k <= 9 + n BY <1>2, <2>2
  <2> QED BY <2>1, <2>3
<1>8. (<<e>> \o int) \o s \in AsContent(s) BY <1>1, <1>5, <1>7 DEF AsContent, IsContent
<1> QED BY <1>1, <1>2, <1>3, <1>4, <1>8

\* The content that ListpackEntryBytes writes.
Content(s, steps) ==
  LET n == Len(s)
      v == ParseInt(s)
  IN Choice(When(IsNumber(s) /\ v \in 0 .. 127, <<v>>)
              \o When(IsInt(s, 13), <<192 + ((v \div 256) % 32), v % 256>>)
              \o When(IsInt(s, 16), <<241>> \o IntBytes(v, 2))
              \o When(IsInt(s, 24), <<242>> \o IntBytes(v, 3))
              \o When(IsInt(s, 32), <<243>> \o IntBytes(v, 4))
              \o When(IsInt(s, 32), <<244>> \o IntBytes(v, 8))
              \o When(n < 64, <<128 + n>> \o s)
              \o When(n < 4096, <<224 + n \div 256, n % 256>> \o s)
              \o <<(<<240>> \o IntBytes(n, 4) \o s)>>, steps)

LEMMA ContentType ==
  \A s \in Bytes, steps \in Nat : Len(s) \in Word => Content(s, steps) \in AsContent(s)
<1> TAKE s \in Bytes, steps \in Nat
<1> HAVE Len(s) \in Word
<1> DEFINE n == Len(s)
           v == ParseInt(s)
           o1 == When(IsNumber(s) /\ v \in 0 .. 127, <<v>>)
           o2 == When(IsInt(s, 13), <<192 + ((v \div 256) % 32), v % 256>>)
           o3 == When(IsInt(s, 16), <<241>> \o IntBytes(v, 2))
           o4 == When(IsInt(s, 24), <<242>> \o IntBytes(v, 3))
           o5 == When(IsInt(s, 32), <<243>> \o IntBytes(v, 4))
           o6 == When(IsInt(s, 32), <<244>> \o IntBytes(v, 8))
           o7 == When(n < 64, <<128 + n>> \o s)
           o8 == When(n < 4096, <<224 + n \div 256, n % 256>> \o s)
           o9 == <<(<<240>> \o IntBytes(n, 4) \o s)>>
           S == AsContent(s)
<1>1. Content(s, steps) = Choice(o1 \o o2 \o o3 \o o4 \o o5 \o o6 \o o7 \o o8 \o o9, steps)
  BY DEF Content
<1>2. Optional(o1, S)
  <2>1. IsNumber(s) /\ v \in 0 .. 127 => <<v>> \in S BY ContentOfSeven
  <2> HIDE DEF S, v
  <2> QED BY <2>1 DEF When, Optional
<1>3. Optional(o2, S)
  <2>1. IsInt(s, 13) => <<192 + ((v \div 256) % 32), v % 256>> \in S BY ContentOfThirteen
  <2> HIDE DEF S, v
  <2> QED BY <2>1 DEF When, Optional
<1>4. Optional(o3, S) /\ Optional(o4, S) /\ Optional(o5, S) /\ Optional(o6, S)
  <2>1. /\ Announced(241, 2, 16) /\ Announced(242, 3, 24)
        /\ Announced(243, 4, 32) /\ Announced(244, 8, 32)
    BY DEF Announced
  <2>2. /\ IsInt(s, 16) => <<241>> \o IntBytes(v, 2) \in S
        /\ IsInt(s, 24) => <<242>> \o IntBytes(v, 3) \in S
        /\ IsInt(s, 32) => <<243>> \o IntBytes(v, 4) \in S
        /\ IsInt(s, 32) => <<244>> \o IntBytes(v, 8) \in S
    BY ZenonT(40), <2>1, ContentOfInt
  <2> HIDE DEF S, v
  <2> QED BY ZenonT(40), <2>2 DEF When, Optional
<1>5. Optional(o7, S)
  <2>1. n < 64 => <<128 + n>> \o s \in S BY ContentOfShortText
  <2> HIDE DEF S, n
  <2> QED BY <2>1 DEF When, Optional
<1>6. Optional(o8, S)
  <2> DEFINE text == <<224 + n \div 256, n % 256>> \o s
  <2>1. n < 4096 => text \in S BY ContentOfText
  <2>2. o8 = When(n < 4096, text) OBVIOUS
  <2> HIDE DEF S, n, text, o8
  <2>3. When(n < 4096, text) = IF n < 4096 THEN <<text>> ELSE <<>> BY DEF When
  <2> QED BY <2>1, <2>2, <2>3 DEF Optional
<1>7. <<240>> \o IntBytes(n, 4) \o s \in S BY Zenon, ContentOfLongText
<1> HIDE DEF o1, o2, o3, o4, o5, o6, o7, o8, S
<1>8. o9 \in Seq(S) /\ o9 # <<>>
  <2> DEFINE long == <<240>> \o IntBytes(n, 4) \o s
  <2> HIDE DEF long
  <2>1. long \in S BY <1>7 DEF long
  <2>2. <<long>> \in Seq(S) /\ <<long>> # <<>> BY <2>1
  <2> QED BY <2>2 DEF long
<1> HIDE DEF o9
<1>9. /\ o1 \in Seq(S) /\ o2 \in Seq(S) /\ o3 \in Seq(S) /\ o4 \in Seq(S)
      /\ o5 \in Seq(S) /\ o6 \in Seq(S) /\ o7 \in Seq(S) /\ o8 \in Seq(S)
  BY Zenon, <1>2, <1>3, <1>4, <1>5, <1>6, OptionalType
<1>10. o1 \o o2 \o o3 \o o4 \o o5 \o o6 \o o7 \o o8 \in Seq(S) BY <1>9
<1>11. /\ o1 \o o2 \o o3 \o o4 \o o5 \o o6 \o o7 \o o8 \o o9 \in Seq(S)
       /\ o1 \o o2 \o o3 \o o4 \o o5 \o o6 \o o7 \o o8 \o o9 # <<>>
  <2> DEFINE others == o1 \o o2 \o o3 \o o4 \o o5 \o o6 \o o7 \o o8
  <2> HIDE DEF others
  <2>1. others \in Seq(S) BY <1>10 DEF others
  <2>2. others \o o9 \in Seq(S) /\ others \o o9 # <<>> BY <1>8, <2>1
  <2> QED BY <2>2 DEF others
<1>12. Choice(o1 \o o2 \o o3 \o o4 \o o5 \o o6 \o o7 \o o8 \o o9, steps) \in S
  BY Zenon, <1>11, ChoiceType
<1> QED BY <1>1, <1>12 DEF S

LEMMA BackingReads ==
  \A s, n, backlen, rest : Begins(backlen \o rest, backlen, lpEncodeBacklen(n), rest)
    => Backing(s, n, backlen \o rest) = Got(s, rest)
<1> SUFFICES ASSUME NEW s, NEW n, NEW backlen, NEW rest,
                    Begins(backlen \o rest, backlen, lpEncodeBacklen(n), rest)
             PROVE  Backing(s, n, backlen \o rest) = Got(s, rest)
  OBVIOUS
<1> DEFINE r == ReadBytes(backlen \o rest, lpEncodeBacklen(n))
<1>1. r = Got(backlen, rest) BY BytesRead
<1> HIDE DEF r
<1>2. r.ok /\ r.val = backlen /\ r.rest = rest BY <1>1 DEF Got
<1> QED BY <1>2 DEF Backing, Bind, r

\* bytes are the listpack entry s, whatever follows.
IsEntry(bytes, s) ==
  /\ bytes \in Bytes /\ bytes # <<>> /\ Head(bytes) # 255 /\ Len(bytes) <= 14 + Len(s)
  /\ \A rest \in Bytes : readListpackEntry(bytes \o rest) = Got(s, rest)

\* readListpackEntry: a string is read back from every encoding an entry of a
\* listpack may have, and what it skips is the entry's own length at its end.
THEOREM ListpackEntriesLoad ==
  \A s \in Bytes, steps \in Nat : Len(s) \in Word => IsEntry(ListpackEntryBytes(s, steps), s)
<1> TAKE s \in Bytes, steps \in Nat
<1> HAVE Len(s) \in Word
<1> DEFINE content == Content(s, steps)
           n == Len(content)
           backlen == BacklenBytes(n)
<1>1. ListpackEntryBytes(s, steps) = content \o backlen BY DEF ListpackEntryBytes, Content
<1>2. content \in Bytes /\ IsContent(content, s) /\ n <= 9 + Len(s) BY ContentType DEF AsContent
<1> HIDE DEF content
<1>3. n \in Nat BY <1>2 DEF Bytes
<1>4. backlen \in Bytes /\ Len(backlen) = lpEncodeBacklen(n) BY <1>3, BacklenType
<1>5. Len(backlen) <= 5 BY SMT, <1>4 DEF lpEncodeBacklen
<1> HIDE DEF n, backlen
<1> DEFINE bytes == content \o backlen
<1>6. bytes \in Bytes /\ Len(bytes) = n + Len(backlen) BY <1>2, <1>4 DEF Bytes, n
<1>7. Len(bytes) <= 14 + Len(s)
  <2>1. Len(s) \in Nat /\ Len(backlen) \in Nat BY <1>4 DEF Bytes
  <2> HIDE DEF bytes
  <2> QED BY <1>2, <1>3, <1>5, <1>6, <2>1
<1>8. content # <<>> /\ Head(content) # 255 BY <1>2 DEF IsContent
<1>9. bytes # <<>> /\ Head(bytes) = Head(content) BY <1>2, <1>4, <1>8 DEF Bytes
<1>10. ASSUME NEW rest \in Bytes PROVE readListpackEntry(bytes \o rest) = Got(s, rest)
  <2> DEFINE left == backlen \o rest
  <2>1. left \in Bytes BY <1>4 DEF Bytes
  <2>2. bytes \o rest = content \o left
    <3>1. content \in Seq(Byte) /\ backlen \in Seq(Byte) /\ rest \in Seq(Byte) BY <1>2, <1>4 DEF Bytes
    <3> QED BY <3>1, ConcatAssociative
  <2>3. Backing(s, n, left) = Got(s, rest) BY <1>4, BackingReads DEF Begins
  <2> HIDE DEF left
  <2>4. readListpackEntry(content \o left) = Backing(s, n, left) BY <1>2, <2>1 DEF IsContent, n
  <2> HIDE DEF bytes
  <2> QED BY <2>2, <2>3, <2>4
<1> HIDE DEF bytes
<1>11. IsEntry(bytes, s) BY <1>6, <1>7, <1>8, <1>9, <1>10 DEF IsEntry
<1> QED BY <1>1, <1>11 DEF bytes

---------------------------------------------------------------------------
(* Sequences, one element after the other *)

LEMMA SequenceInduction ==
  ASSUME NEW S, NEW T \in SUBSET Seq(S), <<>> \in T,
         ASSUME NEW s \in T, NEW e \in S PROVE Append(s, e) \in T
  PROVE  T = Seq(S)
<1> DEFINE N == {n \in Nat : \A s \in Seq(S) : Len(s) = n => s \in T}
<1>1. 0 \in N
  <2>1. \A s \in Seq(S) : Len(s) = 0 => s = <<>> OBVIOUS
  <2> QED BY <2>1
<1>2. ASSUME NEW n \in N PROVE n + 1 \in N
  <2>1. n \in Nat OBVIOUS
  <2>2. ASSUME NEW s \in Seq(S), Len(s) = n + 1 PROVE s \in T
    <3>1. s # <<>> BY <2>1, <2>2
    <3>2. PICK t \in Seq(S), e \in S : s = Append(t, e) BY <3>1, SequenceEmptyOrAppend
    <3>3. Len(s) = Len(t) + 1 /\ Len(t) \in Nat BY <3>2
    <3>4. Len(t) = n BY <2>1, <2>2, <3>3
    <3>5. t \in T BY <3>4
    <3> QED BY <3>2, <3>5
  <2> QED BY <2>1, <2>2
<1>3. N = Nat
  <2> HIDE DEF N
  <2>1. N \in SUBSET Nat BY DEF N
  <2> QED BY <1>1, <1>2, <2>1, NumberInduction
<1>4. ASSUME NEW s \in Seq(S) PROVE s \in T
  <2>1. Len(s) \in Nat OBVIOUS
  <2> QED BY <1>3, <2>1
<1> QED BY <1>4

\* What FlattenSeq has put together after the first i of n sequences.
Flattens(f, n, seqs) == f = [i \in 1 .. n |-> IF i = 1 THEN seqs[i] ELSE f[i - 1] \o seqs[i]]

LEMMA FlattensExists == \A seqs : \A n \in Nat : \E f : Flattens(f, n, seqs)
<1> TAKE seqs
<1> DEFINE N == {n \in Nat : \E f : Flattens(f, n, seqs)}
<1>1. 0 \in N
  <2> DEFINE g == [i \in 1 .. 0 |-> <<>>]
  <2>1. g = [i \in 1 .. 0 |-> IF i = 1 THEN seqs[i] ELSE g[i - 1] \o seqs[i]] OBVIOUS
  <2>2. Flattens(g, 0, seqs) BY <2>1 DEF Flattens
  <2> QED BY <2>2
<1>2. ASSUME NEW n \in N PROVE n + 1 \in N
  <2>1. n \in Nat OBVIOUS
  <2>2. PICK f : Flattens(f, n, seqs) OBVIOUS
  <2> DEFINE Step(i) == IF i = 1 THEN seqs[i] ELSE f[i - 1] \o seqs[i]
             g == [i \in 1 .. n + 1 |-> Step(i)]
  <2>3. ASSUME NEW i \in 1 .. n PROVE f[i] = Step(i) BY <2>2 DEF Flattens
  <2>4. ASSUME NEW i \in 1 .. n + 1, i # 1 PROVE g[i - 1] = f[i - 1]
    <3>1. i - 1 \in 1 .. n /\ i - 1 \in 1 .. n + 1 BY <2>1, <2>4
    <3>2. g[i - 1] = Step(i - 1) BY <3>1
    <3>3. f[i - 1] = Step(i - 1) BY <2>3, <3>1
    <3> HIDE DEF g, Step
    <3> QED BY <3>2, <3>3
  <2>5. ASSUME NEW i \in 1 .. n + 1 PROVE g[i] = IF i = 1 THEN seqs[i] ELSE g[i - 1] \o seqs[i]
    <3>1. g[i] = Step(i) OBVIOUS
    <3> HIDE DEF g
    <3> QED BY <2>4, <3>1
  <2>6. g = [i \in 1 .. n + 1 |-> g[i]] OBVIOUS
  <2> HIDE DEF g
  <2>7. Flattens(g, n + 1, seqs) BY <2>5, <2>6 DEF Flattens
  <2> QED BY <2>1, <2>7
<1>3. N = Nat
  <2> HIDE DEF N
  <2>1. N \in SUBSET Nat BY DEF N
  <2> QED BY <1>1, <1>2, <2>1, NumberInduction
<1> QED BY <1>3

LEMMA FlattenSeqFlattens ==
  \A seqs : Len(seqs) \in Nat \ {0} =>
    \E f : Flattens(f, Len(seqs), seqs) /\ FlattenSeq(seqs) = f[Len(seqs)]
<1> TAKE seqs
<1> HAVE Len(seqs) \in Nat \ {0}
<1> DEFINE f == CHOOSE g : Flattens(g, Len(seqs), seqs)
<1>1. Flattens(f, Len(seqs), seqs) BY FlattensExists
<1>2. Len(seqs) # 0 OBVIOUS
<1>3. FlattenSeq(seqs) = f[Len(seqs)] BY Zenon, <1>2 DEF FlattenSeq, Flattens
<1> HIDE DEF f
<1> QED BY <1>1, <1>3

LEMMA FlattenOfNone == FlattenSeq(<<>>) = <<>>
<1>1. Len(<<>>) = 0 OBVIOUS
<1> QED BY Zenon, <1>1 DEF FlattenSeq

LEMMA FlattenAppends ==
  ASSUME NEW S, NEW seqs \in Seq(Seq(S)), NEW s \in Seq(S)
  PROVE  /\ FlattenSeq(Append(seqs, s)) = FlattenSeq(seqs) \o s
<1> DEFINE n == Len(seqs)
           more == Append(seqs, s)
<1>1. n \in Nat /\ Len(more) = n + 1 OBVIOUS
<1>2. \A i \in 1 .. n : more[i] = seqs[i] OBVIOUS
<1>3. more[n + 1] = s OBVIOUS
<1>4. PICK g : Flattens(g, n + 1, more) /\ FlattenSeq(more) = g[n + 1]
  <2>1. Len(more) \in Nat \ {0} BY <1>1
  <2>2. \E g : Flattens(g, Len(more), more) /\ FlattenSeq(more) = g[Len(more)]
    <3> HIDE DEF more
    <3> QED BY <2>1, FlattenSeqFlattens
  <2> QED BY <1>1, <2>2
<1> HIDE DEF more
<1>5. CASE n = 0
  <2>1. g[1] = s BY <1>1, <1>3, <1>4, <1>5 DEF Flattens
  <2>2. seqs = <<>> BY <1>5
  <2>3. FlattenSeq(seqs) = <<>> BY <2>2, FlattenOfNone
  <2>4. <<>> \o s = s OBVIOUS
  <2> QED BY <1>4, <1>5, <2>1, <2>3, <2>4 DEF more
<1>6. CASE n # 0
  <2>1. PICK f : Flattens(f, n, seqs) /\ FlattenSeq(seqs) = f[n]
    <3>1. n \in Nat \ {0} BY <1>1, <1>6
    <3> QED BY <3>1, FlattenSeqFlattens
  <2> HIDE DEF n
  <2> DEFINE M == {i \in Nat : i + 1 <= n => g[i + 1] = f[i + 1]}
  <2>2. 0 \in M
    <3>1. 1 \in 1 .. n + 1 /\ 1 \in 1 .. n BY <1>1, <1>6
    <3>2. g[1] = more[1] BY <1>4, <3>1 DEF Flattens
    <3>3. f[1] = seqs[1] BY <2>1, <3>1 DEF Flattens
    <3>4. 0 + 1 = 1 OBVIOUS
    <3> QED BY <1>2, <3>1, <3>2, <3>3, <3>4
  <2>3. ASSUME NEW i \in M PROVE i + 1 \in M
    <3> SUFFICES ASSUME i + 1 + 1 <= n PROVE g[i + 1 + 1] = f[i + 1 + 1] OBVIOUS
    <3>1. i \in Nat OBVIOUS
    <3>2. PICK k \in Nat : k = i + 1 + 1 BY <3>1
    <3>3. k \in 1 .. n /\ k \in 1 .. n + 1 /\ k # 1 /\ k - 1 = i + 1 BY <1>1, <3>1, <3>2
    <3>4. g[i + 1] = f[i + 1] BY <1>1, <3>1
    <3>5. g[k] = g[k - 1] \o more[k] BY <1>4, <3>3 DEF Flattens
    <3>6. f[k] = f[k - 1] \o seqs[k] BY <2>1, <3>3 DEF Flattens
    <3>7. more[k] = seqs[k] BY <1>2, <3>3
    <3>8. g[k] = f[k] BY <3>3, <3>4, <3>5, <3>6, <3>7
    <3> QED BY <3>2, <3>8
  <2>4. M = Nat
    <3> HIDE DEF M
    <3>1. M \in SUBSET Nat BY DEF M
    <3> QED BY <2>2, <2>3, <3>1, NumberInduction
  <2>6. n - 1 \in Nat /\ (n - 1) + 1 = n BY <1>1, <1>6
  <2>5. n - 1 \in M
    <3> HIDE DEF M
    <3> QED BY <2>4, <2>6
  <2>7. g[n] = f[n] BY <1>1, <2>5, <2>6
  <2>8. n + 1 \in 1 .. n + 1 /\ n + 1 # 1 /\ (n + 1) - 1 = n BY <1>1, <1>6
  <2>9. g[n + 1] = g[n] \o more[n + 1] BY <1>4, <2>8 DEF Flattens
  <2> QED BY <1>3, <1>4, <2>1, <2>7, <2>9 DEF more
<1> QED BY <1>5, <1>6

---------------------------------------------------------------------------
(* The same decoder many times *)

\* What is read many times: entries of the structures, strings, nodes of
\* quicklists, and pairs whose second is a string, a float or a double.
Reader(k, rd) ==
  CASE k = "ziplist" -> ZipEntry(rd)
    [] k = "listpack" -> readListpackEntry(rd)
    [] k = "string" -> ReadString(rd)
    [] k = "ziplists" -> ReadZipList(rd)
    [] k = "nodes" -> QuickListNode(rd)
    [] k = "int2" -> IntsetElement(rd, 2)
    [] k = "int4" -> IntsetElement(rd, 4)
    [] k = "int8" -> IntsetElement(rd, 8)
    [] k = "fields" -> ReadPair(rd, ReadString)
    [] k = "scores" -> ReadPair(rd, ReadFloat)
    [] k = "doubles" -> ReadPair(rd, ReadDouble)

\* One value more.
OneMore(k, result) ==
  Bind(result, LAMBDA vals, rest : Convert(Reader(k, rest), LAMBDA val : Append(vals, val)))

\* What ReadTimes has read after each of n times.
UpTo(f, k, n, rd) == f = [i \in 0 .. n |-> IF i = 0 THEN Got(<<>>, rd) ELSE OneMore(k, f[i - 1])]

LEMMA UpToExists == \A k, rd : \A n \in Nat : \E f : UpTo(f, k, n, rd)
<1> TAKE k, rd
<1> DEFINE N == {n \in Nat : \E f : UpTo(f, k, n, rd)}
           none == Got(<<>>, rd)
<1> HIDE DEF none
<1>1. 0 \in N
  <2> DEFINE g == [i \in 0 .. 0 |-> none]
  <2>1. g = [i \in 0 .. 0 |-> IF i = 0 THEN none ELSE OneMore(k, g[i - 1])]
    <3>1. \A i \in 0 .. 0 : i = 0 OBVIOUS
    <3> QED BY <3>1
  <2>2. UpTo(g, k, 0, rd) BY Zenon, <2>1 DEF UpTo, none
  <2> QED BY <2>2
<1>2. ASSUME NEW n \in N PROVE n + 1 \in N
  <2>1. n \in Nat OBVIOUS
  <2>2. PICK f : UpTo(f, k, n, rd) OBVIOUS
  <2> DEFINE Step(i) == IF i = 0 THEN none ELSE OneMore(k, f[i - 1])
             g == [i \in 0 .. n + 1 |-> Step(i)]
  <2>3. ASSUME NEW i \in 0 .. n PROVE f[i] = Step(i)
    <3>1. f = [j \in 0 .. n |-> Step(j)] BY Zenon, <2>2 DEF UpTo, none
    <3> HIDE DEF Step
    <3> QED BY <3>1
  <2>4. ASSUME NEW i \in 0 .. n + 1, i # 0 PROVE g[i - 1] = f[i - 1]
    <3>1. i - 1 \in 0 .. n /\ i - 1 \in 0 .. n + 1 BY <2>1, <2>4
    <3> HIDE DEF Step
    <3>2. g[i - 1] = Step(i - 1) BY <3>1
    <3>3. f[i - 1] = Step(i - 1) BY <2>3, <3>1
    <3> HIDE DEF g
    <3> QED BY <3>2, <3>3
  <2>5. ASSUME NEW i \in 0 .. n + 1 PROVE g[i] = IF i = 0 THEN none ELSE OneMore(k, g[i - 1])
    <3>1. g[i] = Step(i) OBVIOUS
    <3> HIDE DEF g
    <3> QED BY Zenon, <2>4, <3>1
  <2>6. g = [i \in 0 .. n + 1 |-> g[i]] OBVIOUS
  <2> HIDE DEF g
  <2>7. g = [i \in 0 .. n + 1 |-> IF i = 0 THEN none ELSE OneMore(k, g[i - 1])]
    <3> DEFINE More(i) == IF i = 0 THEN none ELSE OneMore(k, g[i - 1])
    <3>1. \A i \in 0 .. n + 1 : g[i] = More(i) BY Zenon, <2>5
    <3> HIDE DEF More
    <3>2. g = [i \in 0 .. n + 1 |-> More(i)] BY <2>6, <3>1
    <3> QED BY Zenon, <3>2 DEF More
  <2>8. UpTo(g, k, n + 1, rd) BY Zenon, <2>7 DEF UpTo, none
  <2> QED BY <2>1, <2>8
<1>3. N = Nat
  <2> HIDE DEF N
  <2>1. N \in SUBSET Nat BY DEF N
  <2> QED BY <1>1, <1>2, <2>1, NumberInduction
<1> QED BY <1>3

\* What reading n times leads to.
Times(k, n, rd, result) == \E f : UpTo(f, k, n, rd) /\ result = f[n]

\* The function that ReadTimes chooses.
UpToPacked(f, n, rd) ==
  f = [i \in 0 .. n |->
         IF i = 0 THEN Got(<<>>, rd)
         ELSE Bind(f[i - 1], LAMBDA vals, rest :
                Convert(readListpackEntry(rest), LAMBDA val : Append(vals, val)))]

LEMMA ReadTimesListpack ==
  \A n \in Nat : \A rd : Times("listpack", n, rd, ReadTimes(n, readListpackEntry, rd))
<1> TAKE n \in Nat
<1> TAKE rd
<1> DEFINE f == CHOOSE g : UpToPacked(g, n, rd)
<1>1. \A r : Reader("listpack", r) = readListpackEntry(r) BY Zenon DEF Reader
<1>2. \A result : OneMore("listpack", result) =
                    Bind(result, LAMBDA vals, rest :
                      Convert(readListpackEntry(rest), LAMBDA val : Append(vals, val)))
  <2> TAKE result
  <2> DEFINE r == readListpackEntry(result.rest)
  <2>1. Reader("listpack", result.rest) = r BY <1>1
  <2>2. OneMore("listpack", result) =
          IF result.ok THEN Convert(r, LAMBDA val : Append(result.val, val)) ELSE Panicked
    <3> HIDE DEF r
    <3> QED BY SMT, <2>1 DEF OneMore, Bind, Convert
  <2> QED BY Zenon, <2>2 DEF Bind
<1>3. \A g : UpTo(g, "listpack", n, rd) <=> UpToPacked(g, n, rd)
  <2> TAKE g
  <2> DEFINE Old(i) == IF i = 0 THEN Got(<<>>, rd) ELSE OneMore("listpack", g[i - 1])
             New(i) == IF i = 0 THEN Got(<<>>, rd)
                       ELSE Bind(g[i - 1], LAMBDA vals, rest :
                              Convert(readListpackEntry(rest), LAMBDA val : Append(vals, val)))
  <2>1. \A i \in 0 .. n : Old(i) = New(i) BY Zenon, <1>2
  <2>2. [i \in 0 .. n |-> Old(i)] = [i \in 0 .. n |-> New(i)]
    <3> HIDE DEF Old, New
    <3> QED BY <2>1
  <2> QED BY Zenon, <2>2 DEF UpTo, UpToPacked
<1>4. UpToPacked(f, n, rd)
  <2>1. \E g : UpToPacked(g, n, rd) BY Zenon, <1>3, UpToExists
  <2> QED BY Zenon, <2>1
<1>5. ReadTimes(n, readListpackEntry, rd) = f[n] BY Zenon DEF ReadTimes, UpToPacked
<1> HIDE DEF f
<1>6. UpTo(f, "listpack", n, rd) BY <1>3, <1>4
<1> QED BY <1>5, <1>6 DEF Times

\* piece is the entry s, and bytes are all of the list, whatever follows.
ReadsAs(k, piece, s) == piece \in Bytes /\ \A rest \in Bytes : Reader(k, piece \o rest) = Got(s, rest)

ReadsAll(k, bytes, list) ==
  /\ bytes \in Bytes
  /\ \A rest \in Bytes, n \in Nat : \A f :
       Len(list) <= n /\ UpTo(f, k, n, bytes \o rest) => f[Len(list)] = Got(list, rest)

LEMMA ReadsNone == \A k : ReadsAll(k, <<>>, <<>>)
<1> TAKE k
<1>1. <<>> \in Bytes /\ Len(<<>>) = 0 BY DEF Bytes
<1>2. ASSUME NEW rest \in Bytes, NEW n \in Nat, NEW f, UpTo(f, k, n, <<>> \o rest)
      PROVE  f[0] = Got(<<>>, rest)
  <2>1. <<>> \o rest = rest BY DEF Bytes
  <2>2. 0 \in 0 .. n OBVIOUS
  <2>3. UpTo(f, k, n, rest) BY <1>2, <2>1
  <2> QED BY SMT, <2>2, <2>3 DEF UpTo
<1> QED BY Zenon, <1>1, <1>2 DEF ReadsAll

LEMMA ReadsOneMore ==
  \A k, piece, s, list, rest :
    rest \in Bytes /\ ReadsAs(k, piece, s) => OneMore(k, Got(list, piece \o rest)) = Got(Append(list, s), rest)
<1> SUFFICES ASSUME NEW k, NEW piece, NEW s, NEW list, NEW rest, rest \in Bytes, ReadsAs(k, piece, s)
             PROVE  OneMore(k, Got(list, piece \o rest)) = Got(Append(list, s), rest)
  OBVIOUS
<1> DEFINE rd == piece \o rest
           r == Reader(k, rd)
<1>1. r = Got(s, rest) BY DEF ReadsAs
<1> HIDE DEF r, rd
<1>2. r.ok /\ r.val = s /\ r.rest = rest BY <1>1 DEF Got
<1>3. Got(list, rd).ok /\ Got(list, rd).val = list /\ Got(list, rd).rest = rd BY DEF Got
<1>4. OneMore(k, Got(list, rd)) = Convert(r, LAMBDA val : Append(list, val))
  BY <1>3 DEF OneMore, Bind, Convert, r
<1>5. Convert(r, LAMBDA val : Append(list, val)) = Got(Append(list, s), rest)
  BY <1>2 DEF Convert, Bind
<1> QED BY Zenon, <1>4, <1>5 DEF rd

LEMMA ReadsMore ==
  \A k, S, bytes, piece : \A s \in S, list \in Seq(S) :
    ReadsAll(k, bytes, list) /\ ReadsAs(k, piece, s) => ReadsAll(k, bytes \o piece, Append(list, s))
<1> TAKE k, S, bytes, piece
<1> TAKE s \in S, list \in Seq(S)
<1> HAVE ReadsAll(k, bytes, list) /\ ReadsAs(k, piece, s)
<1> DEFINE more == Append(list, s)
<1>1. bytes \in Bytes /\ piece \in Bytes BY DEF ReadsAll, ReadsAs
<1>2. bytes \o piece \in Bytes BY <1>1 DEF Bytes
<1>3. Len(list) \in Nat /\ Len(more) = Len(list) + 1 OBVIOUS
<1>4. ASSUME NEW rest \in Bytes, NEW n \in Nat, NEW f,
             Len(more) <= n, UpTo(f, k, n, (bytes \o piece) \o rest)
      PROVE  f[Len(more)] = Got(more, rest)
  <2>1. (bytes \o piece) \o rest = bytes \o (piece \o rest) /\ piece \o rest \in Bytes
    BY <1>1, ConcatAssociative DEF Bytes
  <2>2. Len(list) <= n BY <1>3, <1>4
  <2>3. UpTo(f, k, n, bytes \o (piece \o rest)) BY <1>4, <2>1
  <2>4. f[Len(list)] = Got(list, piece \o rest) BY <2>1, <2>2, <2>3 DEF ReadsAll
  <2> DEFINE m == Len(more)
  <2>5. m \in 0 .. n /\ m # 0 /\ m - 1 = Len(list) BY <1>3, <1>4
  <2> HIDE DEF m
  <2>6. f[m] = OneMore(k, f[m - 1]) BY SMT, <2>3, <2>5 DEF UpTo
  <2>7. f[m] = OneMore(k, Got(list, piece \o rest)) BY <2>4, <2>5, <2>6
  <2>8. OneMore(k, Got(list, piece \o rest)) = Got(Append(list, s), rest) BY ReadsOneMore
  <2> QED BY Zenon, <2>7, <2>8 DEF m
<1> HIDE DEF more
<1>5. ReadsAll(k, bytes \o piece, more) BY <1>2, <1>4 DEF ReadsAll
<1> QED BY <1>5 DEF more

---------------------------------------------------------------------------
(* Listpacks *)

\* The strings whose length the format can write.
Strings == {s \in Bytes : Len(s) \in Word}

EntriesOf(list, steps) == FlattenSeq([i \in DOMAIN list |-> ListpackEntryBytes(list[i], steps)])

LEMMA EntryType == \A s \in Strings, steps \in Nat : IsEntry(ListpackEntryBytes(s, steps), s)
  BY ListpackEntriesLoad DEF Strings

LEMMA EntriesOfNone == \A steps : EntriesOf(<<>>, steps) = <<>>
<1> TAKE steps
<1>1. [i \in DOMAIN <<>> |-> ListpackEntryBytes(<<>>[i], steps)] = <<>> OBVIOUS
<1> QED BY Zenon, <1>1, FlattenOfNone DEF EntriesOf

LEMMA EntriesOfMore ==
  \A list \in Seq(Strings), s \in Strings, steps \in Nat :
    EntriesOf(Append(list, s), steps) = EntriesOf(list, steps) \o ListpackEntryBytes(s, steps)
<1> TAKE list \in Seq(Strings), s \in Strings, steps \in Nat
<1> DEFINE more == Append(list, s)
           E(t) == ListpackEntryBytes(t, steps)
           old == [i \in DOMAIN list |-> E(list[i])]
           new == [i \in DOMAIN more |-> E(more[i])]
<1>1. \A t \in Strings : E(t) \in Seq(Byte) BY EntryType DEF IsEntry, Bytes
<1> HIDE DEF E
<1>2. old \in Seq(Seq(Byte)) /\ Len(old) = Len(list)
  <2>1. DOMAIN list = 1 .. Len(list) /\ Len(list) \in Nat OBVIOUS
  <2>2. \A i \in DOMAIN list : E(list[i]) \in Seq(Byte) BY <1>1
  <2> QED BY <2>1, <2>2
<1>3. new = Append(old, E(s)) BY <1>1
<1>4. E(s) \in Seq(Byte) BY <1>1
<1> HIDE DEF new, old
<1>5. FlattenSeq(new) = FlattenSeq(old) \o E(s) BY <1>2, <1>3, <1>4, FlattenAppends
<1> QED BY Zenon, <1>5 DEF EntriesOf, new, old, E

LEMMA EntriesLoad ==
  \A steps \in Nat, list \in Seq(Strings) : ReadsAll("listpack", EntriesOf(list, steps), list)
<1> TAKE steps \in Nat
<1> DEFINE Loads(list) == ReadsAll("listpack", EntriesOf(list, steps), list)
           T == {list \in Seq(Strings) : Loads(list)}
<1>1. <<>> \in T
  <2>1. Loads(<<>>) BY EntriesOfNone, ReadsNone
  <2> HIDE DEF Loads
  <2> QED BY <2>1
<1>2. ASSUME NEW list \in T, NEW s \in Strings PROVE Append(list, s) \in T
  <2>1. list \in Seq(Strings) /\ ReadsAll("listpack", EntriesOf(list, steps), list) OBVIOUS
  <2>2. PICK piece : piece = ListpackEntryBytes(s, steps) /\ IsEntry(piece, s) BY EntryType
  <2>3. ReadsAs("listpack", piece, s)
    <3>1. \A r : Reader("listpack", r) = readListpackEntry(r) BY Zenon DEF Reader
    <3> QED BY Zenon, <2>2, <3>1 DEF ReadsAs, IsEntry
  <2>4. ReadsAll("listpack", EntriesOf(list, steps) \o piece, Append(list, s))
    BY <2>1, <2>3, ReadsMore
  <2>5. EntriesOf(Append(list, s), steps) = EntriesOf(list, steps) \o piece
    BY <2>1, <2>2, EntriesOfMore
  <2>6. Loads(Append(list, s)) BY <2>4, <2>5
  <2>7. Append(list, s) \in Seq(Strings) BY <2>1
  <2> HIDE DEF Loads
  <2> QED BY <2>6, <2>7
<1>3. T = Seq(Strings)
  <2> HIDE DEF T
  <2>1. T \in SUBSET Seq(Strings) BY DEF T
  <2> QED BY <1>1, <1>2, <2>1, SequenceInduction
<1> QED BY <1>3

\* After m of the elements there is one that begins with no end byte.
Beyond(bytes, list, m) ==
  \E head, more : /\ ReadsAll("listpack", head, SubSeq(list, 1, m))
                  /\ more \in Bytes /\ more # <<>> /\ Head(more) # 255
                  /\ bytes = head \o more

LEMMA BeyondAppends ==
  \A bytes, piece, list, m : \A longer :
    /\ Beyond(bytes, list, m) /\ piece \in Bytes /\ SubSeq(longer, 1, m) = SubSeq(list, 1, m)
    => Beyond(bytes \o piece, longer, m)
<1> TAKE bytes, piece, list, m
<1> TAKE longer
<1> HAVE Beyond(bytes, list, m) /\ piece \in Bytes /\ SubSeq(longer, 1, m) = SubSeq(list, 1, m)
<1>1. PICK head, more : /\ ReadsAll("listpack", head, SubSeq(list, 1, m))
                        /\ more \in Bytes /\ more # <<>> /\ Head(more) # 255
                        /\ bytes = head \o more
  BY DEF Beyond
<1>2. head \in Seq(Byte) /\ more \in Seq(Byte) /\ piece \in Seq(Byte) BY <1>1 DEF ReadsAll, Bytes
<1>3. bytes \o piece = head \o (more \o piece) BY SMTT(30), <1>1, <1>2, ConcatAssociative
<1>4. more \o piece \in Bytes /\ more \o piece # <<>> /\ Head(more \o piece) = Head(more)
  BY <1>1, <1>2 DEF Bytes
<1>5. ReadsAll("listpack", head, SubSeq(longer, 1, m)) BY <1>1
<1>6. Head(more \o piece) # 255 BY <1>1, <1>4
<1> QED BY Zenon, <1>3, <1>4, <1>5, <1>6 DEF Beyond

LEMMA EntriesBeyond ==
  \A steps \in Nat, m \in Nat, list \in Seq(Strings) :
    Len(list) > m => Beyond(EntriesOf(list, steps), list, m)
<1> TAKE steps \in Nat, m \in Nat
<1> DEFINE Goes(list) == Len(list) > m => Beyond(EntriesOf(list, steps), list, m)
           T == {list \in Seq(Strings) : Goes(list)}
<1>1. <<>> \in T
  <2>1. Goes(<<>>) OBVIOUS
  <2> HIDE DEF Goes
  <2> QED BY <2>1
<1>2. ASSUME NEW list \in T, NEW s \in Strings PROVE Append(list, s) \in T
  <2>1. list \in Seq(Strings) /\ Goes(list) OBVIOUS
  <2>2. PICK piece : piece = ListpackEntryBytes(s, steps) /\ IsEntry(piece, s) BY EntryType
  <2>3. PICK longer : longer = Append(list, s) OBVIOUS
  <2>4. EntriesOf(longer, steps) = EntriesOf(list, steps) \o piece
    BY <2>1, <2>2, <2>3, EntriesOfMore
  <2>5. longer \in Seq(Strings) /\ Len(longer) = Len(list) + 1 /\ Len(list) \in Nat BY <2>1, <2>3
  <2>6. piece \in Bytes /\ piece # <<>> /\ Head(piece) # 255 BY <2>2 DEF IsEntry
  <2>7. ASSUME Len(longer) > m PROVE Beyond(EntriesOf(longer, steps), longer, m)
    <3>1. CASE Len(list) > m
      <4>1. SubSeq(longer, 1, m) = SubSeq(list, 1, m) BY <2>1, <2>3, <3>1
      <4>2. Beyond(EntriesOf(list, steps), list, m) BY <2>1, <3>1
      <4>3. Beyond(EntriesOf(list, steps) \o piece, longer, m)
        BY <2>6, <4>1, <4>2, BeyondAppends
      <4> QED BY <2>4, <4>3
    <3>2. CASE Len(list) = m
      <4>1. SubSeq(longer, 1, m) = list BY <2>1, <2>3, <3>2
      <4>2. ReadsAll("listpack", EntriesOf(list, steps), SubSeq(longer, 1, m))
        BY <2>1, <4>1, EntriesLoad
      <4> QED BY Zenon, <2>4, <2>6, <4>2 DEF Beyond
    <3> QED BY <2>5, <2>7, <3>1, <3>2
  <2>8. Goes(longer) BY <2>7
  <2> HIDE DEF Goes
  <2> QED BY <2>3, <2>5, <2>8
<1>3. T = Seq(Strings)
  <2> HIDE DEF T
  <2>1. T \in SUBSET Seq(Strings) BY DEF T
  <2> QED BY <1>1, <1>2, <2>1, SequenceInduction
<1> QED BY <1>3

\* A count that two bytes can tell.
Count(n) == Min({n, Unknown})

LEMMA CountRead ==
  \A n \in Nat : /\ CountBytes(n) \in Bytes /\ Len(CountBytes(n)) = 2
                 /\ LittleEndian(CountBytes(n)) = Count(n)
                 /\ Count(n) \in Nat /\ Count(n) = IF n <= Unknown THEN n ELSE Unknown
<1> TAKE n \in Nat
<1>1. PICK c : c = Count(n) OBVIOUS
<1>2. n \in Int /\ Unknown \in Int BY UnknownAssumption
<1>3. c = IF n <= Unknown THEN n ELSE Unknown BY Zenon, <1>1, <1>2, LeastOfTwo DEF Count
<1>4. c \in Nat /\ c <= Unknown BY <1>3, UnknownAssumption
<1>5. PICK w \in Nat : w = 2 OBVIOUS
<1>6. PICK m \in Nat : Unknown <= m /\ HoldsUnsigned(w, m)
  <2>1. PICK m2 \in Nat : m2 = 65535 /\ HoldsUnsigned(2, m2) BY WidthsHold
  <2>2. Unknown <= m2 BY <2>1, UnknownAssumption
  <2>3. HoldsUnsigned(2, m2) BY <2>1
  <2> QED BY Zenon, <1>5, <2>2, <2>3
<1>7. c \in 0 .. m
  <2>1. c <= m BY <1>2, <1>4, <1>6
  <2> QED BY <1>4, <2>1
<1>8. LittleEndian(IntBytes(c, w)) = c BY Zenon, <1>6, <1>7 DEF HoldsUnsigned
<1>9. IntBytes(c, w) \in Bytes /\ Len(IntBytes(c, w)) = w BY <1>4, IntBytesType
<1>10. CountBytes(n) = IntBytes(c, w) BY Zenon, <1>1, <1>5 DEF CountBytes, Count
<1>11. /\ CountBytes(n) \in Bytes /\ Len(CountBytes(n)) = 2
       /\ LittleEndian(CountBytes(n)) = Count(n)
  BY Zenon, <1>1, <1>5, <1>8, <1>9, <1>10
<1>12. Count(n) \in Nat /\ Count(n) = IF n <= Unknown THEN n ELSE Unknown BY Zenon, <1>1, <1>3, <1>4
<1> QED BY Zenon, <1>11, <1>12

\* What ends a structure.
Ending(list, rest) == Ended(Got(list, rest))

LEMMA EndingReads ==
  \A list, b, rest : b \in Byte /\ rest \in Bytes =>
    Ending(list, <<b>> \o rest) = IF b = 255 THEN Got(list, rest) ELSE Panicked
<1> SUFFICES ASSUME NEW list, NEW b \in Byte, NEW rest \in Bytes
             PROVE  Ending(list, <<b>> \o rest) = IF b = 255 THEN Got(list, rest) ELSE Panicked
  OBVIOUS
<1> DEFINE rd == <<b>> \o rest
           r == ReadByte(rd)
           g == Got(list, rd)
<1>1. r = Got(b, rest) BY ByteRead
<1>2. g.ok /\ g.val = list /\ g.rest = rd BY DEF Got
<1>3. Ending(list, rd) = Ended(g) BY DEF Ending
<1> HIDE DEF g
<1>4. Ended(g) = Bind(r, LAMBDA end, left : IF end = 255 THEN Got(list, left) ELSE Panicked)
  <2> HIDE DEF rd
  <2> QED BY <1>2 DEF Ended, Bind, r
<1> HIDE DEF r
<1>5. r.ok /\ r.val = b /\ r.rest = rest BY <1>1 DEF Got
<1>6. Bind(r, LAMBDA end, left : IF end = 255 THEN Got(list, left) ELSE Panicked)
        = IF b = 255 THEN Got(list, rest) ELSE Panicked
  BY <1>5 DEF Bind
<1> QED BY Zenon, <1>3, <1>4, <1>6

\* What ListpackBody makes of the total and the count it begins with.
BodyThen(size, rest) == Ended(ReadTimes(size, readListpackEntry, rest))

BodyAfter(total, rest) == Bind(ReadUint(rest, 2), BodyThen)

\* count elements are in the entries that begin bytes.
IsBody(total, counter, entries, count, list) ==
  /\ total \in Bytes /\ Len(total) = 4
  /\ counter \in Bytes /\ Len(counter) = 2 /\ LittleEndian(counter) = count /\ count \in Nat
  /\ ReadsAll("listpack", entries, list) /\ Len(list) = count

LEMMA CountsItself == \A n \in Nat : n <= n OBVIOUS

LEMMA BodyReads ==
  \A total, counter, entries, count, list : \A rest \in Bytes :
    IsBody(total, counter, entries, count, list)
    => ListpackBody(total \o (counter \o (entries \o rest))) = Ending(list, rest)
<1> TAKE total, counter, entries, count, list
<1> TAKE rest \in Bytes
<1> HAVE IsBody(total, counter, entries, count, list)
<1>1. /\ total \in Bytes /\ Len(total) = 4
      /\ counter \in Bytes /\ Len(counter) = 2 /\ LittleEndian(counter) = count /\ count \in Nat
      /\ ReadsAll("listpack", entries, list) /\ Len(list) = count /\ entries \in Bytes
  BY DEF IsBody, ReadsAll
<1> DEFINE rd3 == entries \o rest
           rd2 == counter \o rd3
<1>2. rd3 \in Bytes BY <1>1 DEF Bytes
<1>3. rd2 \in Bytes
  <2> HIDE DEF rd3
  <2> QED BY <1>1, <1>2 DEF Bytes
<1>4. ReadBytes(total \o rd2, 4) = Got(total, rd2)
  <2> HIDE DEF rd2
  <2>1. Begins(total \o rd2, total, 4, rd2) BY <1>1, <1>3 DEF Begins
  <2> QED BY <2>1, BytesRead
<1>5. ReadUint(rd2, 2) = Got(count, rd3)
  <2> HIDE DEF rd3
  <2>1. Begins(counter \o rd3, counter, 2, rd3) BY <1>1, <1>2 DEF Begins
  <2>2. 2 \in Nat OBVIOUS
  <2> QED BY Zenon, <1>1, <2>1, <2>2, UintRead
<1>6. ReadTimes(count, readListpackEntry, rd3) = Got(list, rest)
  <2>1. PICK f : UpTo(f, "listpack", count, rd3) /\ ReadTimes(count, readListpackEntry, rd3) = f[count]
    BY <1>1, ReadTimesListpack DEF Times
  <2>2. f[count] = Got(list, rest) BY Zenon, <1>1, <2>1, CountsItself DEF ReadsAll
  <2> QED BY <2>1, <2>2
<1> HIDE DEF rd2, rd3
<1> DEFINE r1 == ReadBytes(total \o rd2, 4)
           r2 == ReadUint(rd2, 2)
<1>7. r1.ok /\ r1.val = total /\ r1.rest = rd2 BY <1>4 DEF Got
<1>8. r2.ok /\ r2.val = count /\ r2.rest = rd3 BY <1>5 DEF Got
<1>9. ListpackBody(total \o rd2) = Bind(r1, BodyAfter) BY Zenon DEF ListpackBody, BodyAfter, BodyThen
<1>10. Bind(r1, BodyAfter) = BodyAfter(total, rd2)
  <2> HIDE DEF r1
  <2> QED BY Zenon, <1>7 DEF Bind
<1>11. BodyAfter(total, rd2) = Bind(r2, BodyThen) BY DEF BodyAfter
<1>12. Bind(r2, BodyThen) = BodyThen(count, rd3)
  <2> HIDE DEF r2
  <2> QED BY Zenon, <1>8 DEF Bind
<1>13. BodyThen(count, rd3) = Ending(list, rest) BY Zenon, <1>6 DEF BodyThen, Ending
<1> QED BY Zenon, <1>9, <1>10, <1>11, <1>12, <1>13 DEF rd2, rd3

LEMMA BytesConcat == \A s, t \in Bytes : s \o t \in Bytes /\ Len(s \o t) = Len(s) + Len(t) BY DEF Bytes

Associates(s, t, u) == (s \o t) \o u = s \o (t \o u)

LEMMA BytesAssociate == \A s, t, u \in Bytes : (s \o t) \o u = s \o (t \o u)
  BY ConcatAssociative DEF Bytes

LEMMA BytesAssociates == \A s, t, u \in Bytes : Associates(s, t, u)
  BY Zenon, BytesAssociate DEF Associates

\* What Inside makes of the result of the decoder it calls.
Outside(result, rest) == Bind(result, LAMBDA val, left : Got(val, rest))

LEMMA OutsideGot == \A val, left, rest : Outside(Got(val, left), rest) = Got(val, rest)
<1> TAKE val, left, rest
<1> DEFINE g == Got(val, left)
<1>1. g.ok /\ g.val = val BY DEF Got
<1> HIDE DEF g
<1>2. Outside(g, rest) = Got(val, rest) BY <1>1 DEF Outside, Bind
<1> QED BY <1>2 DEF g

LEMMA OutsidePanic == \A rest : Outside(Panicked, rest) = Panicked
  BY DEF Outside, Bind, Panicked

LEMMA ListpackInside ==
  \A body \in Strings, steps \in Nat, rest \in Bytes :
    ReadListpack(Blob(body, steps) \o rest) = Outside(ListpackBody(body), rest)
<1> TAKE body \in Strings, steps \in Nat, rest \in Bytes
<1> DEFINE rd == Blob(body, steps) \o rest
           r == ReadString(rd)
<1>1. r = Got(body, rest) BY InsideReads DEF Strings
<1>2. ReadListpack(rd) = Bind(r, LAMBDA bytes, left : Outside(ListpackBody(bytes), left))
  BY Zenon DEF ReadListpack, Inside, Outside
<1> HIDE DEF r, rd
<1>3. r.ok /\ r.val = body /\ r.rest = rest BY <1>1 DEF Got
<1>4. Bind(r, LAMBDA bytes, left : Outside(ListpackBody(bytes), left)) = Outside(ListpackBody(body), rest)
  BY Zenon, <1>3 DEF Bind
<1> QED BY <1>2, <1>4 DEF rd

\* The string that ListpackWith puts its list into.
PackOf(count, list, steps) ==
  LET entries == EntriesOf(list, steps)
  IN IntBytes(Len(entries) + 7, 4) \o count \o entries \o <<255>>

\* It has seven bytes besides the entries, whose length it can tell.
Packable(list, steps) == list \in Seq(Strings) /\ Len(EntriesOf(list, steps)) + 7 \in Word

LEMMA PackParts ==
  \A list, steps, count :
    steps \in Nat /\ Packable(list, steps) /\ count \in Bytes /\ Len(count) = 2
    => \E total \in Bytes :
         /\ Len(total) = 4
         /\ PackOf(count, list, steps) = total \o (count \o (EntriesOf(list, steps) \o <<255>>))
         /\ PackOf(count, list, steps) \in Strings
<1> SUFFICES ASSUME NEW list, NEW steps \in Nat, NEW count \in Bytes,
                    Packable(list, steps), Len(count) = 2
             PROVE  \E total \in Bytes :
                      /\ Len(total) = 4
                      /\ PackOf(count, list, steps) = total \o (count \o (EntriesOf(list, steps) \o <<255>>))
                      /\ PackOf(count, list, steps) \in Strings
  OBVIOUS
<1>1. list \in Seq(Strings) BY DEF Packable
<1>2. PICK entries \in Bytes : entries = EntriesOf(list, steps)
  BY <1>1, EntriesLoad DEF ReadsAll
<1>3. PICK n \in Nat : n = Len(entries) + 7 /\ n \in Word BY <1>2 DEF Bytes, Packable
<1>4. PICK w \in Nat : w = 4 OBVIOUS
<1>5. PICK total \in Bytes : total = IntBytes(n, w) /\ Len(total) = w
  <2>1. n \in Int OBVIOUS
  <2> QED BY Zenon, <2>1, IntBytesType
<1>6. PICK end \in Bytes : end = <<255>> /\ Len(end) = 1
  <2>1. 255 \in Byte BY DEF Byte
  <2>2. <<255>> \in Bytes /\ Len(<<255>>) = 1 BY <2>1 DEF Bytes
  <2> QED BY <2>2
<1> DEFINE pack == total \o count \o entries \o end
<1>7. pack = total \o (count \o (entries \o end))
  <2>1. total \o count \in Bytes /\ entries \o end \in Bytes BY BytesConcat
  <2>2. pack = (total \o count) \o (entries \o end)
    <3>1. \A front \in Bytes : (front \o entries) \o end = front \o (entries \o end)
      BY ZenonT(40), BytesAssociate
    <3> QED BY Zenon, <2>1, <3>1
  <2>3. (total \o count) \o (entries \o end) = total \o (count \o (entries \o end))
    BY Zenon, <2>1, BytesAssociate
  <2> QED BY Zenon, <2>2, <2>3
<1>8. pack \in Bytes /\ Len(pack) = n
  <2>1. pack \in Bytes /\ Len(pack) = Len(total) + Len(count) + Len(entries) + Len(end)
    <3>1. total \o count \in Bytes /\ Len(total \o count) = Len(total) + Len(count)
      BY Zenon, BytesConcat
    <3>2. /\ (total \o count) \o entries \in Bytes
          /\ Len((total \o count) \o entries) = Len(total \o count) + Len(entries)
      BY Zenon, <3>1, BytesConcat
    <3>3. pack \in Bytes /\ Len(pack) = Len((total \o count) \o entries) + Len(end)
      BY Zenon, <3>2, BytesConcat
    <3> HIDE DEF pack
    <3> QED BY Zenon, <3>1, <3>2, <3>3
  <2>2. Len(entries) \in Nat BY DEF Bytes
  <2> HIDE DEF pack
  <2> QED BY <1>3, <1>4, <1>5, <1>6, <2>1, <2>2
<1> HIDE DEF pack
<1>9. PackOf(count, list, steps) = pack BY <1>2, <1>3, <1>4, <1>5, <1>6 DEF PackOf, pack
<1> QED BY <1>2, <1>3, <1>4, <1>5, <1>6, <1>7, <1>8, <1>9 DEF Strings

LEMMA ListpackWithReads ==
  \A list, steps, count, rest :
    steps \in Nat /\ Packable(list, steps) /\ count \in Bytes /\ Len(count) = 2 /\ rest \in Bytes
    => ReadListpack(ListpackWith(count, list, steps) \o rest)
         = Outside(ListpackBody(PackOf(count, list, steps)), rest)
<1> SUFFICES ASSUME NEW list, NEW steps \in Nat, NEW count \in Bytes, NEW rest \in Bytes,
                    Packable(list, steps), Len(count) = 2
             PROVE  ReadListpack(ListpackWith(count, list, steps) \o rest)
                      = Outside(ListpackBody(PackOf(count, list, steps)), rest)
  OBVIOUS
<1>1. ListpackWith(count, list, steps) = Blob(PackOf(count, list, steps), steps)
  BY Zenon DEF ListpackWith, PackOf, EntriesOf
<1>2. PackOf(count, list, steps) \in Strings BY PackParts
<1> QED BY <1>1, <1>2, ListpackInside

\* ReadListpack: a listpack is read as its elements, and not a byte more of the
\* file, while the count in its header can tell how many they are; one with more
\* elements than that panics, whatever they are and however they are encoded.
THEOREM ListpacksLoad ==
  \A list, steps, rest :
    steps \in Nat /\ Packable(list, steps) /\ rest \in Bytes
    => ReadListpack(ListpackBytes(list, steps) \o rest)
         = IF Len(list) <= Unknown THEN Got(list, rest) ELSE Panicked
<1> SUFFICES ASSUME NEW list, NEW steps \in Nat, NEW rest \in Bytes, Packable(list, steps)
             PROVE  ReadListpack(ListpackBytes(list, steps) \o rest)
                      = IF Len(list) <= Unknown THEN Got(list, rest) ELSE Panicked
  OBVIOUS
<1>1. list \in Seq(Strings) /\ Len(list) \in Nat BY DEF Packable
<1> DEFINE n == Len(list)
           counter == CountBytes(n)
           entries == EntriesOf(list, steps)
           pack == PackOf(counter, list, steps)
<1>2. /\ counter \in Bytes /\ Len(counter) = 2 /\ LittleEndian(counter) = Count(n)
      /\ Count(n) \in Nat /\ Count(n) = IF n <= Unknown THEN n ELSE Unknown
  BY <1>1, CountRead
<1> HIDE DEF counter
<1>3. ReadListpack(ListpackBytes(list, steps) \o rest) = Outside(ListpackBody(pack), rest)
  <2>1. ListpackBytes(list, steps) = ListpackWith(counter, list, steps) BY DEF ListpackBytes, counter
  <2> QED BY <1>2, <2>1, ListpackWithReads
<1>4. PICK total \in Bytes : Len(total) = 4 /\ pack = total \o (counter \o (entries \o <<255>>))
  <2>1. \E total \in Bytes :
         /\ Len(total) = 4
         /\ PackOf(counter, list, steps) = total \o (counter \o (EntriesOf(list, steps) \o <<255>>))
         /\ PackOf(counter, list, steps) \in Strings
    BY Zenon, <1>2, PackParts
  <2> QED BY Zenon, <2>1
<1>5. ReadsAll("listpack", entries, list) /\ entries \in Bytes
  BY <1>1, EntriesLoad DEF ReadsAll
<1>6. <<255>> \in Bytes /\ <<>> \in Bytes /\ 255 \in Byte /\ <<255>> = <<255>> \o <<>>
  <2>1. 255 \in Byte BY DEF Byte
  <2> QED BY <2>1 DEF Bytes
<1> HIDE DEF entries, pack
<1>7. CASE n <= Unknown
  <2>1. IsBody(total, counter, entries, n, list) BY <1>1, <1>2, <1>4, <1>5, <1>7 DEF IsBody
  <2>2. ListpackBody(pack) = Ending(list, <<255>>) BY <1>4, <1>6, <2>1, BodyReads
  <2>3. Ending(list, <<255>>) = Got(list, <<>>)
    <3>1. Ending(list, <<255>> \o <<>>) = IF 255 = 255 THEN Got(list, <<>>) ELSE Panicked
      BY <1>6, EndingReads
    <3> QED BY <1>6, <3>1
  <2>4. ReadListpack(ListpackBytes(list, steps) \o rest) = Got(list, rest)
    BY <1>3, <2>2, <2>3, OutsideGot
  <2> QED BY <1>7, <2>4
<1>8. CASE n > Unknown
  <2> DEFINE m == Unknown
             begin == SubSeq(list, 1, m)
  <2>1. m \in Nat BY UnknownAssumption
  <2>2. PICK head, more : /\ ReadsAll("listpack", head, begin)
                          /\ more \in Bytes /\ more # <<>> /\ Head(more) # 255
                          /\ entries = head \o more
    BY <1>1, <1>8, <2>1, EntriesBeyond DEF Beyond, entries
  <2>3. Len(begin) = m BY <1>1, <1>8, <2>1
  <2>4. Count(n) = m BY <1>1, <1>2, <1>8, <2>1
  <2> HIDE DEF begin
  <2>5. IsBody(total, counter, head, m, begin) BY <1>2, <1>4, <2>1, <2>2, <2>3, <2>4 DEF IsBody
  <2>6. head \in Bytes BY SMTT(30), <2>2 DEF ReadsAll
  <2>7. PICK b \in Byte, left \in Bytes : more = <<b>> \o left /\ b # 255
    <3>1. Head(more) \in Byte /\ Tail(more) \in Bytes /\ more = <<Head(more)>> \o Tail(more)
      BY <2>2 DEF Bytes
    <3> QED BY ZenonT(40), <2>2, <3>1
  <2>8. (head \o more) \o <<255>> = head \o (<<b>> \o (left \o <<255>>))
    <3> DEFINE one == <<b>>
               end == <<255>>
    <3>1. one \in Bytes /\ end \in Bytes /\ head \in Bytes /\ left \in Bytes
      BY <1>6, <2>6, <2>7 DEF Bytes
    <3>2. more = one \o left BY <2>7
    <3> HIDE DEF one, end
    <3>3. more \in Bytes BY <2>2
    <3>4. Associates(head, more, end) /\ Associates(one, left, end)
      BY <3>1, <3>3, BytesAssociates
    <3>5. (head \o more) \o end = head \o (more \o end) BY <3>4 DEF Associates
    <3>6. (head \o more) \o end = head \o (one \o (left \o end))
      BY Zenon, <3>2, <3>4, <3>5 DEF Associates
    <3> QED BY Zenon, <3>6 DEF one, end
  <2>9. left \o <<255>> \in Bytes /\ <<b>> \o (left \o <<255>>) \in Bytes
    <3>1. <<b>> \in Seq(Byte) OBVIOUS
    <3> QED BY <1>6, <3>1 DEF Bytes
  <2>10. ListpackBody(pack) = Ending(begin, <<b>> \o (left \o <<255>>))
    <3>1. pack = total \o (counter \o (head \o (<<b>> \o (left \o <<255>>)))) BY Zenon, <1>4, <2>2, <2>8
    <3>2. PICK ending \in Bytes : ending = <<b>> \o (left \o <<255>>) BY Zenon, <2>9
    <3>3. ListpackBody(total \o (counter \o (head \o ending))) = Ending(begin, ending)
      <4>1. IsBody(total, counter, head, m, begin)
            => ListpackBody(total \o (counter \o (head \o ending))) = Ending(begin, ending)
        BY BodyReads
      <4> QED BY Zenon, <2>5, <4>1
    <3> QED BY Zenon, <3>1, <3>2, <3>3
  <2>11. Ending(begin, <<b>> \o (left \o <<255>>)) = Panicked BY <2>7, <2>9, EndingReads
  <2>12. ReadListpack(ListpackBytes(list, steps) \o rest) = Panicked
    BY <1>3, <2>10, <2>11, OutsidePanic
  <2>13. ~(n <= Unknown) BY <1>1, <1>8, <2>1
  <2> QED BY <2>12, <2>13
<1> QED BY <1>1, <1>7, <1>8, UnknownAssumption

---------------------------------------------------------------------------
(* Ziplist entries *)

\* What ZipContent makes of its first byte and the reader after it.
ZipAfter(e, rest) ==
  CASE e < 64           -> ReadBytes(rest, e)
    [] e \in 64 .. 127  -> Bind(ReadByte(rest), LAMBDA low, left :
                             ReadBytes(left, (e - 64) * 256 + low))
    [] e \in 128 .. 191 -> Bind(ReadBytes(rest, 4), LAMBDA len, left :
                             ReadBytes(left, BigEndian(len)))
    [] e = 254          -> Convert(ReadInt(rest, 1), FormatInt)
    [] e = 192          -> Convert(ReadInt(rest, 2), FormatInt)
    [] e = 240          -> Convert(ReadInt(rest, 3), FormatInt)
    [] e = 208          -> Convert(ReadInt(rest, 4), FormatInt)
    [] e = 224          -> Convert(ReadInt(rest, 8), FormatInt)
    [] e \in 241 .. 253 -> Got(FormatInt(e - 241), rest)
    [] OTHER            -> Panicked

LEMMA ZipBegins ==
  \A rd, e, rest : ReadByte(rd) = Got(e, rest) => ZipContent(rd) = ZipAfter(e, rest)
<1> SUFFICES ASSUME NEW rd, NEW e, NEW rest, ReadByte(rd) = Got(e, rest)
             PROVE  ZipContent(rd) = ZipAfter(e, rest)
  OBVIOUS
<1> DEFINE r == ReadByte(rd)
<1>1. r.ok /\ r.val = e /\ r.rest = rest BY DEF Got
<1>2. ZipContent(rd) = Bind(r, ZipAfter) BY Zenon DEF ZipContent, ZipAfter
<1> HIDE DEF r
<1> QED BY <1>1, <1>2 DEF Bind

\* content is the entry s, whatever follows, and not much longer.
IsZipped(content, s) ==
  /\ content \in Bytes /\ Len(content) <= 9 + Len(s)
  /\ \A rest \in Bytes : ZipContent(content \o rest) = Got(s, rest)

\* It begins with e.
Zipped(e, more, s) ==
  /\ e \in Byte /\ more \in Bytes /\ Len(more) <= 8 + Len(s) /\ Len(s) \in Nat
  /\ \A rest \in Bytes : ZipAfter(e, more \o rest) = Got(s, rest)

LEMMA ZippedFrom == \A e, more, s : Zipped(e, more, s) => IsZipped(<<e>> \o more, s)
<1> SUFFICES ASSUME NEW e, NEW more, NEW s, Zipped(e, more, s) PROVE IsZipped(<<e>> \o more, s)
  OBVIOUS
<1>1. e \in Byte /\ more \in Bytes /\ Len(more) <= 8 + Len(s) /\ Len(s) \in Nat BY DEF Zipped
<1>2. <<e>> \in Bytes /\ Len(<<e>>) = 1 BY <1>1 DEF Bytes
<1> DEFINE content == <<e>> \o more
<1>3. content \in Bytes /\ Len(content) = 1 + Len(more) /\ Len(more) \in Nat
  BY <1>1, <1>2 DEF Bytes
<1>4. ASSUME NEW rest \in Bytes PROVE ZipContent(content \o rest) = Got(s, rest)
  <2>1. content \o rest = <<e>> \o (more \o rest) BY <1>1, <1>2, BytesAssociate
  <2>2. more \o rest \in Bytes BY <1>1, BytesConcat
  <2>3. ReadByte(<<e>> \o (more \o rest)) = Got(e, more \o rest) BY <1>1, <2>2, ByteRead
  <2>4. ZipContent(<<e>> \o (more \o rest)) = ZipAfter(e, more \o rest) BY <2>3, ZipBegins
  <2>5. ZipAfter(e, more \o rest) = Got(s, rest) BY DEF Zipped
  <2> HIDE DEF content
  <2> QED BY Zenon, <2>1, <2>4, <2>5
<1> HIDE DEF content
<1>5. Len(content) <= 9 + Len(s) BY <1>1, <1>3
<1>6. IsZipped(content, s) BY <1>3, <1>4, <1>5 DEF IsZipped
<1> QED BY <1>6 DEF content

LEMMA ZipOfTwelve == \A s \in Bytes, v \in 0 .. 12 : FormatInt(v) = s => IsZipped(<<241 + v>>, s)
<1> TAKE s \in Bytes, v \in 0 .. 12
<1> HAVE FormatInt(v) = s
<1>1. PICK e \in 241 .. 253 : e = 241 + v /\ v = e - 241 OBVIOUS
<1>2. e \in Byte /\ <<>> \in Bytes /\ Len(<<>>) <= 8 + Len(s) /\ Len(s) \in Nat BY DEF Byte, Bytes
<1>3. ASSUME NEW rest \in Bytes PROVE ZipAfter(e, <<>> \o rest) = Got(s, rest)
  <2>1. <<>> \o rest = rest BY DEF Bytes
  <2>2. /\ ~(e < 64) /\ e \notin 64 .. 127 /\ e \notin 128 .. 191
        /\ e # 254 /\ e # 192 /\ e # 240 /\ e # 208 /\ e # 224
    OBVIOUS
  <2>3. ZipAfter(e, rest) = Got(FormatInt(e - 241), rest) BY SMT, <2>2 DEF ZipAfter
  <2> QED BY Zenon, <1>1, <2>1, <2>3
<1>4. Zipped(e, <<>>, s) BY <1>2, <1>3 DEF Zipped
<1>5. <<e>> \o <<>> = <<e>> BY <1>1
<1>6. IsZipped(<<e>> \o <<>>, s) BY <1>4, ZippedFrom
<1> QED BY <1>1, <1>5, <1>6

\* The encodings of integers.
ZipInt(e, w, bits) ==
  \/ e = 254 /\ w = 1 /\ bits = 8
  \/ e = 192 /\ w = 2 /\ bits = 16
  \/ e = 240 /\ w = 3 /\ bits = 24
  \/ e = 208 /\ w = 4 /\ bits = 32
  \/ e = 224 /\ w = 8 /\ bits = 32

LEMMA ZipOfInt ==
  \A s \in Bytes : \A e, w, bits : ZipInt(e, w, bits) /\ IsInt(s, bits)
    => IsZipped(<<e>> \o IntBytes(ParseInt(s), w), s)
<1> SUFFICES ASSUME NEW s \in Bytes, NEW e, NEW w, NEW bits, ZipInt(e, w, bits), IsInt(s, bits)
             PROVE  IsZipped(<<e>> \o IntBytes(ParseInt(s), w), s)
  OBVIOUS
<1>1. /\ bits \in {8, 13, 16, 24, 32} /\ w \in Nat /\ w <= 8 /\ e \in Byte
      /\ ~(e < 64) /\ e \notin 64 .. 127 /\ e \notin 128 .. 191
  BY DEF ZipInt, Byte
<1>2. PICK v, g : v = ParseInt(s) /\ g = Greatest(bits) OBVIOUS
<1>3. IsIntOf(s, v, g) BY <1>1, <1>2, IntIsNumber
<1>4. HoldsSigned(w, g) BY <1>2, WidthsHoldSigned DEF ZipInt
<1>5. PICK int \in Bytes : int = IntBytes(v, w) /\ Len(int) = w
  BY <1>1, <1>3, IntBytesType DEF IsIntOf
<1>6. ASSUME NEW rest \in Bytes PROVE ZipAfter(e, int \o rest) = Got(s, rest)
  <2>1. PICK left : left = int \o rest OBVIOUS
  <2>2. Convert(ReadInt(left, w), FormatInt) = Got(s, rest) 
    <3>1. w \in Nat BY <1>1
    <3>2. Convert(ReadInt(IntBytes(v, w) \o rest, w), FormatInt) = Got(s, rest)
      BY <1>3, <1>4, <3>1, IntRead
    <3>3. IntBytes(v, w) \o rest = left BY <1>5, <2>1
    <3> QED BY <3>2, <3>3
  <2>3. ZipAfter(e, left) = Convert(ReadInt(left, w), FormatInt)
    <3> USE <1>1
    <3>1. CASE e = 254 /\ w = 1 BY SMT, <3>1 DEF ZipAfter
    <3>2. CASE e = 192 /\ w = 2
      <4>1. e # 254 BY <3>2
      <4> QED BY SMT, <3>2, <4>1 DEF ZipAfter
    <3>3. CASE e = 240 /\ w = 3
      <4>1. e # 254 /\ e # 192 BY <3>3
      <4> QED BY SMT, <3>3, <4>1 DEF ZipAfter
    <3>4. CASE e = 208 /\ w = 4
      <4>1. e # 254 /\ e # 192 /\ e # 240 BY <3>4
      <4> QED BY SMT, <3>4, <4>1 DEF ZipAfter
    <3>5. CASE e = 224 /\ w = 8
      <4>1. e # 254 /\ e # 192 /\ e # 240 /\ e # 208 BY <3>5
      <4> QED BY SMT, <3>5, <4>1 DEF ZipAfter
    <3> QED BY <3>1, <3>2, <3>3, <3>4, <3>5 DEF ZipInt
  <2> QED BY <2>1, <2>2, <2>3
<1>7. Len(int) <= 8 + Len(s) /\ Len(s) \in Nat
  <2>1. Len(s) \in Nat BY DEF Bytes
  <2> QED BY <1>1, <1>5, <2>1
<1>8. Zipped(e, int, s) BY <1>1, <1>6, <1>7 DEF Zipped
<1>9. IsZipped(<<e>> \o int, s) BY <1>8, ZippedFrom
<1> QED BY <1>2, <1>5, <1>9

LEMMA ZipOfShortText == \A s \in Bytes : Len(s) < 64 => IsZipped(<<Len(s)>> \o s, s)
<1> TAKE s \in Bytes
<1> HAVE Len(s) < 64
<1>1. PICK n \in Nat : n = Len(s) BY DEF Bytes
<1>0. n < 64 BY <1>1
<1>2. n < 64 /\ n \in Byte /\ n \notin 64 .. 127 /\ n \notin 128 .. 191
  <2> HIDE <1>1
  <2> QED BY <1>0 DEF Byte
<1>3. ASSUME NEW rest \in Bytes PROVE ZipAfter(n, s \o rest) = Got(s, rest)
  <2>1. ReadBytes(s \o rest, n) = Got(s, rest) BY <1>1, BytesRead DEF Begins
  <2>2. /\ n # 254 /\ n # 192 /\ n # 240 /\ n # 208 /\ n # 224 /\ n \notin 241 .. 253 BY <1>2
  <2>3. ZipAfter(n, s \o rest) = ReadBytes(s \o rest, n) BY Zenon, <1>2, <2>2 DEF ZipAfter
  <2> QED BY <2>1, <2>3
<1>4. n <= 8 + n BY <1>1
<1>5. Zipped(n, s, s) BY <1>1, <1>2, <1>3, <1>4 DEF Zipped
<1>6. IsZipped(<<n>> \o s, s) BY <1>5, ZippedFrom
<1> QED BY <1>1, <1>6

LEMMA ZipOfText ==
  \A s \in Bytes : \A e, low : InFourteen(Len(s), e, low) => IsZipped(<<e, low>> \o s, s)
<1> SUFFICES ASSUME NEW s \in Bytes, NEW e, NEW low, InFourteen(Len(s), e, low)
             PROVE  IsZipped(<<e, low>> \o s, s)
  OBVIOUS
<1>1. e \in 64 .. 127 /\ low \in Byte BY DEF InFourteen
<1>2. e \in Byte BY <1>1 DEF Byte
<1>3. PICK n \in Nat : n = Len(s) BY DEF Bytes
<1>4. (e - 64) * 256 + low = n BY <1>3 DEF InFourteen
<1> DEFINE more == <<low>> \o s
<1>5. more \in Bytes /\ Len(more) = 1 + n BY <1>1, <1>3 DEF Bytes
<1>6. ASSUME NEW rest \in Bytes PROVE ZipAfter(e, more \o rest) = Got(s, rest)
  <2>1. PICK left \in Bytes : left = s \o rest BY BytesConcat
  <2>2. PICK rd : rd = <<low>> \o left OBVIOUS
  <2>3. more \o rest = rd
    <3>1. <<low>> \in Bytes BY <1>1 DEF Bytes
    <3> QED BY <2>1, <2>2, <3>1, BytesAssociate
  <2>4. ReadByte(rd) = Got(low, left) BY <1>1, <2>2, ByteRead
  <2>5. ReadBytes(left, n) = Got(s, rest) BY <1>3, <2>1, BytesRead DEF Begins
  <2> DEFINE r == ReadByte(rd)
  <2>6. r.ok /\ r.val = low /\ r.rest = left BY <2>4 DEF Got
  <2>7. ~(e < 64) BY <1>1
  <2> HIDE DEF r
  <2>8. ZipAfter(e, rd) = Bind(r, LAMBDA l, t : ReadBytes(t, (e - 64) * 256 + l))
    <3>1. /\ e \notin 128 .. 191 /\ e # 254 /\ e # 192 /\ e # 240 /\ e # 208 /\ e # 224
          /\ e \notin 241 .. 253
      BY <1>1
    <3> QED BY SMT, <1>1, <2>7, <3>1 DEF ZipAfter, Convert, Bind, r
  <2>9. Bind(r, LAMBDA l, t : ReadBytes(t, (e - 64) * 256 + l)) = ReadBytes(left, n)
    BY <1>4, <2>6 DEF Bind
  <2> QED BY Zenon, <2>3, <2>5, <2>8, <2>9
<1> HIDE DEF more
<1>7. Len(more) <= 8 + Len(s) BY <1>3, <1>5
<1>8. Zipped(e, more, s) BY <1>2, <1>3, <1>5, <1>6, <1>7 DEF Zipped
<1>9. IsZipped(<<e>> \o more, s) BY <1>8, ZippedFrom
<1>10. <<e>> \o more = <<e, low>> \o s BY <1>1, <1>2, TwoBytes DEF TwoFirst, more
<1> QED BY Zenon, <1>9, <1>10

LEMMA ZipOfLongText ==
  \A s \in Strings : IsZipped(<<128>> \o Reverse(IntBytes(Len(s), 4)) \o s, s)
<1> TAKE s \in Strings
<1>1. s \in Bytes BY DEF Strings
<1>2. PICK n \in Nat : n = Len(s) /\ n \in Word BY <1>1 DEF Bytes, Strings
<1>3. PICK w \in Nat : w = 4 OBVIOUS
<1>4. PICK int \in Bytes : int = IntBytes(n, w) /\ Len(int) = w BY IntBytesType
<1>5. LittleEndian(int) = n
  <2>1. PICK m4 : m4 = 2 * Greatest(32) + 1 /\ HoldsUnsigned(w, m4) BY <1>3, WidthsHold
  <2>2. n \in 0 .. m4 BY <1>2, <2>1 DEF Word
  <2> QED BY <1>4, <2>1, <2>2 DEF HoldsUnsigned
<1>6. PICK big \in Bytes : big = Reverse(int) /\ Len(big) = w /\ BigEndian(big) = n
  BY <1>4, <1>5, ReversedTwice
<1>7. PICK e \in Byte : e = 128 BY DEF Byte
<1> DEFINE more == big \o s
<1>8. more \in Bytes /\ Len(more) = w + n
  BY <1>1, <1>2, <1>6, BytesConcat
<1>9. ASSUME NEW rest \in Bytes PROVE ZipAfter(e, more \o rest) = Got(s, rest)
  <2>1. PICK left \in Bytes : left = s \o rest BY <1>1, BytesConcat
  <2>2. PICK rd : rd = big \o left OBVIOUS
  <2>3. more \o rest = rd BY SMTT(30), <1>1, <2>1, <2>2, BytesAssociate
  <2>4. ReadBytes(rd, w) = Got(big, left) BY <1>6, <2>2, BytesRead DEF Begins
  <2>5. ReadBytes(left, n) = Got(s, rest) BY <1>1, <1>2, <2>1, BytesRead DEF Begins
  <2> DEFINE r == ReadBytes(rd, w)
  <2>6. r.ok /\ r.val = big /\ r.rest = left BY <2>4 DEF Got
  <2>7. ~(e < 64) /\ e \notin 64 .. 127 /\ e \in 128 .. 191 BY <1>7
  <2> HIDE DEF r
  <2>8. ZipAfter(e, rd) = Bind(r, LAMBDA len, t : ReadBytes(t, BigEndian(len)))
    <3>1. e # 254 /\ e # 192 /\ e # 240 /\ e # 208 /\ e # 224 /\ e \notin 241 .. 253 BY <1>7
    <3> QED BY SMT, <1>3, <2>7, <3>1 DEF ZipAfter, Convert, Bind, r
  <2>9. Bind(r, LAMBDA len, t : ReadBytes(t, BigEndian(len))) = ReadBytes(left, n)
    BY <1>6, <2>6 DEF Bind
  <2> QED BY Zenon, <2>3, <2>5, <2>8, <2>9
<1>10. Len(more) <= 8 + Len(s)
  <2> HIDE DEF more
  <2> QED BY <1>2, <1>3, <1>8
<1> HIDE DEF more
<1>11. Zipped(e, more, s) BY <1>2, <1>8, <1>9, <1>10 DEF Zipped
<1>12. IsZipped(<<e>> \o more, s) BY <1>11, ZippedFrom
<1>13. <<e>> \o more = (<<e>> \o big) \o s
  <2>1. <<e>> \in Bytes BY DEF Bytes
  <2> QED BY <1>1, <2>1, BytesAssociate DEF more
<1> QED BY <1>2, <1>3, <1>4, <1>6, <1>7, <1>12, <1>13

AsZipped(s) == {content \in Bytes : IsZipped(content, s)}

LEMMA ZippedIsAs == \A content, s : IsZipped(content, s) => content \in AsZipped(s)
  BY DEF AsZipped, IsZipped

LEMMA ZipOfMediumText ==
  \A s \in Bytes : Len(s) < 16384 => IsZipped(<<64 + Len(s) \div 256, Len(s) % 256>> \o s, s)
<1> TAKE s \in Bytes
<1> HAVE Len(s) < 16384
<1>1. PICK n \in Nat : n = Len(s) BY DEF Bytes
<1>2. n < 16384 BY <1>1
<1>3. PICK first, low : first = 64 + (n \div 256) /\ low = n % 256 /\ InFourteen(n, first, low)
  <2>1. Fourteen(n) BY <1>2, FourteenHold
  <2> QED BY <2>1 DEF Fourteen
<1>4. IsZipped(<<first, low>> \o s, s) BY <1>1, <1>3, ZipOfText
<1> QED BY <1>1, <1>3, <1>4

LEMMA ZipContentLoads == \A s \in Strings, steps \in Nat : IsZipped(ZipContentBytes(s, steps), s)
<1> TAKE s \in Strings, steps \in Nat
<1>0. s \in Bytes /\ Len(s) \in Nat BY DEF Strings, Bytes
<1> DEFINE n == Len(s)
           v == ParseInt(s)
           o1 == When(IsNumber(s) /\ v \in 0 .. 12, <<241 + v>>)
           o2 == When(IsInt(s, 8), <<254>> \o IntBytes(v, 1))
           o3 == When(IsInt(s, 16), <<192>> \o IntBytes(v, 2))
           o4 == When(IsInt(s, 24), <<240>> \o IntBytes(v, 3))
           o5 == When(IsInt(s, 32), <<208>> \o IntBytes(v, 4))
           o6 == When(IsInt(s, 32), <<224>> \o IntBytes(v, 8))
           o7 == When(n < 64, <<n>> \o s)
           o8 == When(n < 16384, <<64 + n \div 256, n % 256>> \o s)
           o9 == <<(<<128>> \o Reverse(IntBytes(n, 4)) \o s)>>
           S == AsZipped(s)
<1>1. ZipContentBytes(s, steps) = Choice(o1 \o o2 \o o3 \o o4 \o o5 \o o6 \o o7 \o o8 \o o9, steps)
  BY DEF ZipContentBytes
<1>2. Optional(o1, S)
  <2>1. IsNumber(s) /\ v \in 0 .. 12 => <<241 + v>> \in S
    <3> SUFFICES ASSUME IsNumber(s), v \in 0 .. 12 PROVE <<241 + v>> \in S OBVIOUS
    <3>1. FormatInt(v) = s BY <1>0, ParseIntType
    <3>2. IsZipped(<<241 + v>>, s) BY <1>0, <3>1, ZipOfTwelve
    <3> QED BY <3>2, ZippedIsAs
  <2> HIDE DEF S, v
  <2> QED BY <2>1 DEF When, Optional
<1>3. Optional(o2, S) /\ Optional(o3, S) /\ Optional(o4, S) /\ Optional(o5, S) /\ Optional(o6, S)
  <2>1. /\ ZipInt(254, 1, 8) /\ ZipInt(192, 2, 16) /\ ZipInt(240, 3, 24)
        /\ ZipInt(208, 4, 32) /\ ZipInt(224, 8, 32)
    BY DEF ZipInt
  <2>2. /\ IsInt(s, 8) => <<254>> \o IntBytes(v, 1) \in S
        /\ IsInt(s, 16) => <<192>> \o IntBytes(v, 2) \in S
        /\ IsInt(s, 24) => <<240>> \o IntBytes(v, 3) \in S
        /\ IsInt(s, 32) => <<208>> \o IntBytes(v, 4) \in S
        /\ IsInt(s, 32) => <<224>> \o IntBytes(v, 8) \in S
    BY ZenonT(40), <1>0, <2>1, ZipOfInt, ZippedIsAs
  <2> HIDE DEF S, v
  <2> QED BY ZenonT(40), <2>2 DEF When, Optional
<1>4. Optional(o7, S)
  <2>1. n < 64 => <<n>> \o s \in S BY <1>0, ZipOfShortText, ZippedIsAs
  <2> HIDE DEF S, n
  <2> QED BY <2>1 DEF When, Optional
<1>5. Optional(o8, S)
  <2> DEFINE text == <<64 + n \div 256, n % 256>> \o s
  <2>1. n < 16384 => text \in S BY <1>0, ZipOfMediumText, ZippedIsAs
  <2>2. o8 = When(n < 16384, text) OBVIOUS
  <2> HIDE DEF S, n, text, o8
  <2>3. When(n < 16384, text) = IF n < 16384 THEN <<text>> ELSE <<>> BY DEF When
  <2> QED BY <2>1, <2>2, <2>3 DEF Optional
<1>6. <<128>> \o Reverse(IntBytes(n, 4)) \o s \in S BY Zenon, ZipOfLongText, ZippedIsAs
<1> HIDE DEF o1, o2, o3, o4, o5, o6, o7, o8, S
<1>7. o9 \in Seq(S) /\ o9 # <<>>
  <2> DEFINE long == <<128>> \o Reverse(IntBytes(n, 4)) \o s
  <2> HIDE DEF long
  <2>1. long \in S BY <1>6 DEF long
  <2>2. <<long>> \in Seq(S) /\ <<long>> # <<>> BY <2>1
  <2> QED BY <2>2 DEF long
<1> HIDE DEF o9
<1>8. /\ o1 \in Seq(S) /\ o2 \in Seq(S) /\ o3 \in Seq(S) /\ o4 \in Seq(S)
      /\ o5 \in Seq(S) /\ o6 \in Seq(S) /\ o7 \in Seq(S) /\ o8 \in Seq(S)
  BY Zenon, <1>2, <1>3, <1>4, <1>5, OptionalType
<1>9. o1 \o o2 \o o3 \o o4 \o o5 \o o6 \o o7 \o o8 \in Seq(S) BY <1>8
<1>10. /\ o1 \o o2 \o o3 \o o4 \o o5 \o o6 \o o7 \o o8 \o o9 \in Seq(S)
       /\ o1 \o o2 \o o3 \o o4 \o o5 \o o6 \o o7 \o o8 \o o9 # <<>>
  <2> DEFINE others == o1 \o o2 \o o3 \o o4 \o o5 \o o6 \o o7 \o o8
  <2> HIDE DEF others
  <2>1. others \in Seq(S) BY <1>9 DEF others
  <2>2. others \o o9 \in Seq(S) /\ others \o o9 # <<>> BY <1>7, <2>1
  <2> QED BY <2>2 DEF others
<1>11. Choice(o1 \o o2 \o o3 \o o4 \o o5 \o o6 \o o7 \o o8 \o o9, steps) \in S
  BY Zenon, <1>10, ChoiceType
<1>12. ZipContentBytes(s, steps) \in S BY <1>1, <1>11
<1> QED BY <1>12 DEF S, AsZipped

---------------------------------------------------------------------------
(* An entry, after the length of the one before it *)

\* first begins the entry s, whose other bytes are body.
IsZipEntry(piece, s) ==
  \E first \in Byte, body \in Bytes :
    /\ piece = <<first>> \o body
    /\ first # 255
    /\ \A rest \in Bytes : readZipListEntry(body \o rest, first) = Got(s, rest)

ZipEntryBytes(last, s, steps) ==
  (IF last < 254 THEN <<last>> ELSE <<254>> \o IntBytes(last, 4)) \o ZipContentBytes(s, steps)

LEMMA ZipEntryShort ==
  \A last \in Nat, s \in Strings, steps \in Nat :
    last < 254 => /\ IsZipEntry(ZipEntryBytes(last, s, steps), s)
                  /\ ZipEntryBytes(last, s, steps) \in Bytes
                  /\ Len(ZipEntryBytes(last, s, steps)) <= 14 + Len(s)
<1> TAKE last \in Nat, s \in Strings, steps \in Nat
<1> HAVE last < 254
<1>1. PICK body \in Bytes : body = ZipContentBytes(s, steps) /\ IsZipped(body, s)
  BY ZipContentLoads DEF IsZipped
<1>2. ZipEntryBytes(last, s, steps) = <<last>> \o body BY <1>1 DEF ZipEntryBytes
<1>3. last \in Byte /\ last # 254 /\ last # 255 BY DEF Byte
<1>4. ASSUME NEW rest \in Bytes PROVE readZipListEntry(body \o rest, last) = Got(s, rest)
  <2>1. ZipContent(body \o rest) = Got(s, rest) BY <1>1 DEF IsZipped
  <2> QED BY Zenon, <1>3, <2>1 DEF readZipListEntry
<1>5. IsZipEntry(<<last>> \o body, s) BY <1>3, <1>4 DEF IsZipEntry
<1>6. <<last>> \in Bytes /\ Len(<<last>>) = 1 BY <1>3 DEF Bytes
<1>7. <<last>> \o body \in Bytes /\ Len(<<last>> \o body) = 1 + Len(body) BY Zenon, <1>6, BytesConcat
<1>8. 1 + Len(body) <= 14 + Len(s)
  <2>1. Len(body) <= 9 + Len(s) BY <1>1 DEF IsZipped
  <2>2. Len(body) \in Nat /\ Len(s) \in Nat BY DEF Bytes, Strings
  <2> QED BY <2>1, <2>2
<1> QED BY <1>2, <1>5, <1>7, <1>8

LEMMA ZipEntryLong ==
  \A last \in Nat, s \in Strings, steps \in Nat :
    last >= 254 => /\ IsZipEntry(ZipEntryBytes(last, s, steps), s)
                   /\ ZipEntryBytes(last, s, steps) \in Bytes
                   /\ Len(ZipEntryBytes(last, s, steps)) <= 14 + Len(s)
<1> TAKE last \in Nat, s \in Strings, steps \in Nat
<1> HAVE last >= 254
<1>1. PICK content \in Bytes : content = ZipContentBytes(s, steps) /\ IsZipped(content, s)
  BY ZipContentLoads DEF IsZipped
<1>2. PICK w \in Nat : w = 4 OBVIOUS
<1>3. PICK prevlen \in Bytes : prevlen = IntBytes(last, w) /\ Len(prevlen) = w
  <2>1. last \in Int OBVIOUS
  <2> QED BY Zenon, <2>1, IntBytesType
<1>4. PICK first \in Byte : first = 254 BY DEF Byte
<1>5. <<first>> \in Bytes /\ Len(<<first>>) = 1 BY DEF Bytes
<1>6. ZipEntryBytes(last, s, steps) = (<<first>> \o prevlen) \o content
  <2>1. ~(last < 254) OBVIOUS
  <2> QED BY <1>1, <1>2, <1>3, <1>4, <2>1 DEF ZipEntryBytes
<1> DEFINE body == prevlen \o content
<1>7. body \in Bytes /\ Len(body) = w + Len(content) BY <1>3, BytesConcat
<1>8. (<<first>> \o prevlen) \o content = <<first>> \o body BY <1>5, BytesAssociate
<1>9. ASSUME NEW rest \in Bytes PROVE readZipListEntry(body \o rest, first) = Got(s, rest)
  <2>1. PICK left \in Bytes : left = content \o rest BY BytesConcat
  <2>2. body \o rest = prevlen \o left BY SMTT(30), <2>1, BytesAssociate
  <2>3. ReadBytes(prevlen \o left, w) = Got(prevlen, left)
    <3>1. Begins(prevlen \o left, prevlen, w, left) BY <1>3 DEF Begins
    <3> QED BY <3>1, BytesRead
  <2>4. ZipContent(left) = Got(s, rest) BY <1>1, <2>1 DEF IsZipped
  <2> DEFINE r == ReadBytes(prevlen \o left, w)
  <2>5. r.ok /\ r.rest = left BY <2>3 DEF Got
  <2>6. readZipListEntry(prevlen \o left, first) = Bind(r, LAMBDA prev, t : ZipContent(t))
    BY <1>2, <1>4 DEF readZipListEntry
  <2> HIDE DEF r
  <2>7. Bind(r, LAMBDA prev, t : ZipContent(t)) = ZipContent(left) BY Zenon, <2>5 DEF Bind
  <2> QED BY Zenon, <2>2, <2>4, <2>6, <2>7
<1> HIDE DEF body
<1>10. first # 255 BY <1>4
<1>11. IsZipEntry(<<first>> \o body, s) BY Zenon, <1>7, <1>9, <1>10 DEF IsZipEntry
<1>12. <<first>> \o body \in Bytes /\ Len(<<first>> \o body) = 1 + Len(body)
  BY Zenon, <1>5, <1>7, BytesConcat
<1>13. 1 + Len(body) <= 14 + Len(s)
  <2>1. Len(content) <= 9 + Len(s) BY <1>1 DEF IsZipped
  <2>2. Len(content) \in Nat /\ Len(s) \in Nat BY DEF Bytes, Strings
  <2> QED BY <1>2, <1>7, <2>1, <2>2
<1> QED BY Zenon, <1>6, <1>8, <1>11, <1>12, <1>13

\* readZipListEntry: a string is read back from every encoding an entry of a
\* ziplist may have, however long the entry before it is.
THEOREM ZipListEntriesLoad ==
  \A last \in Nat, s \in Strings, steps \in Nat :
    /\ IsZipEntry(ZipEntryBytes(last, s, steps), s)
    /\ ZipEntryBytes(last, s, steps) \in Bytes
    /\ Len(ZipEntryBytes(last, s, steps)) <= 14 + Len(s)
<1> TAKE last \in Nat, s \in Strings, steps \in Nat
<1>1. last < 254 \/ last >= 254 OBVIOUS
<1> QED BY Zenon, <1>1, ZipEntryShort, ZipEntryLong

LEMMA ZipEntryReads == \A piece, s : IsZipEntry(piece, s) => ReadsAs("ziplist", piece, s)
<1> SUFFICES ASSUME NEW piece, NEW s, IsZipEntry(piece, s) PROVE ReadsAs("ziplist", piece, s)
  OBVIOUS
<1>1. PICK first \in Byte, body \in Bytes :
        /\ piece = <<first>> \o body
        /\ \A rest \in Bytes : readZipListEntry(body \o rest, first) = Got(s, rest)
  BY DEF IsZipEntry
<1>2. <<first>> \in Bytes BY DEF Bytes
<1>3. ASSUME NEW rest \in Bytes PROVE ZipEntry(piece \o rest) = Got(s, rest)
  <2>1. PICK left \in Bytes : left = body \o rest BY BytesConcat
  <2>2. piece \o rest = <<first>> \o left BY <1>1, <1>2, <2>1, BytesAssociate
  <2> DEFINE r == ReadByte(<<first>> \o left)
  <2>3. r = Got(first, left) BY ByteRead
  <2>4. ZipEntry(<<first>> \o left) = Bind(r, LAMBDA b, t : readZipListEntry(t, b))
    BY DEF ZipEntry
  <2> HIDE DEF r
  <2>5. r.ok /\ r.val = first /\ r.rest = left BY <2>3 DEF Got
  <2>6. Bind(r, LAMBDA b, t : readZipListEntry(t, b)) = readZipListEntry(left, first)
    BY Zenon, <2>5 DEF Bind
  <2> QED BY <1>1, <2>1, <2>2, <2>4, <2>6
<1>4. \A rest \in Bytes : Reader("ziplist", piece \o rest) = Got(s, rest)
  BY Zenon, <1>3 DEF Reader
<1>5. piece \in Bytes BY <1>1, <1>2, BytesConcat
<1> QED BY Zenon, <1>4, <1>5 DEF ReadsAs

---------------------------------------------------------------------------
(* Ziplists *)

NoZip == [bytes |-> <<>>, last |-> 0]

\* One entry more.
ZipPut(prev, s, steps) ==
  [bytes |-> prev.bytes \o ZipEntryBytes(prev.last, s, steps),
   last |-> Len(ZipEntryBytes(prev.last, s, steps))]

\* The function that ZipEntries chooses, n being the length of the list.
ZipsUpTo(f, list, steps, n) ==
  f = [i \in 0 .. n |-> IF i = 0 THEN NoZip ELSE ZipPut(f[i - 1], list[i], steps)]

LEMMA ZipsExist == \A list, steps : \A n \in Nat : \E f : ZipsUpTo(f, list, steps, n)
<1> TAKE list, steps
<1> DEFINE N == {n \in Nat : \E f : ZipsUpTo(f, list, steps, n)}
<1>1. 0 \in N
  <2> DEFINE g == [i \in 0 .. 0 |-> NoZip]
  <2>1. g = [i \in 0 .. 0 |-> IF i = 0 THEN NoZip ELSE ZipPut(g[i - 1], list[i], steps)]
    <3>1. \A i \in 0 .. 0 : i = 0 OBVIOUS
    <3> QED BY <3>1
  <2>2. ZipsUpTo(g, list, steps, 0) BY Zenon, <2>1 DEF ZipsUpTo
  <2> QED BY <2>2
<1>2. ASSUME NEW n \in N PROVE n + 1 \in N
  <2>1. n \in Nat OBVIOUS
  <2>2. PICK f : ZipsUpTo(f, list, steps, n) OBVIOUS
  <2> DEFINE Step(i) == IF i = 0 THEN NoZip ELSE ZipPut(f[i - 1], list[i], steps)
             g == [i \in 0 .. n + 1 |-> Step(i)]
  <2>3. ASSUME NEW i \in 0 .. n PROVE f[i] = Step(i)
    <3>1. f = [j \in 0 .. n |-> Step(j)] BY Zenon, <2>2 DEF ZipsUpTo
    <3> HIDE DEF Step
    <3> QED BY <3>1
  <2>4. ASSUME NEW i \in 0 .. n + 1, i # 0 PROVE g[i - 1] = f[i - 1]
    <3>1. i - 1 \in 0 .. n /\ i - 1 \in 0 .. n + 1 BY <2>1, <2>4
    <3> HIDE DEF Step
    <3>2. g[i - 1] = Step(i - 1) BY <3>1
    <3>3. f[i - 1] = Step(i - 1) BY <2>3, <3>1
    <3> HIDE DEF g
    <3> QED BY <3>2, <3>3
  <2> DEFINE More(i) == IF i = 0 THEN NoZip ELSE ZipPut(g[i - 1], list[i], steps)
  <2>5. ASSUME NEW i \in 0 .. n + 1 PROVE g[i] = More(i)
    <3>1. g[i] = Step(i) OBVIOUS
    <3> HIDE DEF g
    <3> QED BY Zenon, <2>4, <3>1
  <2>6. g = [i \in 0 .. n + 1 |-> g[i]] OBVIOUS
  <2>7. g = [i \in 0 .. n + 1 |-> More(i)]
    <3> HIDE DEF g, More
    <3> QED BY <2>5, <2>6
  <2> HIDE DEF g
  <2>8. ZipsUpTo(g, list, steps, n + 1) BY Zenon, <2>7 DEF ZipsUpTo
  <2> QED BY <2>1, <2>8
<1>3. N = Nat
  <2> HIDE DEF N
  <2>1. N \in SUBSET Nat BY DEF N
  <2> QED BY <1>1, <1>2, <2>1, NumberInduction
<1> QED BY <1>3

LEMMA ZipEntriesUpTo ==
  \A list, steps : Len(list) \in Nat =>
    \E f : ZipsUpTo(f, list, steps, Len(list)) /\ ZipEntries(list, steps) = f[Len(list)].bytes
<1> TAKE list, steps
<1> HAVE Len(list) \in Nat
<1> DEFINE f == CHOOSE g : ZipsUpTo(g, list, steps, Len(list))
<1>1. ZipsUpTo(f, list, steps, Len(list)) BY ZipsExist
<1>2. ZipEntries(list, steps) = f[Len(list)].bytes
  BY Zenon DEF ZipEntries, ZipsUpTo, NoZip, ZipPut, ZipEntryBytes
<1> HIDE DEF f
<1> QED BY <1>1, <1>2

---------------------------------------------------------------------------
(* What the decoders return for bytes that may be anything *)

\* result leaves at most n bytes, when it is no panic.
Returns(result, S, n) ==
  result = Panicked \/ \E x \in S, rest \in Bytes : result = Got(x, rest) /\ Len(rest) <= n

LEMMA ReturnsLess ==
  \A result, S : \A n, m \in Nat : Returns(result, S, n) /\ n <= m => Returns(result, S, m)
<1> TAKE result, S
<1> TAKE n, m \in Nat
<1> HAVE Returns(result, S, n) /\ n <= m
<1>1. CASE result = Panicked BY <1>1 DEF Returns
<1>2. CASE \E x \in S, rest \in Bytes : result = Got(x, rest) /\ Len(rest) <= n
  <2>1. PICK x \in S, rest \in Bytes : result = Got(x, rest) /\ Len(rest) <= n BY <1>2
  <2>2. Len(rest) \in Nat BY DEF Bytes
  <2>3. Len(rest) <= m BY <2>1, <2>2
  <2> QED BY Zenon, <2>1, <2>3 DEF Returns
<1> QED BY <1>1, <1>2 DEF Returns

\* A value and the bytes behind it.
LEMMA GotReturns == \A x, S, rest, n : x \in S /\ rest \in Bytes /\ Len(rest) <= n => Returns(Got(x, rest), S, n)
  BY Zenon DEF Returns

LEMMA PanicReturns == \A S, n : Returns(Panicked, S, n) BY DEF Returns

LEMMA ByteReturns ==
  \A rd \in Bytes : \/ ReadByte(rd) = Panicked
                    \/ \E b \in Byte, rest \in Bytes : ReadByte(rd) = Got(b, rest) /\ Len(rest) < Len(rd)
<1> TAKE rd \in Bytes
<1>1. CASE rd = <<>> BY <1>1 DEF ReadByte
<1>2. CASE rd # <<>>
  <2>1. Head(rd) \in Byte /\ Tail(rd) \in Bytes /\ Len(Tail(rd)) < Len(rd) BY <1>2 DEF Bytes
  <2>2. ReadByte(rd) = Got(Head(rd), Tail(rd)) BY <1>2 DEF ReadByte
  <2> QED BY Zenon, <2>1, <2>2
<1> QED BY <1>1, <1>2

LEMMA BytesReturn ==
  \A rd \in Bytes : \A n :
    \/ ReadBytes(rd, n) = Panicked
    \/ \E x \in Bytes, rest \in Bytes : /\ ReadBytes(rd, n) = Got(x, rest)
                                        /\ Len(x) = n /\ n \in Nat /\ Len(rest) <= Len(rd)
<1> TAKE rd \in Bytes
<1> TAKE n
<1>1. CASE n \notin 0 .. Len(rd) BY <1>1 DEF ReadBytes
<1>2. CASE n \in 0 .. Len(rd)
  <2>1. n \in Nat /\ n <= Len(rd) /\ Len(rd) \in Nat BY <1>2 DEF Bytes
  <2> DEFINE x == SubSeq(rd, 1, n)
             rest == SubSeq(rd, n + 1, Len(rd))
  <2>2. x \in Bytes /\ Len(x) = n BY <2>1 DEF Bytes
  <2>3. rest \in Bytes /\ Len(rest) <= Len(rd) BY <2>1 DEF Bytes
  <2>4. ReadBytes(rd, n) = Got(x, rest) BY <1>2 DEF ReadBytes
  <2> HIDE DEF x, rest
  <2> QED BY Zenon, <2>1, <2>2, <2>3, <2>4
<1> QED BY <1>1, <1>2

LEMMA SignedType == \A bytes \in Bytes : bytes # <<>> => Signed(bytes) \in Int
<1> TAKE bytes \in Bytes
<1> HAVE bytes # <<>>
<1> DEFINE top == Last(bytes)
           start == IF top < 128 THEN top ELSE top - 256
           others == Reverse(Front(bytes))
<1>1. top \in Int
  <2>1. bytes \in Seq(Int) /\ Len(bytes) \in 1 .. Len(bytes) BY BytesAreNumbers DEF Bytes
  <2>2. bytes[Len(bytes)] \in Int BY <2>1
  <2> QED BY <2>2 DEF Last
<1>2. start \in Int BY <1>1
<1>3. others \in Seq(Int)
  <2>1. Front(bytes) \in Bytes BY DEF Front, Bytes
  <2>2. others \in Bytes BY <2>1, ReversedTwice
  <2> QED BY <2>2, BytesAreNumbers
<1>4. Signed(bytes) = Horner(start, 256, others) BY Zenon DEF Signed
<1>5. 256 \in Int OBVIOUS
<1> HIDE DEF start, others
<1>6. Horner(start, 256, others) \in Int BY <1>2, <1>3, <1>5, HornerType
<1> QED BY <1>4, <1>6

LEMMA IntReturns ==
  \A rd \in Bytes, w \in Nat \ {0} : Returns(Convert(ReadInt(rd, w), FormatInt), Bytes, Len(rd))
<1> TAKE rd \in Bytes, w \in Nat \ {0}
<1> DEFINE r == ReadBytes(rd, w)
<1>1. Convert(ReadInt(rd, w), FormatInt) = Convert(Convert(r, Signed), FormatInt) BY DEF ReadInt
<1>2. CASE r = Panicked
  <2>1. ~r.ok BY <1>2 DEF Panicked
  <2> HIDE DEF r
  <2>2. Convert(Convert(r, Signed), FormatInt) = Panicked BY <2>1 DEF Convert, Bind, Panicked
  <2> QED BY <1>1, <2>2, PanicReturns DEF r
<1>3. CASE \E x \in Bytes, rest \in Bytes : r = Got(x, rest) /\ Len(x) = w /\ Len(rest) <= Len(rd)
  <2>1. PICK x \in Bytes, rest \in Bytes : r = Got(x, rest) /\ Len(x) = w /\ Len(rest) <= Len(rd)
    BY <1>3
  <2>2. x # <<>> BY <2>1 DEF Bytes
  <2>3. FormatInt(Signed(x)) \in Bytes BY <2>2, SignedType, FormatIntType
  <2>4. r.ok /\ r.val = x /\ r.rest = rest BY <2>1 DEF Got
  <2> HIDE DEF r
  <2>5. Convert(Convert(r, Signed), FormatInt) = Got(FormatInt(Signed(x)), rest)
    BY <2>4 DEF Convert, Bind, Got
  <2> QED BY Zenon, <1>1, <2>1, <2>3, <2>5, GotReturns DEF r
<1> QED BY <1>2, <1>3, BytesReturn

LEMMA TextReturns == \A rd \in Bytes : \A n : Returns(ReadBytes(rd, n), Bytes, Len(rd))
<1> TAKE rd \in Bytes
<1> TAKE n
<1> DEFINE r == ReadBytes(rd, n)
<1>1. \/ r = Panicked
      \/ \E x \in Bytes, rest \in Bytes : /\ r = Got(x, rest)
                                          /\ Len(x) = n /\ n \in Nat /\ Len(rest) <= Len(rd)
  BY BytesReturn
<1> HIDE DEF r
<1>2. Returns(r, Bytes, Len(rd)) BY Zenon, <1>1 DEF Returns
<1> QED BY <1>2 DEF r

\* Bytes whose number is in a byte, besides k, or in the n bytes before them.
ByteCounted(rd, k) == Bind(ReadByte(rd), LAMBDA low, left : ReadBytes(left, k + low))

BytesCounted(rd, n) == Bind(ReadBytes(rd, n), LAMBDA len, left : ReadBytes(left, BigEndian(len)))

LEMMA MediumReturns == \A rd \in Bytes : \A k : Returns(ByteCounted(rd, k), Bytes, Len(rd))
<1> TAKE rd \in Bytes
<1> TAKE k
<1> DEFINE r == ReadByte(rd)
           all == ByteCounted(rd, k)
<1>1. CASE r = Panicked
  <2>1. ~r.ok BY <1>1 DEF Panicked
  <2> HIDE DEF r
  <2>2. all = Panicked BY Zenon, <2>1 DEF Bind, r, BytesCounted, ByteCounted
  <2> HIDE DEF all
  <2> QED BY <1>1, <2>2, PanicReturns DEF all
<1>2. CASE \E b \in Byte, rest \in Bytes : r = Got(b, rest) /\ Len(rest) < Len(rd)
  <2>1. PICK b \in Byte, rest \in Bytes : r = Got(b, rest) /\ Len(rest) < Len(rd) BY <1>2
  <2>2. r.ok /\ r.val = b /\ r.rest = rest BY <2>1 DEF Got
  <2> HIDE DEF r
  <2>3. all = ReadBytes(rest, k + b) BY Zenon, <2>2 DEF Bind, r, ByteCounted
  <2>4. Returns(ReadBytes(rest, k + b), Bytes, Len(rest)) BY TextReturns
  <2>5. Len(rest) \in Nat /\ Len(rd) \in Nat BY DEF Bytes
  <2>6. Len(rest) <= Len(rd) BY <2>1, <2>5
  <2> HIDE DEF all
  <2>7. Returns(all, Bytes, Len(rd)) BY <2>3, <2>4, <2>5, <2>6, ReturnsLess
  <2> QED BY <2>7 DEF all
<1> QED BY <1>1, <1>2, ByteReturns

LEMMA LongReturns == \A rd \in Bytes : \A n : Returns(BytesCounted(rd, n), Bytes, Len(rd))
<1> TAKE rd \in Bytes
<1> TAKE n
<1> DEFINE r == ReadBytes(rd, n)
           all == BytesCounted(rd, n)
<1>1. CASE r = Panicked
  <2>1. ~r.ok BY <1>1 DEF Panicked
  <2> HIDE DEF r
  <2>2. all = Panicked BY Zenon, <2>1 DEF Bind, r, BytesCounted, ByteCounted
  <2> HIDE DEF all
  <2> QED BY <1>1, <2>2, PanicReturns DEF all
<1>2. CASE \E x \in Bytes, rest \in Bytes : r = Got(x, rest) /\ Len(rest) <= Len(rd)
  <2>1. PICK x \in Bytes, rest \in Bytes : r = Got(x, rest) /\ Len(rest) <= Len(rd) BY <1>2
  <2>2. r.ok /\ r.val = x /\ r.rest = rest BY <2>1 DEF Got
  <2> HIDE DEF r
  <2>3. all = ReadBytes(rest, BigEndian(x)) BY Zenon, <2>2 DEF Bind, r, BytesCounted
  <2>4. Returns(ReadBytes(rest, BigEndian(x)), Bytes, Len(rest)) BY TextReturns
  <2>5. Len(rest) \in Nat /\ Len(rd) \in Nat BY DEF Bytes
  <2> HIDE DEF all
  <2>6. Returns(all, Bytes, Len(rd)) BY <2>1, <2>3, <2>4, <2>5, ReturnsLess
  <2> QED BY <2>6 DEF all
<1> QED BY Zenon, <1>1, <1>2, TextReturns DEF Returns

LEMMA ZipAfterReturns == \A e \in Byte, rest \in Bytes : Returns(ZipAfter(e, rest), Bytes, Len(rest))
<1> TAKE e \in Byte, rest \in Bytes
<1> DEFINE t1 == ReadBytes(rest, e)
           t2 == ByteCounted(rest, (e - 64) * 256)
           t3 == BytesCounted(rest, 4)
           i1 == Convert(ReadInt(rest, 1), FormatInt)
           i2 == Convert(ReadInt(rest, 2), FormatInt)
           i3 == Convert(ReadInt(rest, 3), FormatInt)
           i4 == Convert(ReadInt(rest, 4), FormatInt)
           i8 == Convert(ReadInt(rest, 8), FormatInt)
           t4 == Got(FormatInt(e - 241), rest)
<1>1. Returns(t1, Bytes, Len(rest)) BY TextReturns
<1>2. Returns(t2, Bytes, Len(rest)) BY MediumReturns
<1>3. Returns(t3, Bytes, Len(rest)) BY LongReturns
<1>4. /\ Returns(i1, Bytes, Len(rest)) /\ Returns(i2, Bytes, Len(rest))
      /\ Returns(i3, Bytes, Len(rest)) /\ Returns(i4, Bytes, Len(rest)) /\ Returns(i8, Bytes, Len(rest))
  <2>1. /\ 1 \in Nat \ {0} /\ 2 \in Nat \ {0} /\ 3 \in Nat \ {0} /\ 4 \in Nat \ {0}
        /\ 8 \in Nat \ {0}
    OBVIOUS
  <2> QED BY Zenon, <2>1, IntReturns
<1>5. Returns(t4, Bytes, Len(rest))
  <2>1. e - 241 \in Int BY DEF Byte
  <2>2. FormatInt(e - 241) \in Bytes BY <2>1, FormatIntType
  <2>3. Len(rest) <= Len(rest) BY DEF Bytes
  <2> QED BY Zenon, <2>2, <2>3, GotReturns
<1>6. ZipAfter(e, rest) =
        CASE e < 64           -> t1
          [] e \in 64 .. 127  -> t2
          [] e \in 128 .. 191 -> t3
          [] e = 254          -> i1
          [] e = 192          -> i2
          [] e = 240          -> i3
          [] e = 208          -> i4
          [] e = 224          -> i8
          [] e \in 241 .. 253 -> t4
          [] OTHER            -> Panicked
  BY Zenon DEF ZipAfter, ByteCounted, BytesCounted
<1> HIDE DEF t1, t2, t3, i1, i2, i3, i4, i8, t4
<1>7. ZipAfter(e, rest) \in {t1, t2, t3, i1, i2, i3, i4, i8, t4, Panicked} BY SMT, <1>6
<1> QED BY Zenon, <1>1, <1>2, <1>3, <1>4, <1>5, <1>7, PanicReturns

LEMMA ZipContentReturns == \A rd \in Bytes : Returns(ZipContent(rd), Bytes, Len(rd))
<1> TAKE rd \in Bytes
<1> DEFINE r == ReadByte(rd)
<1>0. ZipContent(rd) = Bind(r, ZipAfter) BY Zenon DEF ZipContent, ZipAfter
<1>1. CASE r = Panicked
  <2>1. ~r.ok BY <1>1 DEF Panicked
  <2> HIDE DEF r
  <2>2. Bind(r, ZipAfter) = Panicked BY Zenon, <2>1 DEF Bind
  <2> QED BY <1>0, <2>2, PanicReturns
<1>2. CASE \E b \in Byte, rest \in Bytes : r = Got(b, rest) /\ Len(rest) < Len(rd)
  <2>1. PICK b \in Byte, rest \in Bytes : r = Got(b, rest) /\ Len(rest) < Len(rd) BY <1>2
  <2>2. r.ok /\ r.val = b /\ r.rest = rest BY <2>1 DEF Got
  <2> HIDE DEF r
  <2>3. Bind(r, ZipAfter) = ZipAfter(b, rest) BY Zenon, <2>2 DEF Bind
  <2>4. Returns(ZipAfter(b, rest), Bytes, Len(rest)) BY ZipAfterReturns
  <2>5. Len(rest) \in Nat /\ Len(rd) \in Nat BY DEF Bytes
  <2>6. Len(rest) <= Len(rd) BY <2>1, <2>5
  <2> QED BY <1>0, <2>3, <2>4, <2>5, <2>6, ReturnsLess
<1> QED BY <1>1, <1>2, ByteReturns

LEMMA ZipEntryReturns == \A rd \in Bytes : \A first : Returns(readZipListEntry(rd, first), Bytes, Len(rd))
<1> TAKE rd \in Bytes
<1> TAKE first
<1>1. CASE first # 254
  <2>1. readZipListEntry(rd, first) = ZipContent(rd) BY Zenon, <1>1 DEF readZipListEntry
  <2> QED BY <2>1, ZipContentReturns
<1>2. CASE first = 254
  <2> DEFINE r == ReadBytes(rd, 4)
             Then(prevlen, rest) == ZipContent(rest)
             all == Bind(r, Then)
  <2>0. readZipListEntry(rd, first) = all BY Zenon, <1>2 DEF readZipListEntry
  <2>1. CASE r = Panicked
    <3>1. ~r.ok BY <2>1 DEF Panicked
    <3> HIDE DEF r
    <3>2. all = Panicked BY Zenon, <3>1 DEF Bind
    <3> HIDE DEF all
    <3> QED BY <2>0, <3>2, PanicReturns
  <2>2. CASE \E x \in Bytes, rest \in Bytes : r = Got(x, rest) /\ Len(rest) <= Len(rd)
    <3>1. PICK x \in Bytes, rest \in Bytes : r = Got(x, rest) /\ Len(rest) <= Len(rd) BY <2>2
    <3>2. r.ok /\ r.val = x /\ r.rest = rest BY <3>1 DEF Got
    <3> HIDE DEF r
    <3>3. all = ZipContent(rest) BY Zenon, <3>2 DEF Bind
    <3>4. Returns(ZipContent(rest), Bytes, Len(rest)) BY ZipContentReturns
    <3>5. Len(rest) \in Nat /\ Len(rd) \in Nat BY DEF Bytes
    <3> HIDE DEF all
    <3> QED BY <2>0, <3>1, <3>3, <3>4, <3>5, ReturnsLess
  <2> HIDE DEF all
  <2> QED BY Zenon, <2>1, <2>2, TextReturns DEF Returns
<1> QED BY <1>1, <1>2

---------------------------------------------------------------------------
(* Ziplists that are read up to a byte 0xFE *)

\* ele comes before what result has.
Before(ele, result) == Convert(result, LAMBDA elements : <<ele>> \o elements)

\* The entry that was read and what f makes of the reader after it.
MoreToFE(f, result) == Bind(result, LAMBDA ele, left : Before(ele, f[left]))

\* What is made of a reader when f says what is made of the rest of it.
ToFE(f, rd) ==
  Bind(ReadByte(rd), LAMBDA first, rest :
    IF first = 254 THEN Got(<<>>, rest) ELSE MoreToFE(f, readZipListEntry(rest, first)))

\* The function that ZipEntriesToFE chooses.
ReadsToFE(f) == f = [rd \in Seq(Byte) |-> ToFE(f, rd)]

LEMMA MoreToFEOf ==
  /\ \A f : MoreToFE(f, Panicked) = Panicked
  /\ \A f, ele, left : MoreToFE(f, Got(ele, left)) = Before(ele, f[left])
<1>1. \A f : MoreToFE(f, Panicked) = Panicked
  <2>1. ~Panicked.ok BY DEF Panicked
  <2> QED BY Zenon, <2>1 DEF MoreToFE, Bind
<1>2. ASSUME NEW f, NEW ele, NEW left PROVE MoreToFE(f, Got(ele, left)) = Before(ele, f[left])
  <2> DEFINE r == Got(ele, left)
  <2>1. r.ok /\ r.val = ele /\ r.rest = left BY DEF Got
  <2> HIDE DEF r
  <2>2. MoreToFE(f, r) = Before(ele, f[left]) BY Zenon, <2>1 DEF MoreToFE, Bind
  <2> QED BY <2>2 DEF r
<1> QED BY <1>1, <1>2

LEMMA ToFEOfNone == \A f, rd : ReadByte(rd) = Panicked => ToFE(f, rd) = Panicked
<1> SUFFICES ASSUME NEW f, NEW rd, ReadByte(rd) = Panicked PROVE ToFE(f, rd) = Panicked OBVIOUS
<1> DEFINE r == ReadByte(rd)
<1>1. ~r.ok BY DEF Panicked
<1> QED BY Zenon, <1>1 DEF ToFE, Bind

LEMMA ToFEOfEnd == \A f, rd, rest : ReadByte(rd) = Got(254, rest) => ToFE(f, rd) = Got(<<>>, rest)
<1> SUFFICES ASSUME NEW f, NEW rd, NEW rest, ReadByte(rd) = Got(254, rest)
             PROVE  ToFE(f, rd) = Got(<<>>, rest)
  OBVIOUS
<1> DEFINE r == ReadByte(rd)
<1>1. r.ok /\ r.val = 254 /\ r.rest = rest BY DEF Got
<1> QED BY Zenon, <1>1 DEF ToFE, Bind

LEMMA ToFEOfEntry ==
  \A f, rd, first, rest : ReadByte(rd) = Got(first, rest) /\ first # 254 =>
    ToFE(f, rd) = MoreToFE(f, readZipListEntry(rest, first))
<1> SUFFICES ASSUME NEW f, NEW rd, NEW first, NEW rest, ReadByte(rd) = Got(first, rest), first # 254
             PROVE  ToFE(f, rd) = MoreToFE(f, readZipListEntry(rest, first))
  OBVIOUS
<1> DEFINE r == ReadByte(rd)
<1>1. r.ok /\ r.val = first /\ r.rest = rest BY DEF Got
<1> HIDE DEF r
<1>2. ToFE(f, rd) = Bind(r, LAMBDA b, t :
        IF b = 254 THEN Got(<<>>, t) ELSE MoreToFE(f, readZipListEntry(t, b)))
  BY Zenon DEF ToFE, r
<1> QED BY Zenon, <1>1, <1>2 DEF Bind

LEMMA ToFEOfNoEntry ==
  \A f, rd, first, rest :
    ReadByte(rd) = Got(first, rest) /\ first # 254 /\ readZipListEntry(rest, first) = Panicked
    => ToFE(f, rd) = Panicked
<1> SUFFICES ASSUME NEW f, NEW rd, NEW first, NEW rest,
                    ReadByte(rd) = Got(first, rest), first # 254, readZipListEntry(rest, first) = Panicked
             PROVE  ToFE(f, rd) = Panicked
  OBVIOUS
<1>1. ToFE(f, rd) = MoreToFE(f, readZipListEntry(rest, first)) BY Zenon, ToFEOfEntry
<1>2. MoreToFE(f, Panicked) = Panicked BY MoreToFEOf
<1> QED BY Zenon, <1>1, <1>2

LEMMA BeforeGot == \A ele, list, rest : Before(ele, Got(list, rest)) = Got(<<ele>> \o list, rest)
<1> TAKE ele, list, rest
<1>1. Got(list, rest).ok /\ Got(list, rest).val = list /\ Got(list, rest).rest = rest BY DEF Got
<1> QED BY <1>1 DEF Before, Convert, Bind

LEMMA BeforePanic == \A ele : Before(ele, Panicked) = Panicked BY DEF Before, Convert, Bind, Panicked

\* The ways to read on from rd.
FirstOf(rd) ==
  \/ \A f : ToFE(f, rd) = Panicked
  \/ \E rest \in Bytes : \A f : ToFE(f, rd) = Got(<<>>, rest)
  \/ \E ele \in Bytes, left \in Bytes :
       Len(left) < Len(rd) /\ \A f : ToFE(f, rd) = Before(ele, f[left])

LEMMA FirstIs == \A rd \in Bytes : FirstOf(rd)
<1> TAKE rd \in Bytes
<1>1. CASE ReadByte(rd) = Panicked BY Zenon, <1>1, ToFEOfNone DEF FirstOf
<1>2. CASE \E b \in Byte, rest \in Bytes : ReadByte(rd) = Got(b, rest) /\ Len(rest) < Len(rd)
  <2>1. PICK b \in Byte, rest \in Bytes : ReadByte(rd) = Got(b, rest) /\ Len(rest) < Len(rd)
    BY <1>2
  <2>2. CASE b = 254
    <3>1. ASSUME NEW f PROVE ToFE(f, rd) = Got(<<>>, rest)
      <4>1. ReadByte(rd) = Got(254, rest) BY <2>1, <2>2
      <4> QED BY ZenonT(40), <4>1, ToFEOfEnd
    <3> QED BY Zenon, <2>1, <3>1 DEF FirstOf
  <2>3. CASE b # 254
    <3>1. Returns(readZipListEntry(rest, b), Bytes, Len(rest)) BY ZipEntryReturns
    <3>2. CASE readZipListEntry(rest, b) = Panicked
      <4>1. ASSUME NEW f PROVE ToFE(f, rd) = Panicked BY Zenon, <2>1, <2>3, <3>2, ToFEOfNoEntry
      <4> QED BY Zenon, <4>1 DEF FirstOf
    <3>3. CASE \E x \in Bytes, t \in Bytes : readZipListEntry(rest, b) = Got(x, t) /\ Len(t) <= Len(rest)
      <4>1. PICK x \in Bytes, t \in Bytes : readZipListEntry(rest, b) = Got(x, t) /\ Len(t) <= Len(rest)
        BY <3>3
      <4>2. Len(t) \in Nat /\ Len(rest) \in Nat /\ Len(rd) \in Nat BY DEF Bytes
      <4>3. Len(t) < Len(rd) BY <2>1, <4>1, <4>2
      <4>4. ASSUME NEW f PROVE ToFE(f, rd) = Before(x, f[t])
        <5>1. ToFE(f, rd) = MoreToFE(f, readZipListEntry(rest, b)) BY Zenon, <2>1, <2>3, ToFEOfEntry
        <5>2. MoreToFE(f, Got(x, t)) = Before(x, f[t]) BY Zenon, MoreToFEOf
        <5> QED BY Zenon, <4>1, <5>1, <5>2
      <4> QED BY Zenon, <4>3, <4>4 DEF FirstOf
    <3> QED BY Zenon, <3>1, <3>2, <3>3 DEF Returns
  <2> QED BY <2>2, <2>3
<1> QED BY <1>1, <1>2, ByteReturns

\* Results of reading lists.
Lists == {Panicked} \cup {Got(pair[1], pair[2]) : pair \in Seq(Bytes) \X Bytes}

LEMMA ListsHave ==
  /\ Panicked \in Lists
  /\ \A list \in Seq(Bytes), rest \in Bytes : Got(list, rest) \in Lists
  /\ \A r \in Lists : r = Panicked \/ \E list \in Seq(Bytes), rest \in Bytes : r = Got(list, rest)
<1>1. Panicked \in Lists BY DEF Lists
<1>2. ASSUME NEW list \in Seq(Bytes), NEW rest \in Bytes PROVE Got(list, rest) \in Lists
  <2> DEFINE pair == <<list, rest>>
  <2>1. pair \in Seq(Bytes) \X Bytes /\ pair[1] = list /\ pair[2] = rest OBVIOUS
  <2> HIDE DEF pair
  <2> QED BY Zenon, <2>1 DEF Lists
<1>3. ASSUME NEW r \in Lists PROVE r = Panicked \/ \E list \in Seq(Bytes), rest \in Bytes : r = Got(list, rest)
  <2>1. r = Panicked \/ \E pair \in Seq(Bytes) \X Bytes : r = Got(pair[1], pair[2]) BY Zenon DEF Lists
  <2>2. CASE \E pair \in Seq(Bytes) \X Bytes : r = Got(pair[1], pair[2])
    <3>1. PICK pair \in Seq(Bytes) \X Bytes : r = Got(pair[1], pair[2]) BY <2>2
    <3>2. pair[1] \in Seq(Bytes) /\ pair[2] \in Bytes OBVIOUS
    <3> QED BY Zenon, <3>1, <3>2
  <2> QED BY <2>1, <2>2
<1> QED BY <1>1, <1>2, <1>3

LEMMA BeforeType == \A ele \in Bytes, r \in Lists : Before(ele, r) \in Lists
<1> TAKE ele \in Bytes, r \in Lists
<1>1. CASE r = Panicked BY <1>1, BeforePanic, ListsHave
<1>2. CASE \E list \in Seq(Bytes), rest \in Bytes : r = Got(list, rest)
  <2>1. PICK list \in Seq(Bytes), rest \in Bytes : r = Got(list, rest) BY <1>2
  <2>2. <<ele>> \o list \in Seq(Bytes) OBVIOUS
  <2>3. Before(ele, r) = Got(<<ele>> \o list, rest) BY Zenon, <2>1, BeforeGot
  <2>4. Got(<<ele>> \o list, rest) \in Lists BY Zenon, <2>2, ListsHave
  <2> QED BY <2>3, <2>4
<1> QED BY Zenon, <1>1, <1>2, ListsHave

LEMMA ReadsToFEExists == \E f : ReadsToFE(f)
<1> DEFINE D == Bytes
           step == [g \in [D -> Lists] |-> [p \in D |-> ToFE(g, p)]]
           rank == [p \in D |-> Len(p)]
<1>1. ASSUME NEW g \in [D -> Lists], NEW p \in D PROVE ToFE(g, p) \in Lists
  <2>1. FirstOf(p) BY FirstIs
  <2>2. CASE \A f : ToFE(f, p) = Panicked BY <2>2, ListsHave
  <2>3. CASE \E rest \in Bytes : \A f : ToFE(f, p) = Got(<<>>, rest)
    <3>1. PICK rest \in Bytes : ToFE(g, p) = Got(<<>>, rest) BY <2>3
    <3>2. <<>> \in Seq(Bytes) OBVIOUS
    <3> QED BY <3>1, <3>2, ListsHave
  <2>4. CASE \E ele \in Bytes, left \in Bytes :
               Len(left) < Len(p) /\ \A f : ToFE(f, p) = Before(ele, f[left])
    <3>1. PICK ele \in Bytes, left \in Bytes : ToFE(g, p) = Before(ele, g[left]) BY <2>4
    <3>2. g[left] \in Lists OBVIOUS
    <3> QED BY <3>1, <3>2, BeforeType
  <2> QED BY <2>1, <2>2, <2>3, <2>4 DEF FirstOf
<1>2. ASSUME NEW g \in [D -> Lists], NEW h \in [D -> Lists], NEW p \in D,
             \A q \in D : rank[q] < rank[p] => g[q] = h[q]
      PROVE  ToFE(g, p) = ToFE(h, p)
  <2>1. FirstOf(p) BY FirstIs
  <2>2. CASE \A f : ToFE(f, p) = Panicked BY <2>2
  <2>3. CASE \E rest \in Bytes : \A f : ToFE(f, p) = Got(<<>>, rest) BY <2>3
  <2>4. CASE \E ele \in Bytes, left \in Bytes :
               Len(left) < Len(p) /\ \A f : ToFE(f, p) = Before(ele, f[left])
    <3>1. PICK ele \in Bytes, left \in Bytes :
            Len(left) < Len(p) /\ \A f : ToFE(f, p) = Before(ele, f[left])
      BY <2>4
    <3>2. rank[left] < rank[p] BY <3>1
    <3>3. g[left] = h[left] BY <1>2, <3>2
    <3> QED BY <3>1, <3>3
  <2> QED BY <2>1, <2>2, <2>3, <2>4 DEF FirstOf
<1>3. rank \in [D -> Nat] BY DEF Bytes
<1> HIDE DEF rank, D
<1>4. Descends(step, rank, D, Lists)
  <2>1. \A g \in [D -> Lists] : step[g] = [p \in D |-> ToFE(g, p)] OBVIOUS
  <2>2. step \in [[D -> Lists] -> [D -> Lists]] BY <1>1
  <2> HIDE DEF step
  <2>3. \A g \in [D -> Lists], p \in D : step[g][p] = ToFE(g, p) BY <2>1
  <2> QED BY <1>2, <1>3, <2>2, <2>3 DEF Descends
<1>5. Lists # {} BY ListsHave
<1>6. PICK f : f \in [D -> Lists] /\ f = step[f]
  <2> HIDE DEF step
  <2> QED BY <1>4, <1>5, RecursionByRank
<1>7. f = [p \in D |-> ToFE(f, p)] BY <1>6 DEF step
<1>8. ReadsToFE(f) BY Zenon, <1>7 DEF ReadsToFE, D, Bytes
<1> QED BY <1>8

LEMMA ZipEntriesToFEUnfolds ==
  \E f : /\ \A rd \in Bytes : f[rd] = ToFE(f, rd)
         /\ \A rd : ZipEntriesToFE(rd) = f[rd]
<1> DEFINE f == CHOOSE g : ReadsToFE(g)
<1>1. ReadsToFE(f) BY ReadsToFEExists
<1>2. \A rd : ZipEntriesToFE(rd) = f[rd]
  BY Zenon DEF ZipEntriesToFE, ReadsToFE, ToFE, MoreToFE, Before
<1> HIDE DEF f
<1>3. \A rd \in Bytes : f[rd] = ToFE(f, rd) BY <1>1 DEF ReadsToFE, Bytes
<1> QED BY <1>2, <1>3

\* The function that ReadTimes chooses.
UpToZipped(f, n, rd) ==
  f = [i \in 0 .. n |->
         IF i = 0 THEN Got(<<>>, rd)
         ELSE Bind(f[i - 1], LAMBDA vals, rest :
                Convert(ZipEntry(rest), LAMBDA val : Append(vals, val)))]

LEMMA ReadTimesZipped ==
  \A n \in Nat : \A rd : Times("ziplist", n, rd, ReadTimes(n, ZipEntry, rd))
<1> TAKE n \in Nat
<1> TAKE rd
<1> DEFINE f == CHOOSE g : UpToZipped(g, n, rd)
<1>1. \A r : Reader("ziplist", r) = ZipEntry(r) BY Zenon DEF Reader
<1>2. \A result : OneMore("ziplist", result) =
                    Bind(result, LAMBDA vals, rest :
                      Convert(ZipEntry(rest), LAMBDA val : Append(vals, val)))
  <2> TAKE result
  <2> DEFINE r == ZipEntry(result.rest)
  <2>1. Reader("ziplist", result.rest) = r BY <1>1
  <2>2. OneMore("ziplist", result) =
          IF result.ok THEN Convert(r, LAMBDA val : Append(result.val, val)) ELSE Panicked
    <3> HIDE DEF r
    <3> QED BY SMT, <2>1 DEF OneMore, Bind, Convert
  <2> QED BY Zenon, <2>2 DEF Bind
<1>3. \A g : UpTo(g, "ziplist", n, rd) <=> UpToZipped(g, n, rd)
  <2> TAKE g
  <2> DEFINE Old(i) == IF i = 0 THEN Got(<<>>, rd) ELSE OneMore("ziplist", g[i - 1])
             New(i) == IF i = 0 THEN Got(<<>>, rd)
                       ELSE Bind(g[i - 1], LAMBDA vals, rest :
                              Convert(ZipEntry(rest), LAMBDA val : Append(vals, val)))
  <2>1. \A i \in 0 .. n : Old(i) = New(i) BY Zenon, <1>2
  <2>2. [i \in 0 .. n |-> Old(i)] = [i \in 0 .. n |-> New(i)]
    <3> HIDE DEF Old, New
    <3> QED BY <2>1
  <2> QED BY Zenon, <2>2 DEF UpTo, UpToZipped
<1>4. UpToZipped(f, n, rd)
  <2>1. \E g : UpToZipped(g, n, rd) BY Zenon, <1>3, UpToExists
  <2> QED BY Zenon, <2>1
<1>5. ReadTimes(n, ZipEntry, rd) = f[n] BY Zenon DEF ReadTimes, UpToZipped
<1> HIDE DEF f
<1>6. UpTo(f, "ziplist", n, rd) BY <1>3, <1>4
<1> QED BY <1>5, <1>6 DEF Times

\* Reading up to a byte 0xFE panics, or gives the beginning of the list.
StopsShort(rd, list) ==
  \/ ZipEntriesToFE(rd) = Panicked
  \/ \E v \in Seq(Strings), more \in Seq(Strings), left \in Bytes :
       more # <<>> /\ list = v \o more /\ ZipEntriesToFE(rd) = Got(v, left)

LEMMA EndStopsShort == StopsShort(<<255>>, <<>>)
<1>1. PICK f : /\ \A rd \in Bytes : f[rd] = ToFE(f, rd)
               /\ \A rd : ZipEntriesToFE(rd) = f[rd]
  BY ZipEntriesToFEUnfolds
<1>2. PICK end \in Byte : end = 255 BY DEF Byte
<1>3. <<end>> \in Bytes /\ <<>> \in Bytes /\ <<end>> = <<end>> \o <<>> BY DEF Bytes
<1>4. ReadByte(<<end>>) = Got(end, <<>>) BY <1>3, ByteRead
<1>5. readZipListEntry(<<>>, end) = Panicked
  <2>1. readZipListEntry(<<>>, end) = ZipContent(<<>>) BY <1>2 DEF readZipListEntry
  <2>2. ReadByte(<<>>) = Panicked BY DEF ReadByte
  <2>3. ZipContent(<<>>) = Bind(ReadByte(<<>>), ZipAfter) BY Zenon DEF ZipContent, ZipAfter
  <2>4. ~Panicked.ok BY DEF Panicked
  <2>5. Bind(Panicked, ZipAfter) = Panicked BY Zenon, <2>4 DEF Bind
  <2> QED BY <2>1, <2>2, <2>3, <2>5
<1>6. end # 254 BY <1>2
<1>7. ToFE(f, <<end>>) = Panicked BY Zenon, <1>4, <1>5, <1>6, ToFEOfNoEntry
<1>8. ZipEntriesToFE(<<end>>) = Panicked BY Zenon, <1>1, <1>3, <1>7
<1> QED BY Zenon, <1>2, <1>8 DEF StopsShort

LEMMA EntryStopsShort ==
  \A piece : \A s \in Strings, list \in Seq(Strings), tail \in Bytes :
    IsZipEntry(piece, s) /\ StopsShort(tail, list) => StopsShort(piece \o tail, <<s>> \o list)
<1> TAKE piece
<1> TAKE s \in Strings, list \in Seq(Strings), tail \in Bytes
<1> HAVE IsZipEntry(piece, s) /\ StopsShort(tail, list)
<1>1. PICK f : /\ \A rd \in Bytes : f[rd] = ToFE(f, rd)
               /\ \A rd : ZipEntriesToFE(rd) = f[rd]
  BY ZipEntriesToFEUnfolds
<1>2. PICK first \in Byte, body \in Bytes :
        /\ piece = <<first>> \o body
        /\ \A rest \in Bytes : readZipListEntry(body \o rest, first) = Got(s, rest)
  BY DEF IsZipEntry
<1>3. PICK left \in Bytes : left = body \o tail BY BytesConcat
<1>4. <<first>> \in Bytes BY DEF Bytes
<1>5. piece \o tail = <<first>> \o left BY <1>2, <1>3, <1>4, BytesAssociate
<1>6. <<first>> \o left \in Bytes BY <1>4, BytesConcat
<1>7. ReadByte(<<first>> \o left) = Got(first, left) BY ByteRead
<1> DEFINE rd == <<first>> \o left
<1>8. ZipEntriesToFE(piece \o tail) = ToFE(f, rd) BY Zenon, <1>1, <1>5, <1>6
<1> HIDE DEF rd
<1>9. <<s>> \o list \in Seq(Strings) /\ <<s>> \o list # <<>> OBVIOUS
<1>10. CASE first = 254
  <2>1. ReadByte(rd) = Got(254, left) BY <1>7, <1>10 DEF rd
  <2>2. ToFE(f, rd) = Got(<<>>, left) BY ZenonT(40), <2>1, ToFEOfEnd
  <2>3. <<>> \in Seq(Strings) /\ <<s>> \o list = <<>> \o (<<s>> \o list) BY <1>9
  <2> QED BY Zenon, <1>8, <1>9, <2>2, <2>3 DEF StopsShort
<1>11. CASE first # 254
  <2>1. readZipListEntry(left, first) = Got(s, tail) BY <1>2, <1>3
  <2>2. ReadByte(rd) = Got(first, left) BY <1>7 DEF rd
  <2>3. ToFE(f, rd) = Before(s, f[tail])
    <3>1. ToFE(f, rd) = MoreToFE(f, readZipListEntry(left, first)) BY Zenon, <1>11, <2>2, ToFEOfEntry
    <3>2. MoreToFE(f, Got(s, tail)) = Before(s, f[tail]) BY Zenon, MoreToFEOf
    <3> QED BY Zenon, <2>1, <3>1, <3>2
  <2>4. ZipEntriesToFE(piece \o tail) = Before(s, ZipEntriesToFE(tail)) BY <1>1, <1>8, <2>3
  <2>5. CASE ZipEntriesToFE(tail) = Panicked
    <3>1. ZipEntriesToFE(piece \o tail) = Panicked BY Zenon, <2>4, <2>5, BeforePanic
    <3> QED BY <3>1 DEF StopsShort
  <2>6. CASE \E v \in Seq(Strings), more \in Seq(Strings), l \in Bytes :
               more # <<>> /\ list = v \o more /\ ZipEntriesToFE(tail) = Got(v, l)
    <3>1. PICK v \in Seq(Strings), more \in Seq(Strings), l \in Bytes :
            more # <<>> /\ list = v \o more /\ ZipEntriesToFE(tail) = Got(v, l)
      BY <2>6
    <3>2. ZipEntriesToFE(piece \o tail) = Got(<<s>> \o v, l) BY ZenonT(40), <2>4, <3>1, BeforeGot
    <3>3. <<s>> \o v \in Seq(Strings) OBVIOUS
    <3>4. <<s>> \o list = (<<s>> \o v) \o more
      <4>1. <<s>> \in Seq(Strings) OBVIOUS
      <4> QED BY <3>1, <4>1, ConcatAssociative
    <3> QED BY Zenon, <3>1, <3>2, <3>3, <3>4 DEF StopsShort
  <2> QED BY Zenon, <2>5, <2>6 DEF StopsShort
<1> QED BY <1>10, <1>11

\* bytes are all of the list, which may go on.
Extends(bytes, list) ==
  \A tail \in Bytes, more \in Seq(Strings) :
    StopsShort(tail, more) => StopsShort(bytes \o tail, list \o more)

LEMMA ExtendsNone == Extends(<<>>, <<>>)
<1>1. \A tail \in Bytes : <<>> \o tail = tail BY DEF Bytes
<1>2. \A more \in Seq(Strings) : <<>> \o more = more OBVIOUS
<1> QED BY Zenon, <1>1, <1>2 DEF Extends

LEMMA ExtendsMore ==
  \A bytes, piece \in Bytes : \A s \in Strings, list \in Seq(Strings) :
    Extends(bytes, list) /\ IsZipEntry(piece, s) => Extends(bytes \o piece, Append(list, s))
<1> TAKE bytes, piece \in Bytes
<1> TAKE s \in Strings, list \in Seq(Strings)
<1> HAVE Extends(bytes, list) /\ IsZipEntry(piece, s)
<1>1. ASSUME NEW tail \in Bytes, NEW more \in Seq(Strings), StopsShort(tail, more)
      PROVE  StopsShort((bytes \o piece) \o tail, Append(list, s) \o more)
  <2>1. PICK t \in Bytes : t = piece \o tail BY BytesConcat
  <2>2. PICK m \in Seq(Strings) : m = <<s>> \o more
    <3>1. <<s>> \o more \in Seq(Strings) OBVIOUS
    <3> QED BY Zenon, <3>1
  <2>3. StopsShort(t, m)
    <3>1. IsZipEntry(piece, s) /\ StopsShort(tail, more) => StopsShort(piece \o tail, <<s>> \o more)
      BY EntryStopsShort
    <3> QED BY Zenon, <1>1, <2>1, <2>2, <3>1
  <2>4. StopsShort(bytes \o t, list \o m) BY Zenon, <2>3 DEF Extends
  <2>5. (bytes \o piece) \o tail = bytes \o t BY SMTT(30), <2>1, BytesAssociate
  <2>6. Append(list, s) \o more = list \o m
    <3>1. Append(list, s) = list \o <<s>> /\ <<s>> \in Seq(Strings) OBVIOUS
    <3>2. (list \o <<s>>) \o more = list \o (<<s>> \o more) BY <3>1, ConcatAssociative
    <3> QED BY <2>2, <3>1, <3>2
  <2> QED BY Zenon, <2>4, <2>5, <2>6
<1> QED BY Zenon, <1>1 DEF Extends

\* The entries of the list so far, and the length of the last one.
ZipsSoFar(state, list) ==
  /\ state.bytes \in Bytes /\ state.last \in Nat
  /\ ReadsAll("ziplist", state.bytes, list) /\ Extends(state.bytes, list)

LEMMA NoZipIsNone == ZipsSoFar(NoZip, <<>>)
<1>1. <<>> \in Bytes BY DEF Bytes
<1>2. NoZip.bytes = <<>> /\ NoZip.last = 0 BY DEF NoZip
<1> QED BY <1>1, <1>2, ReadsNone, ExtendsNone DEF ZipsSoFar

LEMMA ZipPutIsOneMore ==
  \A state : \A list \in Seq(Strings), s \in Strings, steps \in Nat :
    ZipsSoFar(state, list) => ZipsSoFar(ZipPut(state, s, steps), Append(list, s))
<1> TAKE state
<1> TAKE list \in Seq(Strings), s \in Strings, steps \in Nat
<1> HAVE ZipsSoFar(state, list)
<1> DEFINE bytes == state.bytes
           piece == ZipEntryBytes(state.last, s, steps)
           more == ZipPut(state, s, steps)
<1>1. bytes \in Bytes /\ state.last \in Nat BY DEF ZipsSoFar
<1>2. IsZipEntry(piece, s) /\ piece \in Bytes BY <1>1, ZipListEntriesLoad
<1>3. more.bytes = bytes \o piece /\ more.last = Len(piece) BY DEF ZipPut
<1>4. ReadsAll("ziplist", bytes, list) /\ Extends(bytes, list) BY DEF ZipsSoFar
<1> HIDE DEF bytes, piece, more
<1>5. bytes \o piece \in Bytes /\ Len(piece) \in Nat
  <2>1. Len(piece) \in Nat BY <1>2 DEF Bytes
  <2> QED BY <1>1, <1>2, <2>1, BytesConcat
<1>6. ReadsAll("ziplist", bytes \o piece, Append(list, s))
  <2>1. ReadsAs("ziplist", piece, s) BY <1>2, ZipEntryReads
  <2>2. ReadsAll("ziplist", bytes, list) /\ ReadsAs("ziplist", piece, s)
        => ReadsAll("ziplist", bytes \o piece, Append(list, s))
    BY ReadsMore
  <2> QED BY <1>4, <2>1, <2>2
<1>7. Extends(bytes \o piece, Append(list, s)) BY <1>1, <1>2, <1>4, ExtendsMore
<1>8. ZipsSoFar(more, Append(list, s)) BY Zenon, <1>3, <1>5, <1>6, <1>7 DEF ZipsSoFar
<1> QED BY <1>8 DEF more

LEMMA ZipsAreSoFar ==
  \A steps \in Nat, list \in Seq(Strings) : \A f :
    ZipsUpTo(f, list, steps, Len(list)) => ZipsSoFar(f[Len(list)], list)
<1> TAKE steps \in Nat, list \in Seq(Strings)
<1> TAKE f
<1> HAVE ZipsUpTo(f, list, steps, Len(list))
<1> DEFINE n == Len(list)
<1>1. n \in Nat OBVIOUS
<1>2. \A i \in 0 .. n : f[i] = IF i = 0 THEN NoZip ELSE ZipPut(f[i - 1], list[i], steps)
  <2> DEFINE Step(i) == IF i = 0 THEN NoZip ELSE ZipPut(f[i - 1], list[i], steps)
  <2>1. f = [i \in 0 .. n |-> Step(i)] BY Zenon DEF ZipsUpTo
  <2> HIDE DEF Step
  <2>2. \A i \in 0 .. n : f[i] = Step(i) BY <2>1
  <2> QED BY Zenon, <2>2 DEF Step
<1> DEFINE N == {i \in Nat : i <= n => ZipsSoFar(f[i], SubSeq(list, 1, i))}
<1>3. 0 \in N
  <2>1. SubSeq(list, 1, 0) = <<>> OBVIOUS
  <2>2. 0 \in 0 .. n BY <1>1
  <2>3. f[0] = NoZip BY Zenon, <1>2, <2>2
  <2>4. ZipsSoFar(f[0], SubSeq(list, 1, 0)) BY Zenon, <2>1, <2>3, NoZipIsNone
  <2> QED BY <2>4
<1>4. ASSUME NEW i \in N PROVE i + 1 \in N
  <2>1. i \in Nat /\ i + 1 \in Nat OBVIOUS
  <2>2. CASE i + 1 <= n
    <3> DEFINE begin == SubSeq(list, 1, i)
               s == list[i + 1]
               j == i + 1
    <3>1. i <= n BY <1>1, <2>1, <2>2
    <3>2. ZipsSoFar(f[i], begin) BY <3>1
    <3>3. begin \in Seq(Strings) /\ s \in Strings /\ SubSeq(list, 1, j) = Append(begin, s)
      BY <1>1, <2>1, <2>2
    <3>4. j \in 0 .. n /\ j # 0 /\ j - 1 = i BY <1>1, <2>1, <2>2
    <3>5. s = list[j] OBVIOUS
    <3> HIDE DEF begin, s, j
    <3>6. f[j] = ZipPut(f[i], s, steps)
      <4>1. f[j] = ZipPut(f[j - 1], list[j], steps) BY Zenon, <1>2, <3>4
      <4> QED BY <3>4, <3>5, <4>1
    <3>7. ZipsSoFar(f[j], SubSeq(list, 1, j)) BY <3>2, <3>3, <3>6, ZipPutIsOneMore
    <3> QED BY <2>1, <3>7 DEF j
  <2>3. CASE ~(i + 1 <= n) BY <2>1, <2>3
  <2> QED BY <2>2, <2>3
<1>5. N = Nat
  <2>1. N \in SUBSET Nat OBVIOUS
  <2> HIDE DEF N
  <2> QED BY <1>3, <1>4, <2>1, NumberInduction
<1>6. SubSeq(list, 1, n) = list OBVIOUS
<1>7. n \in N BY <1>1, <1>5
<1>8. ZipsSoFar(f[n], SubSeq(list, 1, n)) BY <1>1, <1>7
<1> QED BY <1>6, <1>8

LEMMA ZipEntriesLoad ==
  \A list \in Seq(Strings), steps \in Nat :
    /\ ReadsAll("ziplist", ZipEntries(list, steps), list)
    /\ Extends(ZipEntries(list, steps), list)
<1> TAKE list \in Seq(Strings), steps \in Nat
<1>1. Len(list) \in Nat OBVIOUS
<1>2. PICK f : ZipsUpTo(f, list, steps, Len(list)) /\ ZipEntries(list, steps) = f[Len(list)].bytes
  BY <1>1, ZipEntriesUpTo
<1>3. ZipsSoFar(f[Len(list)], list) BY <1>2, ZipsAreSoFar
<1> QED BY <1>2, <1>3 DEF ZipsSoFar

\* What ZipBody makes of the count and of what it begins with.
ZipThen(size, rest) ==
  IF size = Unknown THEN ZipEntriesToFE(rest) ELSE Ended(ReadTimes(size, ZipEntry, rest))

ZipBodyAfter(head, rest) == Bind(ReadUint(rest, 2), ZipThen)

\* A body whose header tells count.
IsZipBody(head, counter, count) ==
  /\ head \in Bytes /\ Len(head) = 8
  /\ counter \in Bytes /\ Len(counter) = 2 /\ LittleEndian(counter) = count /\ count \in Nat

LEMMA ZipBodyIsThen ==
  \A head, counter, count : \A rest \in Bytes :
    IsZipBody(head, counter, count) => ZipBody(head \o (counter \o rest)) = ZipThen(count, rest)
<1> TAKE head, counter, count
<1> TAKE rest \in Bytes
<1> HAVE IsZipBody(head, counter, count)
<1>1. /\ head \in Bytes /\ Len(head) = 8
      /\ counter \in Bytes /\ Len(counter) = 2 /\ LittleEndian(counter) = count /\ count \in Nat
  BY DEF IsZipBody
<1> DEFINE rd == counter \o rest
<1>2. rd \in Bytes BY <1>1, BytesConcat
<1>3. ReadBytes(head \o rd, 8) = Got(head, rd)
  <2> HIDE DEF rd
  <2>1. Begins(head \o rd, head, 8, rd) BY <1>1, <1>2 DEF Begins
  <2> QED BY <2>1, BytesRead
<1>4. ReadUint(rd, 2) = Got(count, rest)
  <2>1. Begins(rd, counter, 2, rest) BY <1>1 DEF Begins
  <2>2. 2 \in Nat OBVIOUS
  <2> QED BY Zenon, <1>1, <2>1, <2>2, UintRead
<1> HIDE DEF rd
<1> DEFINE r1 == ReadBytes(head \o rd, 8)
           r2 == ReadUint(rd, 2)
<1>5. r1.ok /\ r1.val = head /\ r1.rest = rd BY <1>3 DEF Got
<1>6. r2.ok /\ r2.val = count /\ r2.rest = rest BY <1>4 DEF Got
<1>7. ZipBody(head \o rd) = Bind(r1, ZipBodyAfter) BY Zenon DEF ZipBody, ZipBodyAfter, ZipThen
<1>8. Bind(r1, ZipBodyAfter) = ZipBodyAfter(head, rd)
  <2> HIDE DEF r1
  <2> QED BY Zenon, <1>5 DEF Bind
<1>9. ZipBodyAfter(head, rd) = Bind(r2, ZipThen) BY DEF ZipBodyAfter
<1>10. Bind(r2, ZipThen) = ZipThen(count, rest)
  <2> HIDE DEF r2
  <2> QED BY Zenon, <1>6 DEF Bind
<1> QED BY Zenon, <1>7, <1>8, <1>9, <1>10 DEF rd

\* A known count.
LEMMA ZipThenReads ==
  \A entries, list : \A rest \in Bytes :
    ReadsAll("ziplist", entries, list) /\ Len(list) \in Nat /\ Len(list) < Unknown
    => ZipThen(Len(list), entries \o rest) = Ending(list, rest)
<1> TAKE entries, list
<1> TAKE rest \in Bytes
<1> HAVE ReadsAll("ziplist", entries, list) /\ Len(list) \in Nat /\ Len(list) < Unknown
<1> DEFINE n == Len(list)
           rd == entries \o rest
<1>1. ReadTimes(n, ZipEntry, rd) = Got(list, rest)
  <2>1. PICK f : UpTo(f, "ziplist", n, rd) /\ ReadTimes(n, ZipEntry, rd) = f[n]
    BY ReadTimesZipped DEF Times
  <2>2. f[n] = Got(list, rest) BY Zenon, <2>1, CountsItself DEF ReadsAll
  <2> QED BY <2>1, <2>2
<1>2. n # Unknown BY UnknownAssumption
<1> QED BY Zenon, <1>1, <1>2 DEF ZipThen, Ending

LEMMA ZipInside ==
  \A body \in Strings, steps \in Nat, rest \in Bytes :
    ReadZipList(Blob(body, steps) \o rest) = Outside(ZipBody(body), rest)
<1> TAKE body \in Strings, steps \in Nat, rest \in Bytes
<1> DEFINE rd == Blob(body, steps) \o rest
           r == ReadString(rd)
<1>1. r = Got(body, rest) BY InsideReads DEF Strings
<1>2. ReadZipList(rd) = Bind(r, LAMBDA bytes, left : Outside(ZipBody(bytes), left))
  BY Zenon DEF ReadZipList, Inside, Outside
<1> HIDE DEF r, rd
<1>3. r.ok /\ r.val = body /\ r.rest = rest BY <1>1 DEF Got
<1>4. Bind(r, LAMBDA bytes, left : Outside(ZipBody(bytes), left)) = Outside(ZipBody(body), rest)
  BY Zenon, <1>3 DEF Bind
<1> QED BY <1>2, <1>4 DEF rd

\* The string that ZipListBytes puts its list into.
ZipOf(list, steps) ==
  LET entries == ZipEntries(list, steps)
  IN IntBytes(Len(entries) + 11, 4) \o IntBytes(10, 4) \o CountBytes(Len(list)) \o entries \o <<255>>

\* It has eleven bytes besides the entries, whose length it can tell.
Zippable(list, steps) == list \in Seq(Strings) /\ Len(ZipEntries(list, steps)) + 11 \in Word

LEMMA ZipParts ==
  \A list, steps :
    steps \in Nat /\ Zippable(list, steps)
    => \E head \in Bytes :
         /\ Len(head) = 8
         /\ ZipOf(list, steps)
              = head \o (CountBytes(Len(list)) \o (ZipEntries(list, steps) \o <<255>>))
         /\ ZipOf(list, steps) \in Strings
<1> SUFFICES ASSUME NEW list, NEW steps \in Nat, Zippable(list, steps)
             PROVE  \E head \in Bytes :
                      /\ Len(head) = 8
                      /\ ZipOf(list, steps)
                           = head \o (CountBytes(Len(list)) \o (ZipEntries(list, steps) \o <<255>>))
                      /\ ZipOf(list, steps) \in Strings
  OBVIOUS
<1>1. list \in Seq(Strings) /\ Len(list) \in Nat BY DEF Zippable
<1>2. PICK entries \in Bytes : entries = ZipEntries(list, steps)
  BY <1>1, ZipEntriesLoad DEF ReadsAll
<1>3. PICK n \in Nat : n = Len(entries) + 11 /\ n \in Word BY <1>2 DEF Bytes, Zippable
<1>4. PICK w \in Nat : w = 4 OBVIOUS
<1>5. PICK total \in Bytes : total = IntBytes(n, w) /\ Len(total) = w
  <2>1. n \in Int OBVIOUS
  <2> QED BY Zenon, <2>1, IntBytesType
<1>6. PICK ten \in Nat : ten = 10 OBVIOUS
<1>7. PICK offset \in Bytes : offset = IntBytes(ten, w) /\ Len(offset) = w
  <2>1. ten \in Int OBVIOUS
  <2> QED BY Zenon, <2>1, IntBytesType
<1>8. PICK count \in Bytes : count = CountBytes(Len(list)) /\ Len(count) = 2 BY <1>1, CountRead
<1>9. PICK end \in Bytes : end = <<255>> /\ Len(end) = 1
  <2>1. 255 \in Byte BY DEF Byte
  <2>2. <<255>> \in Bytes /\ Len(<<255>>) = 1 BY <2>1 DEF Bytes
  <2> QED BY <2>2
<1>15. ASSUME NEW front \in Bytes PROVE (front \o entries) \o end = front \o (entries \o end)
  <2>1. entries \in Bytes /\ end \in Bytes OBVIOUS
  <2> QED BY <2>1, BytesAssociate
<1> DEFINE head == total \o offset
           zip == head \o count \o entries \o end
<1>10. head \in Bytes /\ Len(head) = w + w BY <1>5, <1>7, BytesConcat
<1> HIDE DEF head
<1>11. zip = head \o (count \o (entries \o end))
  <2>1. head \o count \in Bytes /\ entries \o end \in Bytes BY <1>10, BytesConcat
  <2>2. zip = (head \o count) \o (entries \o end)
    <3> HIDE DEF zip
    <3>1. zip = (head \o count) \o entries \o end BY DEF zip
    <3> QED BY Zenon, <1>15, <2>1, <3>1
  <2>3. (head \o count) \o (entries \o end) = head \o (count \o (entries \o end))
    BY ZenonT(40), <1>10, <2>1, BytesAssociate
  <2> QED BY Zenon, <2>2, <2>3
<1>12. zip \in Bytes /\ Len(zip) = n
  <2>1. zip \in Bytes /\ Len(zip) = Len(head) + Len(count) + Len(entries) + Len(end)
    <3>1. head \o count \in Bytes /\ Len(head \o count) = Len(head) + Len(count)
      BY Zenon, <1>10, BytesConcat
    <3>2. /\ (head \o count) \o entries \in Bytes
          /\ Len((head \o count) \o entries) = Len(head \o count) + Len(entries)
      BY Zenon, <3>1, BytesConcat
    <3>3. zip \in Bytes /\ Len(zip) = Len((head \o count) \o entries) + Len(end)
      BY Zenon, <3>2, BytesConcat
    <3> HIDE DEF zip
    <3> QED BY Zenon, <3>1, <3>2, <3>3
  <2>2. Len(entries) \in Nat BY DEF Bytes
  <2> HIDE DEF zip
  <2> QED BY <1>3, <1>4, <1>8, <1>9, <1>10, <2>1, <2>2
<1> HIDE DEF zip
<1>13. ZipOf(list, steps) = zip
  BY <1>2, <1>3, <1>4, <1>5, <1>6, <1>7, <1>8, <1>9 DEF ZipOf, zip, head
<1>14. Len(head) = 8 BY <1>4, <1>10
<1>16. ZipOf(list, steps) = head \o (CountBytes(Len(list)) \o (ZipEntries(list, steps) \o <<255>>))
  BY Zenon, <1>2, <1>8, <1>9, <1>11, <1>13
<1>17. ZipOf(list, steps) \in Strings
  <2>1. zip \in Strings BY <1>3, <1>12 DEF Strings
  <2> QED BY <1>13, <2>1
<1> QED BY Zenon, <1>10, <1>14, <1>16, <1>17

\* Results that are only a beginning of the list.
FallsShort(result, list, rest) ==
  \/ result = Panicked
  \/ \E vals \in Seq(Strings), more \in Seq(Strings) :
       more # <<>> /\ list = vals \o more /\ result = Got(vals, rest)

\* ReadZipList: a ziplist is read as its elements, and not a byte more of the
\* file, while the count in its header is known; with an unknown count it panics
\* or loses elements from the end, whatever they are and however they are encoded.
THEOREM ZipListsLoad ==
  \A list, steps, rest :
    steps \in Nat /\ Zippable(list, steps) /\ rest \in Bytes
    => IF Len(list) < Unknown
       THEN ReadZipList(ZipListBytes(list, steps) \o rest) = Got(list, rest)
       ELSE FallsShort(ReadZipList(ZipListBytes(list, steps) \o rest), list, rest)
<1> SUFFICES ASSUME NEW list, NEW steps \in Nat, NEW rest \in Bytes, Zippable(list, steps)
             PROVE  IF Len(list) < Unknown
                    THEN ReadZipList(ZipListBytes(list, steps) \o rest) = Got(list, rest)
                    ELSE FallsShort(ReadZipList(ZipListBytes(list, steps) \o rest), list, rest)
  OBVIOUS
<1>1. list \in Seq(Strings) /\ Len(list) \in Nat BY DEF Zippable
<1> DEFINE n == Len(list)
           counter == CountBytes(n)
           entries == ZipEntries(list, steps)
           zip == ZipOf(list, steps)
           result == ReadZipList(ZipListBytes(list, steps) \o rest)
<1>2. /\ counter \in Bytes /\ Len(counter) = 2 /\ LittleEndian(counter) = Count(n)
      /\ Count(n) \in Nat /\ Count(n) = IF n <= Unknown THEN n ELSE Unknown
  BY <1>1, CountRead
<1>3. PICK head \in Bytes : /\ Len(head) = 8 /\ zip = head \o (counter \o (entries \o <<255>>))
                            /\ zip \in Strings
  <2>1. \E head \in Bytes :
          /\ Len(head) = 8
          /\ ZipOf(list, steps)
               = head \o (CountBytes(Len(list)) \o (ZipEntries(list, steps) \o <<255>>))
          /\ ZipOf(list, steps) \in Strings
    BY Zenon, ZipParts
  <2> QED BY Zenon, <2>1
<1>4. result = Outside(ZipBody(zip), rest)
  <2>1. ZipListBytes(list, steps) = Blob(zip, steps) BY Zenon DEF ZipListBytes, ZipOf
  <2> HIDE DEF zip
  <2> QED BY <1>3, <2>1, ZipInside
<1>5. ReadsAll("ziplist", entries, list) /\ Extends(entries, list) /\ entries \in Bytes
  BY <1>1, ZipEntriesLoad DEF ReadsAll
<1>6. PICK end \in Bytes : end = <<255>>
  <2>1. 255 \in Byte BY DEF Byte
  <2>2. <<255>> \in Bytes BY <2>1 DEF Bytes
  <2> QED BY <2>2
<1> HIDE DEF counter, entries, zip, result
<1>7. ZipBody(zip) = ZipThen(Count(n), entries \o end)
  <2>1. IsZipBody(head, counter, Count(n)) BY <1>2, <1>3 DEF IsZipBody
  <2>2. entries \o end \in Bytes BY <1>5, BytesConcat
  <2>3. ZipBody(head \o (counter \o (entries \o end))) = ZipThen(Count(n), entries \o end)
    BY <2>1, <2>2, ZipBodyIsThen
  <2> QED BY <1>3, <1>6, <2>3
<1>8. CASE n < Unknown
  <2>1. Count(n) = n BY <1>1, <1>2, <1>8, UnknownAssumption
  <2>2. ZipThen(n, entries \o end) = Ending(list, end)
    <3>1. ReadsAll("ziplist", entries, list) /\ Len(list) \in Nat /\ Len(list) < Unknown
          => ZipThen(Len(list), entries \o end) = Ending(list, end)
      BY ZipThenReads
    <3> QED BY <1>1, <1>5, <1>8, <3>1
  <2>3. Ending(list, end) = Got(list, <<>>)
    <3>1. 255 \in Byte /\ <<>> \in Bytes /\ <<255>> = <<255>> \o <<>> BY DEF Byte, Bytes
    <3>2. Ending(list, <<255>> \o <<>>) = IF 255 = 255 THEN Got(list, <<>>) ELSE Panicked
      BY ZenonT(40), <3>1, EndingReads
    <3> QED BY <1>6, <3>1, <3>2
  <2>4. result = Got(list, rest) BY Zenon, <1>4, <1>7, <2>1, <2>2, <2>3, OutsideGot
  <2> QED BY <1>8, <2>4 DEF result
<1>9. CASE ~(n < Unknown)
  <2>1. Count(n) = Unknown BY <1>1, <1>2, <1>9, UnknownAssumption
  <2> DEFINE r == ZipEntriesToFE(entries \o end)
  <2>2. ZipBody(zip) = r BY <1>7, <2>1 DEF ZipThen
  <2>3. StopsShort(entries \o end, list)
    <3>1. StopsShort(end, <<>>) BY <1>6, EndStopsShort
    <3>2. <<>> \in Seq(Strings) /\ list \o <<>> = list BY <1>1
    <3>3. StopsShort(entries \o end, list \o <<>>) BY Zenon, <1>5, <3>1, <3>2 DEF Extends
    <3> QED BY <3>2, <3>3
  <2>4. FallsShort(result, list, rest)
    <3>1. CASE r = Panicked
      <4>1. result = Panicked BY Zenon, <1>4, <2>2, <3>1, OutsidePanic
      <4> QED BY <4>1 DEF FallsShort
    <3>2. CASE \E v \in Seq(Strings), more \in Seq(Strings), left \in Bytes :
                 more # <<>> /\ list = v \o more /\ r = Got(v, left)
      <4>1. PICK v \in Seq(Strings), more \in Seq(Strings), left \in Bytes :
              more # <<>> /\ list = v \o more /\ r = Got(v, left)
        BY <3>2
      <4>2. result = Got(v, rest) BY Zenon, <1>4, <2>2, <4>1, OutsideGot
      <4> QED BY Zenon, <4>1, <4>2 DEF FallsShort
    <3> QED BY Zenon, <2>3, <3>1, <3>2 DEF StopsShort
  <2> QED BY <1>9, <2>4 DEF result
<1> QED BY <1>8, <1>9

---------------------------------------------------------------------------
(* Lists that fit the lengths in their headers *)

\* Strings of up to a million bytes, and what a thousand of them take.
Moderate == {s \in Bytes : Len(s) <= 1000000}

AtMost(bytes, n) == bytes \in Bytes /\ Len(bytes) <= 1000014 * n

LEMMA ModerateFits == Moderate \subseteq Strings
<1> SUFFICES ASSUME NEW s \in Moderate PROVE s \in Strings OBVIOUS
<1>1. s \in Bytes /\ Len(s) \in Nat /\ Len(s) <= 1000000 BY SMT DEF Moderate, Bytes
<1>2. Len(s) \in Word BY SMT, <1>1 DEF Word, Greatest
<1> QED BY <1>1, <1>2 DEF Strings

LEMMA AtMostMore ==
  \A n \in Nat, bytes, piece \in Bytes, s \in Moderate :
    AtMost(bytes, n) /\ Len(piece) <= 14 + Len(s) => AtMost(bytes \o piece, n + 1)
<1> TAKE n \in Nat, bytes, piece \in Bytes, s \in Moderate
<1> HAVE AtMost(bytes, n) /\ Len(piece) <= 14 + Len(s)
<1>1. bytes \o piece \in Bytes /\ Len(bytes \o piece) = Len(bytes) + Len(piece) BY BytesConcat
<1>2. PICK a \in Nat : a = Len(bytes) /\ a <= 1000014 * n BY SMT DEF AtMost, Bytes
<1>3. PICK b \in Nat : b = Len(piece) /\ b <= 1000014
  <2>1. Len(s) \in Nat /\ Len(s) <= 1000000 /\ Len(piece) \in Nat BY SMT DEF Moderate, Bytes
  <2> QED BY SMT, <2>1
<1>4. a + b <= 1000014 * (n + 1) BY SMT, <1>2, <1>3
<1> QED BY SMT, <1>1, <1>2, <1>3, <1>4 DEF AtMost

LEMMA AtMostNone == AtMost(<<>>, 0) BY SMT DEF AtMost, Bytes

LEMMA EntriesAreAtMost ==
  \A steps \in Nat, list \in Seq(Moderate) : AtMost(EntriesOf(list, steps), Len(list))
<1> TAKE steps \in Nat
<1> DEFINE Fit(list) == AtMost(EntriesOf(list, steps), Len(list))
           T == {list \in Seq(Moderate) : Fit(list)}
<1>1. <<>> \in T
  <2>1. Len(<<>>) = 0 OBVIOUS
  <2>2. Fit(<<>>) BY <2>1, EntriesOfNone, AtMostNone
  <2> HIDE DEF Fit
  <2> QED BY <2>2
<1>2. ASSUME NEW list \in T, NEW s \in Moderate PROVE Append(list, s) \in T
  <2>1. list \in Seq(Moderate) /\ AtMost(EntriesOf(list, steps), Len(list)) OBVIOUS
  <2>2. s \in Strings /\ list \in Seq(Strings) BY <2>1, ModerateFits
  <2>3. PICK piece : piece = ListpackEntryBytes(s, steps) /\ IsEntry(piece, s) BY <2>2, EntryType
  <2>4. piece \in Bytes /\ Len(piece) <= 14 + Len(s) BY <2>3 DEF IsEntry
  <2>5. PICK n \in Nat : n = Len(list) BY <2>1
  <2>6. PICK entries \in Bytes : entries = EntriesOf(list, steps) BY SMT, <2>1 DEF AtMost
  <2>7. AtMost(entries \o piece, n + 1) BY <2>1, <2>4, <2>5, <2>6, AtMostMore
  <2>8. EntriesOf(Append(list, s), steps) = entries \o piece
    BY <2>2, <2>3, <2>6, EntriesOfMore
  <2>9. Len(Append(list, s)) = n + 1 /\ Append(list, s) \in Seq(Moderate) BY <2>1, <2>5
  <2>10. Fit(Append(list, s)) BY <2>7, <2>8, <2>9
  <2> HIDE DEF Fit
  <2> QED BY <2>9, <2>10
<1>3. T = Seq(Moderate)
  <2> HIDE DEF T
  <2>1. T \in SUBSET Seq(Moderate) BY DEF T
  <2> QED BY <1>1, <1>2, <2>1, SequenceInduction
<1> QED BY <1>3

LEMMA ZipEntriesAreAtMost ==
  \A steps \in Nat, list \in Seq(Moderate) : AtMost(ZipEntries(list, steps), Len(list))
<1> TAKE steps \in Nat, list \in Seq(Moderate)
<1> DEFINE n == Len(list)
<1>1. n \in Nat OBVIOUS
<1>2. PICK f : ZipsUpTo(f, list, steps, n) /\ ZipEntries(list, steps) = f[n].bytes
  BY <1>1, ZipEntriesUpTo
<1>3. \A i \in 0 .. n : f[i] = IF i = 0 THEN NoZip ELSE ZipPut(f[i - 1], list[i], steps)
  <2> DEFINE Step(i) == IF i = 0 THEN NoZip ELSE ZipPut(f[i - 1], list[i], steps)
  <2>1. f = [i \in 0 .. n |-> Step(i)] BY Zenon, <1>2 DEF ZipsUpTo
  <2> HIDE DEF Step
  <2>2. \A i \in 0 .. n : f[i] = Step(i) BY <2>1
  <2> QED BY Zenon, <2>2 DEF Step
<1> DEFINE Fit(i) == AtMost(f[i].bytes, i) /\ f[i].last \in Nat
           N == {i \in Nat : i <= n => Fit(i)}
<1>4. 0 \in N
  <2>1. 0 \in 0 .. n BY <1>1
  <2>2. f[0] = NoZip BY Zenon, <1>3, <2>1
  <2>3. NoZip.bytes = <<>> /\ NoZip.last = 0 BY DEF NoZip
  <2>4. Fit(0) BY <2>2, <2>3, AtMostNone
  <2> HIDE DEF Fit
  <2> QED BY <2>4
<1>5. ASSUME NEW i \in N PROVE i + 1 \in N
  <2>1. i \in Nat /\ i + 1 \in Nat OBVIOUS
  <2>2. CASE i + 1 <= n
    <3> DEFINE j == i + 1
               s == list[j]
               prev == f[i]
               piece == ZipEntryBytes(prev.last, s, steps)
    <3>1. i <= n /\ Fit(i) BY <1>1, <2>1, <2>2
    <3>2. s \in Moderate /\ s \in Strings BY <1>1, <2>1, <2>2, ModerateFits
    <3>3. j \in 0 .. n /\ j # 0 /\ j - 1 = i BY <1>1, <2>1, <2>2
    <3>4. f[j] = ZipPut(prev, s, steps)
      <4> HIDE DEF j
      <4>1. f[j] = ZipPut(f[j - 1], list[j], steps) BY Zenon, <1>3, <3>3
      <4> QED BY <3>3, <4>1
    <3>5. AtMost(prev.bytes, i) /\ prev.bytes \in Bytes /\ prev.last \in Nat
      BY SMT, <3>1 DEF AtMost
    <3> HIDE DEF s, prev, Fit
    <3>6. piece \in Bytes /\ Len(piece) <= 14 + Len(s) BY <3>2, <3>5, ZipListEntriesLoad
    <3>7. f[j].bytes = prev.bytes \o piece /\ f[j].last = Len(piece)
      <4> DEFINE put == ZipPut(prev, s, steps)
      <4>1. put = [bytes |-> prev.bytes \o piece, last |-> Len(piece)] BY Zenon DEF ZipPut
      <4>2. f[j] = put BY <3>4
      <4> HIDE DEF put, piece, j
      <4> QED BY <4>1, <4>2
    <3> HIDE DEF piece
    <3>8. AtMost(prev.bytes \o piece, j)
      <4>1. AtMost(prev.bytes \o piece, i + 1) BY <2>1, <3>2, <3>5, <3>6, AtMostMore
      <4> QED BY <4>1
    <3>9. Len(piece) \in Nat BY <3>6 DEF Bytes
    <3> HIDE DEF j
    <3>10. Fit(j) BY <3>7, <3>8, <3>9 DEF Fit
    <3> QED BY <2>1, <3>10 DEF j
  <2>3. CASE ~(i + 1 <= n) BY <2>1, <2>3
  <2> QED BY <2>2, <2>3
<1>6. N = Nat
  <2>1. N \in SUBSET Nat OBVIOUS
  <2> HIDE DEF N
  <2> QED BY <1>4, <1>5, <2>1, NumberInduction
<1>7. Fit(n) BY <1>1, <1>6
<1> QED BY <1>2, <1>7

\* A thousand strings of a million bytes can be told by the headers.
LEMMA ModerateListsFit ==
  \A list \in Seq(Moderate), steps \in Nat :
    Len(list) <= 1000 => Packable(list, steps) /\ Zippable(list, steps)
<1> TAKE list \in Seq(Moderate), steps \in Nat
<1> HAVE Len(list) <= 1000
<1>1. PICK n \in Nat : n = Len(list) /\ n <= 1000 OBVIOUS
<1>2. list \in Seq(Strings) BY ModerateFits
<1>3. PICK a \in Nat : a = Len(EntriesOf(list, steps)) /\ a <= 1000014 * n
  BY SMT, <1>1, EntriesAreAtMost DEF AtMost, Bytes
<1>4. PICK b \in Nat : b = Len(ZipEntries(list, steps)) /\ b <= 1000014 * n
  BY SMT, <1>1, ZipEntriesAreAtMost DEF AtMost, Bytes
<1>5. a + 7 \in Word /\ b + 11 \in Word BY SMT, <1>1, <1>3, <1>4 DEF Word, Greatest
<1> QED BY SMT, <1>2, <1>3, <1>4, <1>5 DEF Packable, Zippable

---------------------------------------------------------------------------
(* Decompression *)

\* The length of a back reference, from the control byte and the reader after it.
RunLength(ctrl, rest) ==
  IF ctrl \div 32 = 7 THEN Convert(ReadByte(rest), LAMBDA b : 7 + b) ELSE Got(ctrl \div 32, rest)

\* The rest of a back reference, and what f makes of the reader after it.
RefThen(f, out, ctrl, len, rest) ==
  Bind(ReadByte(rest), LAMBDA low, left :
    LET ref == Len(out) - (ctrl % 32) * 256 - low - 1
    IN IF ref < 0 THEN Panicked ELSE f[<<left, out \o Copied(out, ref, len + 2)>>])

LiteralThen(f, out, ctrl, rest) ==
  Bind(ReadBytes(rest, ctrl + 1), LAMBDA literal, left : f[<<left, out \o literal>>])

BackThen(f, out, ctrl, rest) ==
  Bind(RunLength(ctrl, rest), LAMBDA len, left : RefThen(f, out, ctrl, len, left))

\* What is made of in when f says what is made of the rest of it.
LzfStep(f, in, out) ==
  CASE in = <<>> -> Got(out, in)
    [] in # <<>> /\ Head(in) < 32 -> LiteralThen(f, out, Head(in), Tail(in))
    [] OTHER -> BackThen(f, out, Head(in), Tail(in))

\* The function that lzf chooses.
Decompresses(f) == f = [p \in Seq(Byte) \X Seq(Byte) |-> LzfStep(f, p[1], p[2])]

LEMMA LzfIsChosen == lzf = CHOOSE f : Decompresses(f)
  BY Zenon DEF lzf, Decompresses, LzfStep, LiteralThen, BackThen, RefThen, RunLength

LEMMA GotHas == \A val, rest : Got(val, rest).ok /\ Got(val, rest).val = val /\ Got(val, rest).rest = rest
  BY DEF Got

LEMMA PanicIsNot == ~Panicked.ok BY DEF Panicked

LEMMA LiteralReads ==
  \A f, out, ctrl, rest, literal, left :
    ReadBytes(rest, ctrl + 1) = Got(literal, left)
      => LiteralThen(f, out, ctrl, rest) = f[<<left, out \o literal>>]
<1> SUFFICES ASSUME NEW f, NEW out, NEW ctrl, NEW rest, NEW literal, NEW left,
                    ReadBytes(rest, ctrl + 1) = Got(literal, left)
             PROVE  LiteralThen(f, out, ctrl, rest) = f[<<left, out \o literal>>]
  OBVIOUS
<1> DEFINE r == ReadBytes(rest, ctrl + 1)
<1>1. r.ok /\ r.val = literal /\ r.rest = left BY GotHas
<1> QED BY Zenon, <1>1 DEF LiteralThen, Bind

LEMMA LiteralPanics ==
  \A f, out, ctrl, rest : ReadBytes(rest, ctrl + 1) = Panicked => LiteralThen(f, out, ctrl, rest) = Panicked
  BY Zenon, PanicIsNot DEF LiteralThen, Bind

LEMMA BackReads ==
  \A f, out, ctrl, rest, len, left :
    RunLength(ctrl, rest) = Got(len, left)
      => BackThen(f, out, ctrl, rest) = RefThen(f, out, ctrl, len, left)
<1> SUFFICES ASSUME NEW f, NEW out, NEW ctrl, NEW rest, NEW len, NEW left,
                    RunLength(ctrl, rest) = Got(len, left)
             PROVE  BackThen(f, out, ctrl, rest) = RefThen(f, out, ctrl, len, left)
  OBVIOUS
<1> DEFINE r == RunLength(ctrl, rest)
<1>1. r.ok /\ r.val = len /\ r.rest = left BY GotHas
<1> QED BY Zenon, <1>1 DEF BackThen, Bind

LEMMA BackPanics ==
  \A f, out, ctrl, rest : RunLength(ctrl, rest) = Panicked => BackThen(f, out, ctrl, rest) = Panicked
  BY Zenon, PanicIsNot DEF BackThen, Bind

\* low and the control byte reach back to the byte ref of out.
Reaches(out, ctrl, low, ref) == ref = Len(out) - (ctrl % 32) * 256 - low - 1

\* What a reference to the byte ref leads to.
Copies(f, out, ref, n, left) == IF ref < 0 THEN Panicked ELSE f[<<left, out \o Copied(out, ref, n + 2)>>]

LEMMA RefReads ==
  \A f, out, ctrl, len, rest, low, left, ref :
    ReadByte(rest) = Got(low, left) /\ Reaches(out, ctrl, low, ref)
      => RefThen(f, out, ctrl, len, rest)
           = Copies(f, out, ref, len, left)
<1> SUFFICES ASSUME NEW f, NEW out, NEW ctrl, NEW len, NEW rest, NEW low, NEW left, NEW ref,
                    ReadByte(rest) = Got(low, left), Reaches(out, ctrl, low, ref)
             PROVE  RefThen(f, out, ctrl, len, rest)
                      = Copies(f, out, ref, len, left)
  OBVIOUS
<1> DEFINE r == ReadByte(rest)
<1>1. r.ok /\ r.val = low /\ r.rest = left BY GotHas
<1> QED BY Zenon, <1>1 DEF RefThen, Bind, Reaches, Copies

LEMMA RefPanics ==
  \A f, out, ctrl, len, rest : ReadByte(rest) = Panicked => RefThen(f, out, ctrl, len, rest) = Panicked
  BY Zenon, PanicIsNot DEF RefThen, Bind

---------------------------------------------------------------------------
(* The function exists *)

Pieces == Seq(Byte) \X Seq(Byte)

\* Results of decompression.
Texts == {Panicked} \cup {Got(p[1], p[2]) : p \in Pieces}

\* How to go on from in and out: with a result, or with less of in.
GoesOn(in, out) ==
  \/ \E r \in Texts : \A f : LzfStep(f, in, out) = r
  \/ \E rest, more \in Bytes : Len(rest) < Len(in) /\ \A f : LzfStep(f, in, out) = f[<<rest, more>>]

LEMMA TextsHave == Panicked \in Texts /\ \A val, rest \in Bytes : Got(val, rest) \in Texts
<1>1. Panicked \in Texts BY DEF Texts
<1>2. ASSUME NEW val \in Bytes, NEW rest \in Bytes PROVE Got(val, rest) \in Texts
  <2> DEFINE p == <<val, rest>>
  <2>1. p \in Pieces /\ p[1] = val /\ p[2] = rest BY DEF Pieces, Bytes
  <2> HIDE DEF p
  <2> QED BY Zenon, <2>1 DEF Texts
<1> QED BY <1>1, <1>2

LEMMA RunLengthReturns ==
  \A ctrl \in Byte, rest \in Bytes : Returns(RunLength(ctrl, rest), Nat, Len(rest))
<1> TAKE ctrl \in Byte, rest \in Bytes
<1>1. CASE ctrl \div 32 = 7
  <2> DEFINE r == ReadByte(rest)
  <2>1. RunLength(ctrl, rest) = Convert(r, LAMBDA b : 7 + b) BY <1>1 DEF RunLength
  <2>2. CASE r = Panicked
    <3>1. ~r.ok BY <2>2 DEF Panicked
    <3> HIDE DEF r
    <3>2. Convert(r, LAMBDA b : 7 + b) = Panicked BY <3>1 DEF Convert, Bind
    <3> QED BY <2>1, <3>2, PanicReturns
  <2>3. CASE \E b \in Byte, left \in Bytes : r = Got(b, left) /\ Len(left) < Len(rest)
    <3>1. PICK b \in Byte, left \in Bytes : r = Got(b, left) /\ Len(left) < Len(rest) BY <2>3
    <3>2. r.ok /\ r.val = b /\ r.rest = left BY <3>1 DEF Got
    <3> HIDE DEF r
    <3>3. Convert(r, LAMBDA v : 7 + v) = Got(7 + b, left) BY <3>2 DEF Convert, Bind
    <3>4. 7 + b \in Nat /\ Len(left) <= Len(rest) BY <3>1 DEF Byte, Bytes
    <3> QED BY <2>1, <3>3, <3>4, GotReturns
  <2> QED BY <2>2, <2>3, ByteReturns
<1>2. CASE ctrl \div 32 # 7
  <2>1. RunLength(ctrl, rest) = Got(ctrl \div 32, rest) BY <1>2 DEF RunLength
  <2>2. ctrl \div 32 \in Nat /\ Len(rest) <= Len(rest) BY DEF Byte, Bytes
  <2> QED BY <2>1, <2>2, GotReturns
<1> QED BY <1>1, <1>2

LEMMA RemainderBelow == \A p \in Nat : \A a \in Nat : p > 0 => a % p >= 0 /\ a % p < p /\ a % p \in Int OBVIOUS

LEMMA CopiedType ==
  \A out \in Bytes, ref \in Nat, n \in Nat : ref < Len(out) => out \o Copied(out, ref, n) \in Bytes
<1> TAKE out \in Bytes, ref \in Nat, n \in Nat
<1> HAVE ref < Len(out)
<1>1. Len(out) \in Nat /\ Len(out) - ref \in Nat \ {0} BY DEF Bytes
<1>2. ASSUME NEW x \in 1 .. n PROVE out[ref + 1 + ((x - 1) % (Len(out) - ref))] \in Byte
  <2> DEFINE p == Len(out) - ref
             k == (x - 1) % p
  <2>1. p \in Nat /\ p > 0 /\ x - 1 \in Nat BY <1>1
  <2> HIDE DEF p
  <2>3. k >= 0 /\ k < p /\ k \in Int BY <2>1, RemainderBelow
  <2> HIDE DEF k
  <2> USE DEF p
  <2>2. ref + 1 + k \in 1 .. Len(out) BY <1>1, <2>3
  <2> QED BY <2>2 DEF k, Bytes
<1>3. Copied(out, ref, n) \in Seq(Byte) BY <1>2 DEF Copied
<1> QED BY <1>3 DEF Bytes

LEMMA LzfGoesOn == \A in, out \in Bytes : GoesOn(in, out)
<1> TAKE in, out \in Bytes
<1>1. CASE in = <<>>
  <2>1. \A f : LzfStep(f, in, out) = Got(out, in) BY Zenon, <1>1 DEF LzfStep
  <2>2. Got(out, in) \in Texts BY TextsHave
  <2> QED BY Zenon, <2>1, <2>2 DEF GoesOn
<1>2. CASE in # <<>>
  <2>1. PICK ctrl \in Byte, rest \in Bytes : ctrl = Head(in) /\ rest = Tail(in) /\ Len(in) = Len(rest) + 1
    <3>1. Head(in) \in Byte /\ Tail(in) \in Bytes /\ Len(in) = Len(Tail(in)) + 1 BY <1>2 DEF Bytes
    <3> QED BY <3>1
  <2>2. Len(rest) \in Nat BY DEF Bytes
  <2>3. CASE ctrl < 32
    <3>1. \A f : LzfStep(f, in, out) = LiteralThen(f, out, ctrl, rest)
      BY Zenon, <1>2, <2>1, <2>3 DEF LzfStep
    <3>2. CASE ReadBytes(rest, ctrl + 1) = Panicked
      <4>1. \A f : LzfStep(f, in, out) = Panicked BY Zenon, <3>1, <3>2, LiteralPanics
      <4> QED BY Zenon, <4>1, TextsHave DEF GoesOn
    <3>3. CASE \E x, t \in Bytes : ReadBytes(rest, ctrl + 1) = Got(x, t) /\ Len(t) <= Len(rest)
      <4>1. PICK x, t \in Bytes : ReadBytes(rest, ctrl + 1) = Got(x, t) /\ Len(t) <= Len(rest) BY <3>3
      <4>2. ASSUME NEW f PROVE LzfStep(f, in, out) = f[<<t, out \o x>>]
        <5>1. LiteralThen(f, out, ctrl, rest) = f[<<t, out \o x>>] BY <4>1, LiteralReads
        <5> QED BY <3>1, <5>1
      <4>3. out \o x \in Bytes /\ Len(t) < Len(in) BY <2>1, <2>2, <4>1 DEF Bytes
      <4> QED BY Zenon, <4>1, <4>2, <4>3 DEF GoesOn
    <3>4. Returns(ReadBytes(rest, ctrl + 1), Bytes, Len(rest)) BY TextReturns
    <3> QED BY Zenon, <3>2, <3>3, <3>4 DEF Returns
  <2>4. CASE ~(ctrl < 32)
    <3>1. \A f : LzfStep(f, in, out) = BackThen(f, out, ctrl, rest)
      BY Zenon, <1>2, <2>1, <2>4 DEF LzfStep
    <3>2. CASE RunLength(ctrl, rest) = Panicked
      <4>1. \A f : LzfStep(f, in, out) = Panicked BY Zenon, <3>1, <3>2, BackPanics
      <4> QED BY Zenon, <4>1, TextsHave DEF GoesOn
    <3>3. CASE \E n \in Nat, t \in Bytes : RunLength(ctrl, rest) = Got(n, t) /\ Len(t) <= Len(rest)
      <4>1. PICK n \in Nat, t \in Bytes : RunLength(ctrl, rest) = Got(n, t) /\ Len(t) <= Len(rest) BY <3>3
      <4>2. ASSUME NEW f PROVE LzfStep(f, in, out) = RefThen(f, out, ctrl, n, t)
        <5>1. BackThen(f, out, ctrl, rest) = RefThen(f, out, ctrl, n, t) BY <4>1, BackReads
        <5> QED BY <3>1, <5>1
      <4>3. CASE ReadByte(t) = Panicked
        <5>1. \A f : LzfStep(f, in, out) = Panicked BY Zenon, <4>2, <4>3, RefPanics
        <5> QED BY Zenon, <5>1, TextsHave DEF GoesOn
      <4>4. CASE \E b \in Byte, left \in Bytes : ReadByte(t) = Got(b, left) /\ Len(left) < Len(t)
        <5>1. PICK b \in Byte, left \in Bytes : ReadByte(t) = Got(b, left) /\ Len(left) < Len(t)
          BY <4>4
        <5>2. PICK ref : Reaches(out, ctrl, b, ref) BY DEF Reaches
        <5>5. ASSUME NEW f
              PROVE  LzfStep(f, in, out)
                       = Copies(f, out, ref, n, left)
          <6>1. RefThen(f, out, ctrl, n, t)
                  = Copies(f, out, ref, n, left)
            BY SMT, <5>1, <5>2, RefReads
          <6> QED BY Zenon, <4>2, <6>1
        <5>3. CASE ref < 0
          <6>1. \A f : LzfStep(f, in, out) = Panicked BY Zenon, <5>3, <5>5 DEF Copies
          <6> QED BY Zenon, <6>1, TextsHave DEF GoesOn
        <5>4. CASE ~(ref < 0)
          <6>1. \A f : LzfStep(f, in, out) = f[<<left, out \o Copied(out, ref, n + 2)>>]
            BY Zenon, <5>4, <5>5 DEF Copies
          <6>2. ref \in Nat /\ ref < Len(out) /\ n + 2 \in Nat
            <7>1. Len(out) \in Nat /\ ctrl % 32 \in Nat /\ b \in Nat BY DEF Bytes, Byte
            <7> QED BY <5>2, <5>4, <7>1 DEF Reaches
          <6>3. out \o Copied(out, ref, n + 2) \in Bytes BY <6>2, CopiedType
          <6>4. Len(left) < Len(in) BY <2>1, <2>2, <4>1, <5>1 DEF Bytes
          <6> QED BY Zenon, <6>1, <6>3, <6>4 DEF GoesOn
        <5> QED BY <5>3, <5>4
      <4> QED BY <4>1, <4>3, <4>4, ByteReturns
    <3>4. Returns(RunLength(ctrl, rest), Nat, Len(rest)) BY RunLengthReturns
    <3> QED BY Zenon, <3>2, <3>3, <3>4 DEF Returns
  <2> QED BY <2>3, <2>4
<1> QED BY <1>1, <1>2

LEMMA DecompressionExists == \E f : Decompresses(f)
<1> DEFINE D == Pieces
           Step(g, p) == LzfStep(g, p[1], p[2])
           step == [g \in [D -> Texts] |-> [p \in D |-> Step(g, p)]]
           rank == [p \in D |-> Len(p[1])]
<1>1. ASSUME NEW g \in [D -> Texts], NEW p \in D PROVE Step(g, p) \in Texts
  <2>1. p[1] \in Bytes /\ p[2] \in Bytes BY DEF Pieces, Bytes
  <2>2. GoesOn(p[1], p[2]) BY <2>1, LzfGoesOn
  <2>3. CASE \E r \in Texts : \A f : LzfStep(f, p[1], p[2]) = r BY <2>3
  <2>4. CASE \E rest, more \in Bytes :
               Len(rest) < Len(p[1]) /\ \A f : LzfStep(f, p[1], p[2]) = f[<<rest, more>>]
    <3>1. PICK rest, more \in Bytes : LzfStep(g, p[1], p[2]) = g[<<rest, more>>] BY <2>4
    <3>2. <<rest, more>> \in D BY DEF Pieces, Bytes
    <3> QED BY <3>1, <3>2
  <2> QED BY <2>2, <2>3, <2>4 DEF GoesOn
<1>2. ASSUME NEW g \in [D -> Texts], NEW h \in [D -> Texts], NEW p \in D,
             \A q \in D : rank[q] < rank[p] => g[q] = h[q]
      PROVE  Step(g, p) = Step(h, p)
  <2>1. p[1] \in Bytes /\ p[2] \in Bytes BY DEF Pieces, Bytes
  <2>2. GoesOn(p[1], p[2]) BY <2>1, LzfGoesOn
  <2>3. CASE \E r \in Texts : \A f : LzfStep(f, p[1], p[2]) = r BY <2>3
  <2>4. CASE \E rest, more \in Bytes :
               Len(rest) < Len(p[1]) /\ \A f : LzfStep(f, p[1], p[2]) = f[<<rest, more>>]
    <3>1. PICK rest, more \in Bytes :
            Len(rest) < Len(p[1]) /\ \A f : LzfStep(f, p[1], p[2]) = f[<<rest, more>>]
      BY <2>4
    <3> DEFINE q == <<rest, more>>
    <3>2. q \in D /\ q[1] = rest BY DEF Pieces, Bytes
    <3> HIDE DEF q
    <3>3. rank[q] < rank[p] BY <3>1, <3>2
    <3>4. g[q] = h[q] BY <1>2, <3>2, <3>3
    <3> QED BY <3>1, <3>4 DEF q
  <2> QED BY <2>2, <2>3, <2>4 DEF GoesOn
<1>3. rank \in [D -> Nat] BY DEF Pieces
<1> HIDE DEF rank, D, Step
<1>4. Descends(step, rank, D, Texts)
  <2>1. \A g \in [D -> Texts] : step[g] = [p \in D |-> Step(g, p)] OBVIOUS
  <2>2. step \in [[D -> Texts] -> [D -> Texts]] BY <1>1
  <2> HIDE DEF step
  <2>3. \A g \in [D -> Texts], p \in D : step[g][p] = Step(g, p) BY <2>1
  <2> QED BY <1>2, <1>3, <2>2, <2>3 DEF Descends
<1>5. Texts # {} BY TextsHave
<1>6. PICK f : f \in [D -> Texts] /\ f = step[f]
  <2> HIDE DEF step
  <2> QED BY <1>4, <1>5, RecursionByRank
<1>7. f = [p \in D |-> Step(f, p)] BY <1>6 DEF step
<1>8. Decompresses(f) BY Zenon, <1>7 DEF Decompresses, D, Step, Pieces
<1> QED BY <1>8

LEMMA LzfUnfolds == \A in, out \in Bytes : lzf[<<in, out>>] = LzfStep(lzf, in, out)
<1>1. Decompresses(lzf) BY LzfIsChosen, DecompressionExists
<1> TAKE in, out \in Bytes
<1> DEFINE p == <<in, out>>
<1>2. p \in Seq(Byte) \X Seq(Byte) /\ p[1] = in /\ p[2] = out BY DEF Bytes
<1> HIDE DEF p
<1>3. lzf[p] = LzfStep(lzf, p[1], p[2]) BY <1>1, <1>2 DEF Decompresses
<1> QED BY <1>2, <1>3 DEF p

---------------------------------------------------------------------------
(* Literals *)

\* bytes are decompressed to s, whatever came before and whatever follows.
Inflates(bytes, s) ==
  /\ bytes \in Bytes /\ s \in Bytes
  /\ \A rest, out \in Bytes : lzf[<<bytes \o rest, out>>] = lzf[<<rest, out \o s>>]

LEMMA InflatesNone == Inflates(<<>>, <<>>)
<1>1. <<>> \in Bytes BY DEF Bytes
<1>2. \A s \in Bytes : <<>> \o s = s /\ s \o <<>> = s BY DEF Bytes
<1> QED BY Zenon, <1>1, <1>2 DEF Inflates

LEMMA InflatesBoth ==
  \A a, s, b, t : Inflates(a, s) /\ Inflates(b, t) => Inflates(a \o b, s \o t)
<1> SUFFICES ASSUME NEW a, NEW s, NEW b, NEW t, Inflates(a, s), Inflates(b, t)
             PROVE  Inflates(a \o b, s \o t)
  OBVIOUS
<1>1. a \in Bytes /\ s \in Bytes /\ b \in Bytes /\ t \in Bytes BY DEF Inflates
<1>2. a \o b \in Bytes /\ s \o t \in Bytes BY <1>1, BytesConcat
<1>3. ASSUME NEW rest \in Bytes, NEW out \in Bytes
      PROVE  lzf[<<(a \o b) \o rest, out>>] = lzf[<<rest, out \o (s \o t)>>]
  <2>1. b \o rest \in Bytes /\ out \o s \in Bytes BY <1>1, BytesConcat
  <2>2. (a \o b) \o rest = a \o (b \o rest) BY SMTT(30), <1>1, BytesAssociate
  <2>3. (out \o s) \o t = out \o (s \o t) BY <1>1, BytesAssociate
  <2>4. lzf[<<a \o (b \o rest), out>>] = lzf[<<b \o rest, out \o s>>] BY Zenon, <2>1 DEF Inflates
  <2>5. lzf[<<b \o rest, out \o s>>] = lzf[<<rest, (out \o s) \o t>>] BY Zenon, <2>1 DEF Inflates
  <2> QED BY Zenon, <2>2, <2>3, <2>4, <2>5
<1> QED BY Zenon, <1>1, <1>2, <1>3 DEF Inflates

\* ctrl is the first byte of in, and more what follows it.
FirstIn(in, ctrl, more) == ctrl \in Byte /\ more \in Bytes /\ in = <<ctrl>> \o more

LEMMA FirstInIs ==
  \A in, ctrl, more : FirstIn(in, ctrl, more) => /\ in \in Bytes /\ in # <<>>
                                                 /\ Head(in) = ctrl /\ Tail(in) = more
<1> SUFFICES ASSUME NEW ctrl \in Byte, NEW more \in Bytes
             PROVE  LET in == <<ctrl>> \o more
                    IN in \in Bytes /\ in # <<>> /\ Head(in) = ctrl /\ Tail(in) = more
  BY Zenon DEF FirstIn
<1> DEFINE in == <<ctrl>> \o more
<1>1. Len(in) = Len(more) + 1 /\ Len(more) \in Nat /\ in \in Bytes /\ in[1] = ctrl BY DEF Bytes
<1>2. in # <<>> /\ Head(in) = ctrl BY <1>1 DEF Bytes
<1>3. Tail(in) = more BY DEF Bytes
<1> QED BY <1>1, <1>2, <1>3

LEMMA LzfOfLiteral ==
  \A in, out, ctrl, more : FirstIn(in, ctrl, more) /\ out \in Bytes /\ ctrl < 32 =>
    lzf[<<in, out>>] = LiteralThen(lzf, out, ctrl, more)
<1> SUFFICES ASSUME NEW in, NEW out \in Bytes, NEW ctrl, NEW more, FirstIn(in, ctrl, more), ctrl < 32
             PROVE  lzf[<<in, out>>] = LiteralThen(lzf, out, ctrl, more)
  OBVIOUS
<1>1. in \in Bytes /\ in # <<>> /\ Head(in) = ctrl /\ Tail(in) = more BY FirstInIs
<1>2. lzf[<<in, out>>] = LzfStep(lzf, in, out) BY <1>1, LzfUnfolds
<1>3. LzfStep(lzf, in, out) = LiteralThen(lzf, out, ctrl, more) BY Zenon, <1>1 DEF LzfStep
<1> QED BY <1>2, <1>3

LEMMA LzfOfReference ==
  \A in, out, ctrl, more : FirstIn(in, ctrl, more) /\ out \in Bytes /\ ~(ctrl < 32) =>
    lzf[<<in, out>>] = BackThen(lzf, out, ctrl, more)
<1> SUFFICES ASSUME NEW in, NEW out \in Bytes, NEW ctrl, NEW more, FirstIn(in, ctrl, more), ~(ctrl < 32)
             PROVE  lzf[<<in, out>>] = BackThen(lzf, out, ctrl, more)
  OBVIOUS
<1>1. in \in Bytes /\ in # <<>> /\ Head(in) = ctrl /\ Tail(in) = more BY FirstInIs
<1>2. lzf[<<in, out>>] = LzfStep(lzf, in, out) BY <1>1, LzfUnfolds
<1>3. LzfStep(lzf, in, out) = BackThen(lzf, out, ctrl, more) BY Zenon, <1>1 DEF LzfStep
<1> QED BY <1>2, <1>3

LEMMA LiteralInflates ==
  \A s \in Bytes, n \in 1 .. 32 : Len(s) = n => Inflates(<<n - 1>> \o s, s)
<1> TAKE s \in Bytes, n \in 1 .. 32
<1> HAVE Len(s) = n
<1>1. PICK ctrl \in Byte : ctrl = n - 1 /\ ctrl < 32 /\ ctrl + 1 = n
  <2>1. n - 1 \in Byte /\ n - 1 < 32 /\ (n - 1) + 1 = n BY DEF Byte
  <2> QED BY <2>1
<1>2. <<ctrl>> \in Bytes BY DEF Bytes
<1>3. <<ctrl>> \o s \in Bytes BY <1>2, BytesConcat
<1>4. ASSUME NEW rest \in Bytes, NEW out \in Bytes
      PROVE  lzf[<<(<<ctrl>> \o s) \o rest, out>>] = lzf[<<rest, out \o s>>]
  <2> DEFINE in == (<<ctrl>> \o s) \o rest
             more == s \o rest
  <2>1. in = <<ctrl>> \o more /\ more \in Bytes BY <1>2, BytesAssociate, BytesConcat
  <2>2. FirstIn(in, ctrl, more) BY <2>1 DEF FirstIn
  <2>3. ReadBytes(more, ctrl + 1) = Got(s, rest) BY <1>1, BytesRead DEF Begins
  <2> HIDE DEF in, more
  <2>4. lzf[<<in, out>>] = LiteralThen(lzf, out, ctrl, more) BY <1>1, <2>2, LzfOfLiteral
  <2>5. LiteralThen(lzf, out, ctrl, more) = lzf[<<rest, out \o s>>] BY <2>3, LiteralReads
  <2> QED BY <2>4, <2>5 DEF in
<1>5. Inflates(<<ctrl>> \o s, s) BY <1>3, <1>4 DEF Inflates
<1> QED BY <1>1, <1>5

\* How many bytes Literals takes at i.
Takes(s, i) == Min({32, Len(s) - i})

LiteralsFrom(f, s, i) ==
  IF i = Len(s) THEN <<>>
  ELSE <<Takes(s, i) - 1>> \o SubSeq(s, i + 1, i + Takes(s, i)) \o f[i + Takes(s, i)]

\* The function that Literals chooses.
WritesLiterals(f, s) == f = [i \in 0 .. Len(s) |-> LiteralsFrom(f, s, i)]

LEMMA TakesSome ==
  \A s \in Bytes : \A i \in 0 .. Len(s) : i # Len(s) =>
    /\ Takes(s, i) \in 1 .. 32 /\ i + Takes(s, i) \in 0 .. Len(s)
    /\ Takes(s, i) \in Nat /\ i + Takes(s, i) > i
<1> TAKE s \in Bytes
<1> TAKE i \in 0 .. Len(s)
<1> HAVE i # Len(s)
<1>1. PICK n \in Nat : n = Len(s) - i /\ n > 0 /\ i + n = Len(s) BY DEF Bytes
<1>2. Takes(s, i) = IF 32 <= n THEN 32 ELSE n BY <1>1, LeastOfTwo DEF Takes
<1> QED BY <1>1, <1>2

LEMMA PartIsBytes ==
  \A s \in Bytes : \A i, j \in Nat : i <= j /\ j <= Len(s) =>
     SubSeq(s, i + 1, j) \in Bytes /\ Len(SubSeq(s, i + 1, j)) = j - i
  BY DEF Bytes

LEMMA LiteralsExist == \A s \in Bytes : \E f : f \in [0 .. Len(s) -> Bytes] /\ WritesLiterals(f, s)
<1> TAKE s \in Bytes
<1> DEFINE D == 0 .. Len(s)
           Step(g, i) == LiteralsFrom(g, s, i)
           step == [g \in [D -> Bytes] |-> [i \in D |-> Step(g, i)]]
           rank == [i \in D |-> Len(s) - i]
<1>0. Len(s) \in Nat BY DEF Bytes
<1>1. ASSUME NEW g \in [D -> Bytes], NEW i \in D PROVE Step(g, i) \in Bytes
  <2>1. CASE i = Len(s) BY <2>1 DEF LiteralsFrom, Bytes
  <2>2. CASE i # Len(s)
    <3>1. PICK n : n = Takes(s, i) /\ n \in 1 .. 32 /\ i + n \in D /\ n \in Nat BY <2>2, TakesSome
    <3>2. n - 1 \in Byte BY <3>1 DEF Byte
    <3>3. <<n - 1>> \in Bytes BY <3>2 DEF Bytes
    <3>4. SubSeq(s, i + 1, i + n) \in Bytes BY <1>0, <3>1, PartIsBytes
    <3>5. g[i + n] \in Bytes BY <3>1
    <3>6. (<<n - 1>> \o SubSeq(s, i + 1, i + n)) \o g[i + n] \in Bytes
      BY <3>3, <3>4, <3>5, BytesConcat
    <3> QED BY <2>2, <3>1, <3>6 DEF LiteralsFrom
  <2> QED BY <2>1, <2>2
<1>2. ASSUME NEW g \in [D -> Bytes], NEW h \in [D -> Bytes], NEW i \in D,
             \A j \in D : rank[j] < rank[i] => g[j] = h[j]
      PROVE  Step(g, i) = Step(h, i)
  <2>1. CASE i = Len(s) BY <2>1 DEF LiteralsFrom
  <2>2. CASE i # Len(s)
    <3>1. PICK n : n = Takes(s, i) /\ i + n \in D /\ i + n > i /\ n \in Nat BY <2>2, TakesSome
    <3>2. rank[i + n] < rank[i] BY <1>0, <3>1
    <3>3. g[i + n] = h[i + n] BY <1>2, <3>1, <3>2
    <3> QED BY Zenon, <2>2, <3>1, <3>3 DEF LiteralsFrom
  <2> QED BY <2>1, <2>2
<1>3. rank \in [D -> Nat] BY <1>0
<1> HIDE DEF rank, D, Step
<1>4. Descends(step, rank, D, Bytes)
  <2>1. \A g \in [D -> Bytes] : step[g] = [i \in D |-> Step(g, i)] OBVIOUS
  <2>2. step \in [[D -> Bytes] -> [D -> Bytes]] BY <1>1
  <2> HIDE DEF step
  <2>3. \A g \in [D -> Bytes], i \in D : step[g][i] = Step(g, i) BY <2>1
  <2> QED BY <1>2, <1>3, <2>2, <2>3 DEF Descends
<1>5. Bytes # {}
  <2>1. <<>> \in Bytes BY DEF Bytes
  <2> QED BY <2>1
<1>6. PICK f : f \in [D -> Bytes] /\ f = step[f]
  <2> HIDE DEF step
  <2> QED BY <1>4, <1>5, RecursionByRank
<1>7. f = [i \in D |-> Step(f, i)] BY <1>6 DEF step
<1>8. WritesLiterals(f, s) BY Zenon, <1>7 DEF WritesLiterals, D, Step
<1> QED BY <1>6, <1>8 DEF D

\* The bytes of s from i on, as literals.
InflatesFrom(bytes, s, i) ==
  /\ Inflates(bytes, SubSeq(s, i + 1, Len(s)))
  /\ Len(bytes) <= 2 * (Len(s) - i)

LEMMA PartsJoin ==
  \A s \in Bytes : \A i, j \in Nat : i <= j /\ j <= Len(s) =>
     SubSeq(s, i + 1, j) \o SubSeq(s, j + 1, Len(s)) = SubSeq(s, i + 1, Len(s))
<1> TAKE s \in Bytes
<1> TAKE i, j \in Nat
<1> HAVE i <= j /\ j <= Len(s)
<1>0. Len(s) \in Nat /\ s \in Seq(Byte) BY DEF Bytes
<1> DEFINE a == SubSeq(s, i + 1, j)
           b == SubSeq(s, j + 1, Len(s))
           c == SubSeq(s, i + 1, Len(s))
<1>1. a \in Seq(Byte) /\ b \in Seq(Byte) /\ c \in Seq(Byte) BY <1>0
<1>2. Len(a) = j - i /\ Len(b) = Len(s) - j /\ Len(c) = Len(s) - i BY <1>0
<1>3. \A k \in 1 .. j - i : a[k] = s[i + k] BY <1>0
<1>4. \A k \in 1 .. Len(s) - j : b[k] = s[j + k] BY <1>0
<1>5. \A k \in 1 .. Len(s) - i : c[k] = s[i + k] BY <1>0
<1> HIDE DEF a, b, c
<1> DEFINE ab == a \o b
<1>6. ab \in Seq(Byte) /\ Len(ab) = Len(c)
  <2>1. ab \in Seq(Byte) /\ Len(ab) = Len(a) + Len(b) BY <1>1
  <2> HIDE DEF ab
  <2> QED BY <1>0, <1>2, <2>1
<1>7. ASSUME NEW k \in 1 .. Len(ab) PROVE ab[k] = c[k]
  <2>1. k \in Nat /\ k \in 1 .. Len(s) - i BY <1>0, <1>2, <1>6
  <2>2. c[k] = s[i + k] BY <1>5, <2>1
  <2>3. CASE k <= j - i
    <3>1. ab[k] = a[k] BY <1>1, <1>2, <2>1, <2>3
    <3>2. a[k] = s[i + k] BY <1>3, <2>1, <2>3
    <3> QED BY <2>2, <3>1, <3>2
  <2>4. CASE k > j - i
    <3>1. ab[k] = b[k - (j - i)] BY <1>0, <1>1, <1>2, <2>1, <2>4
    <3>2. k - (j - i) \in 1 .. Len(s) - j /\ j + (k - (j - i)) = i + k BY <1>0, <2>1, <2>4
    <3>3. b[k - (j - i)] = s[i + k] BY <1>4, <3>2
    <3> QED BY <2>2, <3>1, <3>3
  <2> QED BY <2>1, <2>3, <2>4
<1> HIDE DEF ab
<1>8. ab = c BY <1>1, <1>6, <1>7, SeqEqual
<1> QED BY <1>8 DEF a, b, c, ab

LEMMA LiteralsInflate ==
  \A s \in Bytes : Inflates(Literals(s), s) /\ Len(Literals(s)) <= 2 * Len(s)
<1> TAKE s \in Bytes
<1> DEFINE f == CHOOSE g : WritesLiterals(g, s)
<1>1. WritesLiterals(f, s) BY Zenon, LiteralsExist
<1>2. Literals(s) = f[0] BY Zenon DEF Literals, WritesLiterals, LiteralsFrom, Takes
<1> HIDE DEF f
<1>0. Len(s) \in Nat BY DEF Bytes
<1>3. \A i \in 0 .. Len(s) : f[i] = LiteralsFrom(f, s, i) BY <1>1 DEF WritesLiterals
<1> DEFINE M == {k \in Nat : \A i \in 0 .. Len(s) : Len(s) - i <= k => InflatesFrom(f[i], s, i)}
<1>4. InflatesFrom(f[Len(s)], s, Len(s))
  <2>1. f[Len(s)] = <<>>
    <3>1. Len(s) \in 0 .. Len(s) BY <1>0
    <3>2. f[Len(s)] = LiteralsFrom(f, s, Len(s)) BY <1>3, <3>1
    <3> QED BY Zenon, <3>2 DEF LiteralsFrom
  <2>2. SubSeq(s, Len(s) + 1, Len(s)) = <<>> BY DEF Bytes
  <2>3. Len(<<>>) <= 2 * (Len(s) - Len(s)) BY <1>0
  <2> QED BY <2>1, <2>2, <2>3, InflatesNone DEF InflatesFrom
<1>5. 0 \in M
  <2>1. \A i \in 0 .. Len(s) : Len(s) - i <= 0 => i = Len(s) BY <1>0
  <2> QED BY <1>4, <2>1
<1>6. ASSUME NEW k \in M PROVE k + 1 \in M
  <2> SUFFICES ASSUME NEW i \in 0 .. Len(s), Len(s) - i <= k + 1 PROVE InflatesFrom(f[i], s, i)
    OBVIOUS
  <2>1. CASE i = Len(s) BY <1>4, <2>1
  <2>2. CASE i # Len(s)
    <3>1. PICK n : n = Takes(s, i) /\ n \in 1 .. 32 /\ i + n \in 0 .. Len(s) /\ n \in Nat /\ i + n > i
      BY <2>2, TakesSome
    <3>2. k \in Nat /\ Len(s) - (i + n) <= k BY <1>0, <3>1
    <3>3. InflatesFrom(f[i + n], s, i + n) BY <3>1, <3>2
    <3>4. PICK part : part = SubSeq(s, i + 1, i + n) /\ part \in Bytes /\ Len(part) = n
      <4>1. i \in Nat /\ i + n \in Nat /\ i <= i + n /\ i + n <= Len(s) /\ (i + n) - i = n
        BY <1>0, <3>1
      <4>2. PICK j \in Nat : j = i + n BY <4>1
      <4>3. SubSeq(s, i + 1, j) \in Bytes /\ Len(SubSeq(s, i + 1, j)) = j - i
        BY <4>1, <4>2, PartIsBytes
      <4> QED BY <4>1, <4>2, <4>3
    <3>5. PICK left : left = SubSeq(s, i + n + 1, Len(s)) /\ left \in Bytes
      BY <3>3 DEF InflatesFrom, Inflates
    <3>6. PICK tail : tail = f[i + n] /\ Inflates(tail, left) /\ Len(tail) <= 2 * (Len(s) - (i + n))
      BY <3>3, <3>5 DEF InflatesFrom
    <3>7. Inflates(<<n - 1>> \o part, part) BY <3>1, <3>4, LiteralInflates
    <3>8. Inflates((<<n - 1>> \o part) \o tail, part \o left) BY <3>6, <3>7, InflatesBoth
    <3>9. part \o left = SubSeq(s, i + 1, Len(s))
      <4>1. i \in Nat /\ i + n \in Nat /\ i <= i + n /\ i + n <= Len(s) BY <1>0, <3>1
      <4> QED BY <3>4, <3>5, <4>1, PartsJoin
    <3>10. f[i] = (<<n - 1>> \o part) \o tail
      BY Zenon, <1>3, <2>2, <3>1, <3>4, <3>6 DEF LiteralsFrom
    <3>11. Len((<<n - 1>> \o part) \o tail) = (1 + n) + Len(tail) /\ Len(tail) \in Nat
      <4>1. n - 1 \in Byte BY <3>1 DEF Byte
      <4>2. <<n - 1>> \in Bytes /\ Len(<<n - 1>>) = 1 BY <4>1 DEF Bytes
      <4>3. tail \in Bytes BY <3>6 DEF Inflates
      <4>4. <<n - 1>> \o part \in Bytes /\ Len(<<n - 1>> \o part) = 1 + n
        BY <3>4, <4>2, BytesConcat
      <4>5. Len(tail) \in Nat BY <4>3 DEF Bytes
      <4> QED BY <4>3, <4>4, <4>5, BytesConcat
    <3>12. (1 + n) + Len(tail) <= 2 * (Len(s) - i)
      <4>1. Len(tail) <= 2 * (Len(s) - (i + n)) /\ Len(tail) \in Nat BY <3>6, <3>11
      <4>2. i \in Nat /\ n \in Nat /\ n >= 1 /\ Len(s) \in Nat BY <1>0, <3>1
      <4> QED BY SMT, <4>1, <4>2
    <3> QED BY <3>8, <3>9, <3>10, <3>11, <3>12 DEF InflatesFrom
  <2> QED BY <2>1, <2>2
<1>7. M = Nat
  <2> HIDE DEF M
  <2>1. M \in SUBSET Nat BY DEF M
  <2> QED BY <1>5, <1>6, <2>1, NumberInduction
<1>8. InflatesFrom(f[0], s, 0)
  <2>1. Len(s) \in M BY <1>0, <1>7
  <2>2. 0 \in 0 .. Len(s) /\ Len(s) - 0 <= Len(s) BY <1>0
  <2> QED BY <2>1, <2>2
<1>9. SubSeq(s, 0 + 1, Len(s)) = s BY DEF Bytes
<1>10. 2 * (Len(s) - 0) = 2 * Len(s) BY <1>0
<1> QED BY <1>2, <1>8, <1>9, <1>10 DEF InflatesFrom

---------------------------------------------------------------------------
(* Back references *)

LEMMA RemainderSmall == \A p, a \in Nat : a < p => a % p = a OBVIOUS

LEMMA RemainderShifts == \A p, a \in Nat : p > 0 /\ p <= a => a % p = (a - p) % p
<1> TAKE p, a \in Nat
<1> HAVE p > 0 /\ p <= a
<1>1. PICK q \in Int : q = (a - p) \div p OBVIOUS
<1>2. PICK r \in Int : r = (a - p) % p OBVIOUS
<1>3. a - p = p * q + r /\ 0 <= r /\ r < p BY <1>1, <1>2
<1>4. p * (q + 1) = p * q + p BY Distributes
<1>5. a = p * (q + 1) + r BY <1>3, <1>4
<1>6. a % p = r BY <1>3, <1>5
<1> QED BY <1>2, <1>6

\* s repeats itself every p bytes.
Periodic(s, p) ==
  /\ s \in Bytes /\ p \in Nat /\ p > 0 /\ p < Len(s)
  /\ \A i \in p + 1 .. Len(s) : s[i] = s[i - p]

LEMMA SecondPart ==
  \A a, b \in Seq(Byte) : \A j \in 1 .. Len(b) : (a \o b)[Len(a) + j] = b[j]
  OBVIOUS

LEMMA CopyRepeats ==
  \A s, p : Periodic(s, p) => SubSeq(s, 1, p) \o Copied(SubSeq(s, 1, p), 0, Len(s) - p) = s
<1> SUFFICES ASSUME NEW s, NEW p, Periodic(s, p)
             PROVE  SubSeq(s, 1, p) \o Copied(SubSeq(s, 1, p), 0, Len(s) - p) = s
  OBVIOUS
<1>0. /\ s \in Seq(Byte) /\ p \in Nat /\ p > 0 /\ p < Len(s) /\ Len(s) \in Nat
      /\ \A i \in p + 1 .. Len(s) : s[i] = s[i - p]
  BY DEF Periodic, Bytes
<1>1. PICK n \in Nat : n = Len(s) - p BY <1>0
<1> DEFINE out == SubSeq(s, 1, p)
           c == Copied(out, 0, n)
           M == {m \in Nat : \A x \in 1 .. n : x <= m => s[p + x] = s[1 + ((x - 1) % p)]}
<1>2. 0 \in M OBVIOUS
<1>3. ASSUME NEW m \in M PROVE m + 1 \in M
  <2> SUFFICES ASSUME NEW x \in 1 .. n, x <= m + 1 PROVE s[p + x] = s[1 + ((x - 1) % p)]
    OBVIOUS
  <2>1. m \in Nat /\ x \in Nat OBVIOUS
  <2>2. CASE x <= m BY <2>1, <2>2
  <2>3. CASE x = m + 1
    <3>1. p + x \in p + 1 .. Len(s) /\ (p + x) - p = x BY <1>0, <1>1
    <3>2. s[p + x] = s[x] BY <1>0, <3>1
    <3>3. CASE x <= p
      <4>1. (x - 1) % p = x - 1
        <5>1. x - 1 \in Nat /\ x - 1 < p BY <1>0, <3>3
        <5> QED BY <1>0, <5>1, RemainderSmall
      <4>2. 1 + (x - 1) = x BY <2>1
      <4> QED BY <3>2, <4>1, <4>2
    <3>4. CASE x > p
      <4>1. PICK y \in Nat : y = x - p /\ y \in 1 .. n /\ y <= m /\ p + y = x
        <5>1. x - p \in Nat /\ x - p \in 1 .. n /\ x - p <= m /\ p + (x - p) = x
          BY <1>0, <1>1, <2>1, <2>3, <3>4
        <5> QED BY <5>1
      <4>2. s[p + y] = s[1 + ((y - 1) % p)] BY <4>1
      <4>3. (x - 1) % p = (y - 1) % p
        <5>1. PICK a \in Nat : a = x - 1 /\ p <= a /\ a - p = y - 1 BY <1>0, <3>4, <4>1
        <5>2. a % p = (a - p) % p BY <1>0, <5>1, RemainderShifts
        <5> QED BY <5>1, <5>2
      <4> QED BY <3>2, <4>1, <4>2, <4>3
    <3> QED BY <1>0, <2>1, <3>3, <3>4
  <2> QED BY <2>1, <2>2, <2>3
<1>4. M = Nat
  <2> HIDE DEF M
  <2>1. M \in SUBSET Nat BY DEF M
  <2> QED BY <1>2, <1>3, <2>1, NumberInduction
<1>5. \A x \in 1 .. n : s[p + x] = s[1 + ((x - 1) % p)]
  <2>1. n \in M BY <1>4
  <2>2. \A x \in 1 .. n : x <= n OBVIOUS
  <2> QED BY <2>1, <2>2
<1> HIDE DEF M
<1>6. out \in Seq(Byte) /\ Len(out) = p /\ \A i \in 1 .. p : out[i] = s[i] BY <1>0
<1> HIDE DEF out
<1>7. \A x \in 1 .. n : c[x] = s[p + x]
  <2> TAKE x \in 1 .. n
  <2>1. c[x] = out[0 + 1 + ((x - 1) % (Len(out) - 0))] BY DEF Copied
  <2>2. Len(out) - 0 = p BY <1>0, <1>6
  <2>3. PICK k \in Nat : k = (x - 1) % p /\ k < p
    <3>1. x - 1 \in Nat BY <1>1
    <3> QED BY <1>0, <3>1, RemainderBelow
  <2> HIDE DEF c
  <2>4. c[x] = out[0 + 1 + k] BY <2>1, <2>2, <2>3
  <2>5. 0 + 1 + k = 1 + k /\ 1 + k \in 1 .. p BY <1>0, <2>3
  <2>6. out[1 + k] = s[1 + k] BY <1>6, <2>5
  <2>7. s[p + x] = s[1 + k] BY <1>5, <2>3
  <2> QED BY <2>4, <2>5, <2>6, <2>7
<1>8. \A x \in 1 .. n : p + x \in 1 .. Len(s) BY <1>0, <1>1
<1>9. c \in Seq(Byte) /\ Len(c) = n
  <2>1. c = [x \in 1 .. n |-> s[p + x]]
    <3>1. c = [x \in 1 .. n |-> c[x]] BY DEF Copied
    <3> HIDE DEF c
    <3> QED BY <1>7, <3>1
  <2> HIDE DEF c
  <2>2. \A x \in 1 .. n : s[p + x] \in Byte BY <1>0, <1>8
  <2> QED BY <1>1, <2>1, <2>2
<1> HIDE DEF c
<1> DEFINE t == out \o c
<1>10. t \in Seq(Byte) /\ Len(t) = p + n /\ (\A i \in 1 .. p : t[i] = out[i])
       /\ (\A i \in p + 1 .. p + n : t[i] = c[i - p])
  <2>1. out \in Seq(Byte) /\ c \in Seq(Byte) /\ Len(out) = p /\ Len(c) = n BY <1>6, <1>9
  <2>2. t \in Seq(Byte) /\ Len(t) = p + n BY <2>1
  <2>3. \A i \in 1 .. p : t[i] = out[i] BY <1>0, <2>1
  <2>4. ASSUME NEW i \in p + 1 .. p + n PROVE t[i] = c[i - p]
    <3>1. PICK j \in 1 .. n : j = i - p /\ p + j = i
      <4>1. i - p \in 1 .. n /\ p + (i - p) = i BY <1>0, <1>1
      <4> QED BY <4>1
    <3>2. j \in 1 .. Len(c) /\ Len(out) + j = i BY <2>1, <3>1
    <3>3. t[Len(out) + j] = c[j] BY <2>1, <3>2, SecondPart
    <3> QED BY <3>1, <3>2, <3>3
  <2> QED BY <2>2, <2>3, <2>4
<1> HIDE DEF t
<1>11. Len(t) = Len(s) BY <1>0, <1>1, <1>10
<1>12. ASSUME NEW i \in 1 .. Len(t) PROVE t[i] = s[i]
  <2>1. i \in Nat /\ i \in 1 .. p + n BY <1>10
  <2>2. CASE i <= p
    <3>1. i \in 1 .. p BY <2>1, <2>2
    <3> QED BY <1>6, <1>10, <3>1
  <2>3. CASE i > p
    <3>1. i \in p + 1 .. p + n /\ i - p \in 1 .. n /\ p + (i - p) = i BY <1>0, <2>1, <2>3
    <3>2. t[i] = c[i - p] BY <1>10, <3>1
    <3>3. c[i - p] = s[p + (i - p)] BY <1>7, <3>1
    <3> QED BY <3>1, <3>2, <3>3
  <2> QED BY <1>0, <2>1, <2>2, <2>3
<1>13. t = s BY <1>0, <1>10, <1>11, <1>12, SeqEqual
<1> QED BY <1>1, <1>13 DEF t, c, out

\* A reference that was written for a distance p and n bytes.
Refers(bytes, p, n) ==
  /\ bytes \in Bytes /\ Len(bytes) <= 3
  /\ \A out, rest \in Bytes : Len(out) = p =>
       lzf[<<bytes \o rest, out>>] = lzf[<<rest, out \o Copied(out, 0, n)>>]

\* ctrl, low and a length of n bytes that is read from more.
IsReference(out, ctrl, more, n, tail, low, rest) ==
  /\ ctrl \in Byte /\ ~(ctrl < 32)
  /\ more \in Bytes /\ out \in Bytes
  /\ RunLength(ctrl, more) = Got(n - 2, tail)
  /\ ReadByte(tail) = Got(low, rest)
  /\ Reaches(out, ctrl, low, 0)

Copying(out, ctrl, more, n, rest) == \E tail, low : IsReference(out, ctrl, more, n, tail, low, rest)

CopiesAhead(out, ctrl, more, n, rest) ==
  lzf[<<<<ctrl>> \o more, out>>] = lzf[<<rest, out \o Copied(out, 0, n)>>]

LEMMA ReferenceLeads ==
  \A out, ctrl, more, n, rest :
    n \in Nat /\ Copying(out, ctrl, more, n, rest) => CopiesAhead(out, ctrl, more, n, rest)
<1> SUFFICES ASSUME NEW out, NEW ctrl, NEW more, NEW n \in Nat, NEW rest,
                    Copying(out, ctrl, more, n, rest)
             PROVE  CopiesAhead(out, ctrl, more, n, rest)
  BY Zenon
<1>0. PICK tail, low : IsReference(out, ctrl, more, n, tail, low, rest) BY Zenon DEF Copying
<1> DEFINE in == <<ctrl>> \o more
<1>1. FirstIn(in, ctrl, more) BY <1>0 DEF IsReference, FirstIn
<1> HIDE DEF in
<1>2. lzf[<<in, out>>] = BackThen(lzf, out, ctrl, more) BY <1>0, <1>1, LzfOfReference DEF IsReference
<1>3. BackThen(lzf, out, ctrl, more) = RefThen(lzf, out, ctrl, n - 2, tail)
  BY <1>0, BackReads DEF IsReference
<1>4. RefThen(lzf, out, ctrl, n - 2, tail) = Copies(lzf, out, 0, n - 2, rest)
  BY <1>0, RefReads DEF IsReference
<1>5. ~(0 < 0) /\ (n - 2) + 2 = n OBVIOUS
<1>6. Copies(lzf, out, 0, n - 2, rest) = lzf[<<rest, out \o Copied(out, 0, n)>>]
  BY Zenon, <1>5 DEF Copies
<1> QED BY <1>2, <1>3, <1>4, <1>6 DEF in, CopiesAhead

\* far and near make up the distance p.
Distance(p, far, near) == far \in Nat /\ far < 32 /\ near \in Byte /\ p = far * 256 + near + 1

LEMMA DistanceSplits ==
  \A p \in Nat : p > 0 /\ p <= 8192 =>
    \E far, near : far = (p - 1) \div 256 /\ near = (p - 1) % 256 /\ Distance(p, far, near)
<1> TAKE p \in Nat
<1> HAVE p > 0 /\ p <= 8192
<1>1. PICK a \in Nat : a = p - 1 /\ a < 8192 OBVIOUS
<1>2. PICK far, near \in Int : far = a \div 256 /\ near = a % 256 OBVIOUS
<1>3. far \in Nat /\ far < 32 /\ near \in 0 .. 255 /\ a = far * 256 + near BY <1>1, <1>2
<1> QED BY <1>1, <1>2, <1>3 DEF Distance, Byte

LEMMA ShortReference ==
  \A p, n, far, near : Distance(p, far, near) /\ n \in 3 .. 8 => Refers(<<(n - 2) * 32 + far, near>>, p, n)
<1> SUFFICES ASSUME NEW p, NEW n \in 3 .. 8, NEW far, NEW near, Distance(p, far, near)
             PROVE  Refers(<<(n - 2) * 32 + far, near>>, p, n)
  OBVIOUS
<1>0. far \in Nat /\ far < 32 /\ near \in Byte /\ p = far * 256 + near + 1 BY DEF Distance
<1>1. PICK ctrl \in Byte : ctrl = (n - 2) * 32 + far /\ ctrl >= 32 /\ ctrl \div 32 = n - 2 /\ ctrl % 32 = far
  <2>1. (n - 2) * 32 + far \in 0 .. 255 /\ (n - 2) * 32 + far >= 32 BY <1>0
  <2>2. ((n - 2) * 32 + far) \div 32 = n - 2 /\ ((n - 2) * 32 + far) % 32 = far BY <1>0
  <2> QED BY <2>1, <2>2 DEF Byte
<1>2. <<ctrl, near>> \in Bytes /\ Len(<<ctrl, near>>) = 2 BY <1>0 DEF Bytes
<1>3. ASSUME NEW out \in Bytes, NEW rest \in Bytes, Len(out) = p
      PROVE  lzf[<<<<ctrl, near>> \o rest, out>>] = lzf[<<rest, out \o Copied(out, 0, n)>>]
  <2> DEFINE more == <<near>> \o rest
  <2>1. TwoFirst(<<ctrl, near>> \o rest, ctrl, near, rest) BY <1>0, TwoBytes
  <2>2. more \in Bytes /\ <<ctrl, near>> \o rest = <<ctrl>> \o more BY <2>1 DEF TwoFirst
  <2>3. ReadByte(more) = Got(near, rest) BY <1>0, ByteRead
  <2> HIDE DEF more
  <2>4. ctrl \div 32 # 7 BY <1>1
  <2>5. RunLength(ctrl, more) = Got(n - 2, more) BY <1>1, <2>4 DEF RunLength
  <2>6. Reaches(out, ctrl, near, 0)
    <3>1. near \in Nat BY <1>0 DEF Byte
    <3>2. 0 = p - far * 256 - near - 1 BY <1>0, <3>1
    <3> QED BY <1>1, <1>3, <3>2 DEF Reaches
  <2>7. IsReference(out, ctrl, more, n, more, near, rest)
    BY <1>1, <2>2, <2>3, <2>5, <2>6 DEF IsReference, Byte
  <2>8. lzf[<<<<ctrl>> \o more, out>>] = lzf[<<rest, out \o Copied(out, 0, n)>>]
    <3>1. n \in Nat OBVIOUS
    <3>2. Copying(out, ctrl, more, n, rest) BY Zenon, <2>7 DEF Copying
    <3>3. CopiesAhead(out, ctrl, more, n, rest) BY Zenon, <3>1, <3>2, ReferenceLeads
    <3> QED BY Zenon, <3>3 DEF CopiesAhead
  <2> QED BY <2>2, <2>8
<1>4. 2 <= 3 OBVIOUS
<1>5. Refers(<<ctrl, near>>, p, n) BY <1>2, <1>3, <1>4 DEF Refers
<1> QED BY <1>1, <1>5

LEMMA TripleIsConcat == \A S : \A a, b, c \in S : <<a>> \o <<b, c>> = <<a, b, c>>
<1> SUFFICES ASSUME NEW S, NEW a \in S, NEW b \in S, NEW c \in S PROVE <<a>> \o <<b, c>> = <<a, b, c>>
  OBVIOUS
<1> DEFINE s == <<a>> \o <<b, c>>
           t == <<a, b, c>>
<1>1. /\ s \in Seq(S) /\ t \in Seq(S) /\ Len(s) = 3 /\ Len(t) = 3
      /\ s[1] = a /\ s[2] = b /\ s[3] = c /\ t[1] = a /\ t[2] = b /\ t[3] = c
  OBVIOUS
<1> HIDE DEF s, t
<1>2. \A i \in 1 .. 3 : s[i] = t[i]
  <2> TAKE i \in 1 .. 3
  <2>1. CASE i = 1 BY <1>1, <2>1
  <2>2. CASE i = 2 BY <1>1, <2>2
  <2>3. CASE i = 3 BY <1>1, <2>3
  <2> QED BY <2>1, <2>2, <2>3
<1>3. s = t BY <1>1, <1>2, SeqEqual
<1> QED BY <1>3 DEF s, t

LEMMA LongReference ==
  \A p, far, near : \A n \in Nat :
    Distance(p, far, near) /\ n >= 9 /\ n <= 264 => Refers(<<224 + far, n - 9, near>>, p, n)
<1> SUFFICES ASSUME NEW p, NEW far, NEW near, NEW n \in Nat, Distance(p, far, near), n >= 9, n <= 264
             PROVE  Refers(<<224 + far, n - 9, near>>, p, n)
  OBVIOUS
<1>0. far \in Nat /\ far < 32 /\ near \in Byte /\ p = far * 256 + near + 1 BY DEF Distance
<1>1. PICK ctrl \in Byte : ctrl = 224 + far /\ ctrl >= 32 /\ ctrl \div 32 = 7 /\ ctrl % 32 = far
  <2>1. 224 + far \in 0 .. 255 /\ 224 + far >= 32 BY <1>0
  <2>2. (224 + far) \div 32 = 7 /\ (224 + far) % 32 = far BY <1>0
  <2> QED BY <2>1, <2>2 DEF Byte
<1>2. PICK b \in Byte : b = n - 9 /\ 7 + b = n - 2
  <2>1. n - 9 \in Byte /\ 7 + (n - 9) = n - 2 BY DEF Byte
  <2> QED BY <2>1
<1>3. <<ctrl, b, near>> \in Bytes /\ Len(<<ctrl, b, near>>) = 3 BY <1>0 DEF Bytes
<1>4. ASSUME NEW out \in Bytes, NEW rest \in Bytes, Len(out) = p
      PROVE  lzf[<<<<ctrl, b, near>> \o rest, out>>] = lzf[<<rest, out \o Copied(out, 0, n)>>]
  <2> DEFINE tail == <<near>> \o rest
             more == <<b>> \o tail
  <2>1. TwoFirst(<<b, near>> \o rest, b, near, rest) BY <1>0, TwoBytes
  <2>2. tail \in Bytes /\ <<b, near>> \o rest = more BY <2>1 DEF TwoFirst
  <2>3. <<ctrl, b, near>> \o rest = <<ctrl>> \o more /\ more \in Bytes
    <3>1. <<ctrl>> \in Bytes /\ <<b, near>> \in Bytes BY <1>0 DEF Bytes
    <3>2. <<ctrl, b, near>> = <<ctrl>> \o <<b, near>> BY <1>0, TripleIsConcat
    <3>3. (<<ctrl>> \o <<b, near>>) \o rest = <<ctrl>> \o (<<b, near>> \o rest) BY <3>1, BytesAssociate
    <3>4. <<b, near>> \o rest \in Bytes BY <3>1, BytesConcat
    <3> QED BY Zenon, <2>2, <3>2, <3>3, <3>4
  <2>4. ReadByte(tail) = Got(near, rest) BY <1>0, ByteRead
  <2> HIDE DEF tail
  <2>5. ReadByte(more) = Got(b, tail) BY <2>2, ByteRead
  <2> HIDE DEF more
  <2>6. RunLength(ctrl, more) = Got(n - 2, tail)
    <3> DEFINE r == ReadByte(more)
    <3>1. r.ok /\ r.val = b /\ r.rest = tail BY <2>5, GotHas
    <3>2. RunLength(ctrl, more) = Convert(r, LAMBDA v : 7 + v) BY <1>1 DEF RunLength
    <3> HIDE DEF r
    <3>3. Convert(r, LAMBDA v : 7 + v) = Got(7 + b, tail) BY <3>1 DEF Convert, Bind
    <3> QED BY <1>2, <3>2, <3>3
  <2>7. Reaches(out, ctrl, near, 0)
    <3>1. near \in Nat BY <1>0 DEF Byte
    <3>2. 0 = p - far * 256 - near - 1 BY <1>0, <3>1
    <3> QED BY <1>1, <1>4, <3>2 DEF Reaches
  <2>8. IsReference(out, ctrl, more, n, tail, near, rest)
    <3>1. ~(ctrl < 32) BY <1>1 DEF Byte
    <3> QED BY <2>3, <2>4, <2>6, <2>7, <3>1 DEF IsReference
  <2>9. lzf[<<<<ctrl>> \o more, out>>] = lzf[<<rest, out \o Copied(out, 0, n)>>]
    <3>1. n \in Nat OBVIOUS
    <3>2. Copying(out, ctrl, more, n, rest) BY Zenon, <2>8 DEF Copying
    <3>3. CopiesAhead(out, ctrl, more, n, rest) BY Zenon, <3>1, <3>2, ReferenceLeads
    <3> QED BY Zenon, <3>3 DEF CopiesAhead
  <2> QED BY <2>3, <2>9
<1>5. 3 <= 3 OBVIOUS
<1>6. Refers(<<ctrl, b, near>>, p, n) BY <1>3, <1>4, <1>5 DEF Refers
<1> QED BY <1>1, <1>2, <1>6

\* What BackReference writes.
Written(p, n, far, near) ==
  IF n - 2 < 7 THEN <<(n - 2) * 32 + far, near>> ELSE <<224 + far, n - 9, near>>

\* A distance and a length that a reference can tell.
Reachable(p, n) == p \in Nat /\ p > 0 /\ p <= 8192 /\ n \in Nat /\ n >= 3 /\ n <= 264

LEMMA ReferenceIsWritten ==
  \A p, n : BackReference(p, n) = Written(p, n, (p - 1) \div 256, (p - 1) % 256)
  BY DEF BackReference, Written

LEMMA ReferenceRefers == \A p, n : Reachable(p, n) => Refers(BackReference(p, n), p, n)
<1> SUFFICES ASSUME NEW p, NEW n, Reachable(p, n) PROVE Refers(BackReference(p, n), p, n)
  OBVIOUS
<1>0. p \in Nat /\ p > 0 /\ p <= 8192 /\ n \in Nat /\ n >= 3 /\ n <= 264 BY DEF Reachable
<1>1. PICK far, near : /\ far = (p - 1) \div 256 /\ near = (p - 1) % 256
                       /\ Distance(p, far, near)
  BY <1>0, DistanceSplits
<1>2. BackReference(p, n) = Written(p, n, far, near) BY Zenon, <1>1, ReferenceIsWritten
<1>3. CASE n - 2 < 7
  <2>1. n \in 3 .. 8 BY <1>0, <1>3
  <2>2. Written(p, n, far, near) = <<(n - 2) * 32 + far, near>> BY Zenon, <1>3 DEF Written
  <2>3. Refers(<<(n - 2) * 32 + far, near>>, p, n) BY <1>1, <2>1, ShortReference
  <2> QED BY Zenon, <1>2, <2>2, <2>3
<1>4. CASE ~(n - 2 < 7)
  <2>1. n \in Nat /\ n >= 9 /\ n <= 264 BY <1>0, <1>4
  <2>2. Written(p, n, far, near) = <<224 + far, n - 9, near>> BY Zenon, <1>4 DEF Written
  <2>3. Refers(<<224 + far, n - 9, near>>, p, n) BY <1>1, <2>1, LongReference
  <2> QED BY Zenon, <1>2, <2>2, <2>3
<1> QED BY <1>3, <1>4

\* The decompressor: what a string with a period is written as.
LEMMA LzfLoads ==
  \A s \in Bytes : Compressible(s) =>
    /\ LzfBytes(s) \in Bytes /\ Len(LzfBytes(s)) <= 16387
    /\ lzf[<<LzfBytes(s), <<>>>>] = Got(s, <<>>)
<1> TAKE s \in Bytes
<1> HAVE Compressible(s)
<1>0. Len(s) \in Nat /\ <<>> \in Bytes BY DEF Bytes
<1>1. PICK p \in Nat : p = Min(Periods(s)) /\ p \in Periods(s) /\ p <= 8192 /\ Len(s) - p <= 264
  <2>1. Periods(s) \in SUBSET Nat /\ Periods(s) # {} BY SMTT(30) DEF Periods, Compressible
  <2>2. PICK m \in Periods(s) : \A k \in Periods(s) : m <= k BY <2>1, LeastExists
  <2>3. Periods(s) \in SUBSET Int BY <2>1
  <2>4. Min(Periods(s)) = m BY <2>2, <2>3, MinIsLeast
  <2> QED BY <2>1, <2>2, <2>4 DEF Compressible
<1>2. PICK n \in Nat : n = Len(s) - p /\ Reachable(p, n) /\ p < Len(s)
  <2>1. p \in 1 .. Len(s) - 3 BY <1>1 DEF Periods
  <2>2. p > 0 /\ Len(s) - p \in Nat /\ Len(s) - p >= 3 /\ p < Len(s) BY <1>0, <1>1, <2>1
  <2>3. Reachable(p, Len(s) - p) BY <1>1, <2>2 DEF Reachable
  <2> QED BY <2>2, <2>3
<1>3. Periodic(s, p)
  <2>1. \A i \in p + 1 .. Len(s) : s[i] = s[i - p] BY SMTT(30), <1>1 DEF Periods
  <2>2. p > 0 BY <1>2 DEF Reachable
  <2> QED BY <1>2, <2>1, <2>2 DEF Periodic
<1>4. PICK out : out = SubSeq(s, 1, p) /\ out \in Bytes /\ Len(out) = p
  <2>1. SubSeq(s, 1, p) \in Bytes /\ Len(SubSeq(s, 1, p)) = p BY <1>0, <1>2 DEF Bytes, Reachable
  <2> QED BY <2>1
<1>5. out \o Copied(out, 0, n) = s
  <2>1. SubSeq(s, 1, p) \o Copied(SubSeq(s, 1, p), 0, Len(s) - p) = s BY Zenon, <1>3, CopyRepeats
  <2> QED BY Zenon, <1>2, <1>4, <2>1
<1>6. PICK lit : lit = Literals(out) /\ Inflates(lit, out) /\ Len(lit) <= 2 * p
  BY <1>4, LiteralsInflate
<1>7. PICK back : back = BackReference(p, n) /\ Refers(back, p, n) BY Zenon, <1>2, ReferenceRefers
<1>8. LzfBytes(s) = lit \o back
  <2>1. LzfBytes(s) = Literals(SubSeq(s, 1, Min(Periods(s)))) \o BackReference(Min(Periods(s)), Len(s) - Min(Periods(s)))
    BY DEF LzfBytes
  <2>2. p = Min(Periods(s)) /\ n = Len(s) - p /\ out = SubSeq(s, 1, p) /\ lit = Literals(out) /\ back = BackReference(p, n)
    BY <1>1, <1>2, <1>4, <1>6, <1>7
  <2> QED BY Zenon, <2>1, <2>2
<1>9. lit \in Bytes /\ back \in Bytes /\ Len(back) <= 3 BY <1>6, <1>7 DEF Inflates, Refers
<1>10. lit \o back \in Bytes /\ Len(lit \o back) <= 16387
  <2>1. lit \o back \in Bytes /\ Len(lit \o back) = Len(lit) + Len(back) BY <1>9, BytesConcat
  <2>2. Len(lit) \in Nat /\ Len(back) \in Nat BY <1>9 DEF Bytes
  <2> QED BY <1>1, <1>6, <1>9, <2>1, <2>2
<1>11. \A t \in Bytes : <<>> \o t = t /\ t \o <<>> = t BY DEF Bytes
<1>12. lzf[<<lit \o back, <<>>>>] = lzf[<<back, out>>]
  <2>1. lzf[<<lit \o back, <<>>>>] = lzf[<<back, <<>> \o out>>] BY Zenon, <1>0, <1>6, <1>9 DEF Inflates
  <2> QED BY <1>4, <1>11, <2>1
<1>13. lzf[<<back, out>>] = lzf[<<<<>>, s>>]
  <2>1. lzf[<<back \o <<>>, out>>] = lzf[<<<<>>, out \o Copied(out, 0, n)>>]
    BY Zenon, <1>0, <1>4, <1>7 DEF Refers
  <2> QED BY <1>5, <1>9, <1>11, <2>1
<1>14. lzf[<<<<>>, s>>] = Got(s, <<>>)
  <2>1. lzf[<<<<>>, s>>] = LzfStep(lzf, <<>>, s) BY <1>0, LzfUnfolds
  <2> QED BY Zenon, <2>1 DEF LzfStep
<1> QED BY <1>8, <1>10, <1>12, <1>13, <1>14, SMT

---------------------------------------------------------------------------
(* Strings that are integers, or compressed *)

LEMMA SmallIsWord == \A n \in Nat : n <= 1000000000 => n \in Word
<1> TAKE n \in Nat
<1> HAVE n <= 1000000000
<1>1. PICK g \in Nat : g = 2 * Greatest(32) + 1 /\ n <= g BY DEF Greatest
<1> QED BY <1>1 DEF Word

LEMMA LengthRead ==
  \A bytes, n : \A rest \in Bytes : IsLength(bytes, n) => ReadLength(bytes \o rest) = Got(n, rest)
<1> SUFFICES ASSUME NEW bytes, NEW n, NEW rest \in Bytes, IsLength(bytes, n)
             PROVE  ReadLength(bytes \o rest) = Got(n, rest)
  OBVIOUS
<1> DEFINE r == readEncodedLength(bytes \o rest)
<1>1. r = Plainly(n, rest) BY DEF IsLength
<1>2. ReadLength(bytes \o rest) = Bind(r, LAMBDA l, left : IF l.special THEN Panicked ELSE Got(l.len, left))
  BY DEF ReadLength
<1> HIDE DEF r
<1>3. r.ok /\ r.rest = rest /\ r.val.len = n /\ ~r.val.special BY <1>1 DEF Plainly, Got
<1> QED BY <1>2, <1>3 DEF Bind

\* The byte that announces the encoding k of a string.
LEMMA SpecialLength ==
  \A k \in 0 .. 3, rest \in Bytes :
    readEncodedLength(<<192 + k>> \o rest) = Got([len |-> k, special |-> TRUE], rest)
<1> TAKE k \in 0 .. 3, rest \in Bytes
<1>1. PICK first \in Byte : first = 192 + k BY DEF Byte
<1>2. /\ ~(first < 64) /\ first \notin 64 .. 127 /\ first # 128 /\ first # 129
      /\ first \notin 130 .. 191 /\ first - 192 = k
  BY <1>1
<1>3. readEncodedLength(<<first>> \o rest) = LengthAfter(first, rest) BY ByteRead, LengthBegins
<1>4. LengthAfter(first, rest) = Got([len |-> first - 192, special |-> TRUE], rest)
  BY Zenon, <1>2 DEF LengthAfter
<1> QED BY <1>1, <1>2, <1>3, <1>4

\* A byte first that announces an integer of w bytes.
IntString(first, k, w, bits) ==
  \/ first = 192 /\ k = 0 /\ w = 1 /\ bits = 8
  \/ first = 193 /\ k = 1 /\ w = 2 /\ bits = 16
  \/ first = 194 /\ k = 2 /\ w = 4 /\ bits = 32

LEMMA IntStringReads ==
  \A first, k, w, bits : IntString(first, k, w, bits) =>
    /\ first \in Byte /\ k \in 0 .. 3 /\ first = 192 + k /\ w \in Nat /\ bits \in {8, 13, 16, 24, 32}
    /\ HoldsSigned(w, Greatest(bits))
  BY WidthsHoldSigned DEF IntString, Byte

LEMMA IntAfter ==
  \A first, k, w, bits, rest : IntString(first, k, w, bits) =>
    StringAfter([len |-> k, special |-> TRUE], rest) = Convert(ReadInt(rest, w), FormatInt)
<1> SUFFICES ASSUME NEW first, NEW k, NEW w, NEW bits, NEW rest, IntString(first, k, w, bits)
             PROVE  StringAfter([len |-> k, special |-> TRUE], rest) = Convert(ReadInt(rest, w), FormatInt)
  OBVIOUS
<1> DEFINE l == [len |-> k, special |-> TRUE]
<1>1. l.special /\ l.len = k OBVIOUS
<1> HIDE DEF l
<1>2. k \in 0 .. 2 /\ <<1, 2, 4>>[k + 1] = w BY DEF IntString
<1>3. StringAfter(l, rest) = Convert(ReadInt(rest, <<1, 2, 4>>[l.len + 1]), FormatInt)
  <2>1. l.len \in 0 .. 2 /\ l.len # 3 BY <1>1, <1>2
  <2> QED BY Zenon, <1>1, <2>1 DEF StringAfter
<1> QED BY <1>1, <1>2, <1>3 DEF l

LEMMA IntStringLoads ==
  \A first, k, w, bits : \A s \in Bytes : IntString(first, k, w, bits) /\ IsInt(s, bits)
    => IsString(<<first>> \o IntBytes(ParseInt(s), w), s)
<1> SUFFICES ASSUME NEW first, NEW k, NEW w, NEW bits, NEW s \in Bytes,
                    IntString(first, k, w, bits), IsInt(s, bits)
             PROVE  IsString(<<first>> \o IntBytes(ParseInt(s), w), s)
  OBVIOUS
<1>1. /\ first \in Byte /\ k \in 0 .. 3 /\ first = 192 + k /\ w \in Nat
      /\ bits \in {8, 13, 16, 24, 32} /\ HoldsSigned(w, Greatest(bits))
  BY ZenonT(40), IntStringReads
<1>2. PICK v, g : v = ParseInt(s) /\ g = Greatest(bits) OBVIOUS
<1>3. IsIntOf(s, v, g) BY <1>1, <1>2, IntIsNumber
<1>4. PICK int \in Bytes : int = IntBytes(v, w) BY <1>1, <1>3, IntBytesType DEF IsIntOf
<1>5. <<first>> \in Bytes BY <1>1 DEF Bytes
<1>6. ASSUME NEW rest \in Bytes PROVE ReadString((<<first>> \o int) \o rest) = Got(s, rest)
  <2> DEFINE left == int \o rest
             rd == <<first>> \o left
             l == [len |-> k, special |-> TRUE]
  <2>1. (<<first>> \o int) \o rest = rd BY <1>4, <1>5, BytesAssociate
  <2>2. left \in Bytes BY <1>4, BytesConcat
  <2>3. Convert(ReadInt(left, w), FormatInt) = Got(s, rest)
    <3>1. w \in Nat /\ HoldsSigned(w, g) /\ IsIntOf(s, v, g) /\ rest \in Bytes BY <1>1, <1>2, <1>3
    <3> QED BY <1>4, <3>1, IntRead
  <2> HIDE DEF left
  <2>4. readEncodedLength(rd) = Got(l, left) BY <1>1, <2>2, SpecialLength
  <2> HIDE DEF rd
  <2>5. StringAfter(l, left) = Convert(ReadInt(left, w), FormatInt) BY IntAfter
  <2> HIDE DEF l
  <2>6. ReadString(rd) = StringAfter(l, left) BY <2>4, StringBegins
  <2> QED BY <2>1, <2>3, <2>5, <2>6
<1>7. <<first>> \o int \in Bytes BY <1>4, <1>5, BytesConcat
<1> QED BY <1>2, <1>4, <1>6, <1>7 DEF IsString

\* What ReadCompressed makes of the two lengths, and of the bytes behind them.
Decompressed(in, outLen, rest) == Bind(lzfDecompress(in, outLen), LAMBDA out, left : Got(out, rest))

CompressedIn(inLen, outLen, rest2) ==
  Bind(ReadBytes(rest2, inLen), LAMBDA in, rest : Decompressed(in, outLen, rest))

CompressedOut(inLen, rest1) ==
  Bind(ReadLength(rest1), LAMBDA outLen, rest2 : CompressedIn(inLen, outLen, rest2))

LEMMA CompressedUnfolds == \A rd : ReadCompressed(rd) = Bind(ReadLength(rd), CompressedOut)
  BY Zenon DEF ReadCompressed, CompressedOut, CompressedIn, Decompressed

\* s is what the bytes in decompress to.
Compresses(in, s) ==
  /\ in \in Bytes /\ s \in Bytes
  /\ lzf[<<in, <<>>>>] = Got(s, <<>>)

LEMMA DecompressedIs ==
  \A in, s, n, rest : Compresses(in, s) /\ n = Len(s) => Decompressed(in, n, rest) = Got(s, rest)
<1> SUFFICES ASSUME NEW in, NEW s, NEW n, NEW rest, Compresses(in, s), n = Len(s)
             PROVE  Decompressed(in, n, rest) = Got(s, rest)
  OBVIOUS
<1> DEFINE r == lzf[<<in, <<>>>>]
<1>1. r = Got(s, <<>>) BY DEF Compresses
<1>2. lzfDecompress(in, n) = Bind(r, LAMBDA out, left : IF Len(out) = n THEN Got(out, left) ELSE Panicked)
  BY DEF lzfDecompress
<1> HIDE DEF r
<1>3. r.ok /\ r.val = s /\ r.rest = <<>> BY <1>1 DEF Got
<1> DEFINE d == lzfDecompress(in, n)
<1>4. d = Got(s, <<>>) BY <1>2, <1>3 DEF Bind
<1> HIDE DEF d
<1>5. d.ok /\ d.val = s BY <1>4 DEF Got
<1>6. Decompressed(in, n, rest) = Bind(d, LAMBDA out, left : Got(out, rest)) BY DEF Decompressed, d
<1> QED BY <1>5, <1>6 DEF Bind

\* The lengths and the bytes of a compressed string, in front of rest.
CompressedParts(rd, a, b, in, s, rest) ==
  /\ IsLength(a, Len(in)) /\ IsLength(b, Len(s)) /\ Compresses(in, s) /\ rest \in Bytes
  /\ rd = a \o (b \o (in \o rest))

LEMMA CompressedReads ==
  \A rd, a, b, in, s, rest : CompressedParts(rd, a, b, in, s, rest) => ReadCompressed(rd) = Got(s, rest)
<1> SUFFICES ASSUME NEW rd, NEW a, NEW b, NEW in, NEW s, NEW rest, CompressedParts(rd, a, b, in, s, rest)
             PROVE  ReadCompressed(rd) = Got(s, rest)
  BY Zenon
<1>1. /\ a \in Bytes /\ b \in Bytes /\ in \in Bytes /\ s \in Bytes /\ rest \in Bytes
      /\ IsLength(a, Len(in)) /\ IsLength(b, Len(s)) /\ Compresses(in, s)
  BY DEF CompressedParts, IsLength, Compresses
<1> DEFINE rest2 == in \o rest
           rest1 == b \o rest2
<1>2. rd = a \o rest1 BY DEF CompressedParts
<1>3. rest2 \in Bytes BY <1>1, BytesConcat
<1>4. ReadBytes(rest2, Len(in)) = Got(in, rest) BY <1>1, BytesRead DEF Begins
<1> HIDE DEF rest2
<1>5. ReadLength(rest1) = Got(Len(s), rest2) BY <1>1, <1>3, LengthRead
<1>6. rest1 \in Bytes BY <1>1, <1>3, BytesConcat
<1> HIDE DEF rest1
<1>7. ReadLength(rd) = Got(Len(in), rest1) BY <1>1, <1>2, <1>6, LengthRead
<1> DEFINE r0 == ReadLength(rd)
           r1 == ReadLength(rest1)
           r2 == ReadBytes(rest2, Len(in))
<1>8. /\ r0.ok /\ r0.val = Len(in) /\ r0.rest = rest1
      /\ r1.ok /\ r1.val = Len(s) /\ r1.rest = rest2
      /\ r2.ok /\ r2.val = in /\ r2.rest = rest
  BY <1>4, <1>5, <1>7, GotHas
<1>9. ReadCompressed(rd) = Bind(r0, CompressedOut) BY CompressedUnfolds
<1> HIDE DEF r0
<1>10. Bind(r0, CompressedOut) = CompressedOut(Len(in), rest1) BY <1>8 DEF Bind
<1>11. CompressedOut(Len(in), rest1) = Bind(r1, LAMBDA outLen, left : CompressedIn(Len(in), outLen, left))
  BY DEF CompressedOut
<1> HIDE DEF r1
<1>12. CompressedOut(Len(in), rest1) = CompressedIn(Len(in), Len(s), rest2) BY <1>8, <1>11 DEF Bind
<1>13. CompressedIn(Len(in), Len(s), rest2) = Bind(r2, LAMBDA x, left : Decompressed(x, Len(s), left))
  BY DEF CompressedIn
<1> HIDE DEF r2
<1>14. CompressedIn(Len(in), Len(s), rest2) = Decompressed(in, Len(s), rest) BY <1>8, <1>13 DEF Bind
<1>15. Decompressed(in, Len(s), rest) = Got(s, rest) BY <1>1, DecompressedIs
<1> QED BY <1>9, <1>10, <1>12, <1>14, <1>15

LEMMA CompressedLoads ==
  \A s \in Strings, steps \in Nat : Compressible(s) => IsString(CompressedBytes(s, steps), s)
<1> TAKE s \in Strings, steps \in Nat
<1> HAVE Compressible(s)
<1>1. s \in Bytes /\ Len(s) \in Word BY DEF Strings
<1>2. PICK in : in = LzfBytes(s) /\ Compresses(in, s) /\ Len(in) \in Word
  <2>1. LzfBytes(s) \in Bytes /\ Len(LzfBytes(s)) <= 16387 /\ lzf[<<LzfBytes(s), <<>>>>] = Got(s, <<>>)
    BY <1>1, LzfLoads
  <2>2. Compresses(LzfBytes(s), s) BY <1>1, <2>1 DEF Compresses
  <2>3. Len(LzfBytes(s)) \in Nat /\ Len(LzfBytes(s)) <= 1000000000 BY <2>1 DEF Bytes
  <2>4. Len(LzfBytes(s)) \in Word BY <2>3, SmallIsWord
  <2> QED BY <2>2, <2>4
<1>3. PICK a : a = LengthBytes(Len(in), steps) /\ a \in Bytes /\ IsLength(a, Len(in))
  BY <1>2, LengthsLoad DEF AsLength
<1>4. PICK b : b = LengthBytes(Len(s), steps) /\ b \in Bytes /\ IsLength(b, Len(s))
  BY <1>1, LengthsLoad DEF AsLength
<1>5. PICK first : first = <<195>> /\ first \in Bytes
  <2>1. <<195>> \in Bytes BY DEF Bytes, Byte
  <2> QED BY <2>1
<1>6. in \in Bytes BY <1>2 DEF Compresses
<1>7. CompressedBytes(s, steps) = ((first \o a) \o b) \o in
  BY <1>2, <1>3, <1>4, <1>5 DEF CompressedBytes
<1>8. first \o a \in Bytes /\ (first \o a) \o b \in Bytes /\ ((first \o a) \o b) \o in \in Bytes
  <2>1. first \o a \in Bytes BY <1>3, <1>5, BytesConcat
  <2>2. (first \o a) \o b \in Bytes BY <1>4, <2>1, BytesConcat
  <2> QED BY <1>6, <2>1, <2>2, BytesConcat
<1>9. ASSUME NEW rest \in Bytes PROVE ReadString((((first \o a) \o b) \o in) \o rest) = Got(s, rest)
  <2> DEFINE x == in \o rest
             y == b \o x
             z == a \o y
             rd == (((first \o a) \o b) \o in) \o rest
             l == [len |-> 3, special |-> TRUE]
  <2>1. x \in Bytes BY <1>6, BytesConcat
  <2>2. rd = ((first \o a) \o b) \o x BY <1>6, <1>8, BytesAssociate
  <2>6. ReadCompressed(a \o (b \o (in \o rest))) = Got(s, rest)
    <3>1. CompressedParts(a \o (b \o (in \o rest)), a, b, in, s, rest)
      BY <1>2, <1>3, <1>4 DEF CompressedParts
    <3> QED BY Zenon, <3>1, CompressedReads
  <2> HIDE DEF x
  <2>3. y \in Bytes /\ ((first \o a) \o b) \o x = (first \o a) \o y
    <3>1. y \in Bytes BY <1>4, <2>1, BytesConcat
    <3>2. first \o a \in Bytes BY <1>8
    <3>3. ((first \o a) \o b) \o x = (first \o a) \o (b \o x) BY Zenon, <1>4, <2>1, <3>2, BytesAssociate
    <3> QED BY <3>1, <3>3
  <2> HIDE DEF y
  <2>4. z \in Bytes /\ (first \o a) \o y = first \o z
    <3>1. z \in Bytes BY <1>3, <2>3, BytesConcat
    <3>3. first \in Bytes /\ a \in Bytes /\ y \in Bytes BY <1>3, <1>5, <2>3
    <3>2. (first \o a) \o y = first \o (a \o y) BY Zenon, <3>3, BytesAssociate
    <3> QED BY <3>1, <3>2
  <2>7. ReadCompressed(z) = Got(s, rest) BY <2>6 DEF x, y
  <2> HIDE DEF z, rd
  <2>5. rd = <<195>> \o z BY <1>5, <2>2, <2>3, <2>4
  <2>8. readEncodedLength(<<195>> \o z) = Got(l, z)
    <3>1. PICK k \in 0 .. 3 : k = 3 /\ 192 + k = 195 OBVIOUS
    <3>2. readEncodedLength(<<192 + k>> \o z) = Got([len |-> k, special |-> TRUE], z)
      BY <2>4, SpecialLength
    <3> QED BY <3>1, <3>2
  <2>9. l.special /\ l.len = 3 OBVIOUS
  <2> HIDE DEF l
  <2>10. ReadString(rd) = StringAfter(l, z) BY <2>5, <2>8, StringBegins
  <2>11. 3 \notin 0 .. 2 OBVIOUS
  <2>12. StringAfter(l, z) = ReadCompressed(z) BY Zenon, <2>9, <2>11 DEF StringAfter
  <2> QED BY <2>7, <2>10, <2>12 DEF rd
<1> QED BY <1>7, <1>8, <1>9 DEF IsString

\* The bytes that a string is written as.
AsString(s) == {bytes \in Bytes : IsString(bytes, s)}

\* ReadString, with lzfDecompress: every string shorter than 2^32 bytes is read
\* back from each encoding it may have been stored with: as an integer of 8, 16
\* or 32 bits, compressed, or plain with any length form.
THEOREM StringsLoad == \A s \in Strings, steps \in Nat : IsString(StringBytes(s, steps), s)
<1> TAKE s \in Strings, steps \in Nat
<1>0. s \in Bytes /\ Len(s) \in Word BY DEF Strings
<1> DEFINE v == ParseInt(s)
           o1 == When(IsInt(s, 8), <<192>> \o IntBytes(v, 1))
           o2 == When(IsInt(s, 16), <<193>> \o IntBytes(v, 2))
           o3 == When(IsInt(s, 32), <<194>> \o IntBytes(v, 4))
           o4 == When(Compressible(s), CompressedBytes(s, steps))
           o5 == <<LengthBytes(Len(s), steps) \o s>>
           S == AsString(s)
<1>1. StringBytes(s, steps) = Choice(o1 \o o2 \o o3 \o o4 \o o5, steps) BY DEF StringBytes
<1>2. Optional(o1, S) /\ Optional(o2, S) /\ Optional(o3, S)
  <2>1. IntString(192, 0, 1, 8) /\ IntString(193, 1, 2, 16) /\ IntString(194, 2, 4, 32)
    BY Zenon DEF IntString
  <2>2. /\ IsInt(s, 8) => IsString(<<192>> \o IntBytes(v, 1), s)
        /\ IsInt(s, 16) => IsString(<<193>> \o IntBytes(v, 2), s)
        /\ IsInt(s, 32) => IsString(<<194>> \o IntBytes(v, 4), s)
    BY <1>0, <2>1, IntStringLoads
  <2>3. /\ IsInt(s, 8) => <<192>> \o IntBytes(v, 1) \in S
        /\ IsInt(s, 16) => <<193>> \o IntBytes(v, 2) \in S
        /\ IsInt(s, 32) => <<194>> \o IntBytes(v, 4) \in S
    BY Zenon, <2>2 DEF AsString, IsString
  <2> HIDE DEF S, v
  <2> QED BY <2>3 DEF When, Optional
<1>3. Optional(o4, S)
  <2>1. Compressible(s) => CompressedBytes(s, steps) \in S
    BY Zenon, CompressedLoads DEF AsString, IsString
  <2> HIDE DEF S
  <2> QED BY <2>1 DEF When, Optional
<1>4. LengthBytes(Len(s), steps) \o s \in S
  <2>1. IsString(Blob(s, steps), s) BY Zenon, <1>0, BlobsLoad
  <2> QED BY Zenon, <2>1 DEF Blob, AsString, IsString
<1> HIDE DEF o1, o2, o3, o4, S
<1>5. o5 \in Seq(S) /\ o5 # <<>>
  <2> DEFINE plain == LengthBytes(Len(s), steps) \o s
  <2> HIDE DEF plain
  <2>1. plain \in S BY <1>4 DEF plain
  <2>2. <<plain>> \in Seq(S) /\ <<plain>> # <<>> BY <2>1
  <2> QED BY <2>2 DEF plain
<1> HIDE DEF o5
<1>6. o1 \in Seq(S) /\ o2 \in Seq(S) /\ o3 \in Seq(S) /\ o4 \in Seq(S)
  BY Zenon, <1>2, <1>3, OptionalType
<1>7. o1 \o o2 \o o3 \o o4 \in Seq(S) BY <1>6
<1>8. o1 \o o2 \o o3 \o o4 \o o5 \in Seq(S) /\ o1 \o o2 \o o3 \o o4 \o o5 # <<>>
  <2> DEFINE others == o1 \o o2 \o o3 \o o4
  <2> HIDE DEF others
  <2>1. others \in Seq(S) BY <1>7 DEF others
  <2>2. others \o o5 \in Seq(S) /\ others \o o5 # <<>> BY <1>5, <2>1
  <2> QED BY <2>2 DEF others
<1>9. Choice(o1 \o o2 \o o3 \o o4 \o o5, steps) \in S BY Zenon, <1>8, ChoiceType
<1> QED BY <1>1, <1>9 DEF S, AsString

---------------------------------------------------------------------------
(* What FormatInt writes is what ParseInt reads *)

Digit == 48 .. 57

Worth(digits) == [i \in DOMAIN digits |-> digits[i] - 48]

\* digits are the decimal digits of n.
Means(digits, n) == digits \in Seq(Digit) /\ digits # <<>> /\ Horner(0, 10, Worth(digits)) = n

LEMMA WorthAppends ==
  \A digits \in Seq(Digit), d \in 0 .. 9 :
    /\ Worth(Append(digits, 48 + d)) = Append(Worth(digits), d)
    /\ Worth(digits) \in Seq(Int)
<1> TAKE digits \in Seq(Digit), d \in 0 .. 9
<1>1. \A i \in 1 .. Len(digits) : digits[i] - 48 \in Int BY DEF Digit
<1> DEFINE old == Worth(digits)
           more == Append(digits, 48 + d)
           new == Worth(more)
           t == Append(old, d)
<1>2. Len(digits) \in Nat /\ DOMAIN digits = 1 .. Len(digits) OBVIOUS
<1>3. old \in Seq(Int) /\ Len(old) = Len(digits) /\ \A i \in 1 .. Len(digits) : old[i] = digits[i] - 48
  BY <1>1, <1>2 DEF Worth
<1>4. /\ more \in Seq(Int) /\ Len(more) = Len(digits) + 1 /\ more[Len(digits) + 1] = 48 + d
      /\ \A i \in 1 .. Len(digits) : more[i] = digits[i]
  <2>1. digits \in Seq(Int) BY DEF Digit
  <2> QED BY <2>1
<1> HIDE DEF more, old
<1>5. /\ t \in Seq(Int) /\ Len(t) = Len(digits) + 1 /\ t[Len(digits) + 1] = d
      /\ \A i \in 1 .. Len(digits) : t[i] = old[i]
  BY <1>2, <1>3
<1> HIDE DEF t
<1>6. DOMAIN more = 1 .. Len(digits) + 1 BY <1>4
<1>7. new \in Seq(Int) /\ Len(new) = Len(digits) + 1 /\ \A i \in 1 .. Len(digits) + 1 : new[i] = more[i] - 48
  <2>1. new = [i \in 1 .. Len(digits) + 1 |-> more[i] - 48] BY Zenon, <1>6 DEF Worth
  <2>2. \A i \in 1 .. Len(digits) + 1 : more[i] - 48 \in Int BY <1>2, <1>4
  <2> HIDE DEF new
  <2> QED BY <1>2, <2>1, <2>2
<1> HIDE DEF new
<1>8. ASSUME NEW i \in 1 .. Len(new) PROVE new[i] = t[i]
  <2>1. CASE i = Len(digits) + 1
    <3>1. i \in 1 .. Len(digits) + 1 BY <1>7
    <3>2. new[i] = more[i] - 48 BY <1>7, <3>1
    <3>3. more[i] = 48 + d /\ t[i] = d BY <1>4, <1>5, <2>1
    <3>4. (48 + d) - 48 = d OBVIOUS
    <3> QED BY <3>2, <3>3, <3>4
  <2>2. CASE i # Len(digits) + 1
    <3>1. i \in 1 .. Len(digits) BY <1>2, <1>7, <2>2
    <3> QED BY <1>3, <1>4, <1>5, <1>7, <3>1
  <2> QED BY <2>1, <2>2
<1>9. new = t BY <1>5, <1>7, <1>8, SeqEqual
<1> QED BY <1>3, <1>9 DEF new, t, more, old

LEMMA MeansMore ==
  \A digits, n : \A d \in 0 .. 9 : Means(digits, n) => Means(Append(digits, 48 + d), 10 * n + d)
<1> TAKE digits, n
<1> TAKE d \in 0 .. 9
<1> HAVE Means(digits, n)
<1>1. digits \in Seq(Digit) /\ Horner(0, 10, Worth(digits)) = n BY DEF Means
<1>2. Worth(Append(digits, 48 + d)) = Append(Worth(digits), d) /\ Worth(digits) \in Seq(Int)
  BY <1>1, WorthAppends
<1>3. d \in Int OBVIOUS
<1>4. Horner(0, 10, Append(Worth(digits), d)) = 10 * Horner(0, 10, Worth(digits)) + d
  BY <1>2, <1>3, HornerAppends
<1>5. 48 + d \in Digit BY DEF Digit
<1>6. Append(digits, 48 + d) \in Seq(Digit) /\ Append(digits, 48 + d) # <<>>
  <2>1. PICK c \in Digit : c = 48 + d BY <1>5
  <2>2. Append(digits, c) \in Seq(Digit) /\ Append(digits, c) # <<>> BY <1>1
  <2> QED BY <2>1, <2>2
<1> QED BY <1>1, <1>2, <1>4, <1>6 DEF Means

LEMMA MeansOne == \A d \in 0 .. 9 : Means(<<48 + d>>, d)
<1> TAKE d \in 0 .. 9
<1>1. <<>> \in Seq(Digit) OBVIOUS
<1>2. Worth(Append(<<>>, 48 + d)) = Append(Worth(<<>>), d) /\ Worth(<<>>) \in Seq(Int)
  BY <1>1, WorthAppends
<1>3. Append(<<>>, 48 + d) = <<48 + d>> OBVIOUS
<1>4. Worth(<<>>) = <<>> BY DEF Worth
<1>5. d \in Int OBVIOUS
<1>6. Horner(0, 10, Append(Worth(<<>>), d)) = 10 * Horner(0, 10, Worth(<<>>)) + d
  BY <1>2, <1>5, HornerAppends
<1>7. Horner(0, 10, Worth(<<>>)) = 0 BY <1>4, HornerOfNone
<1>8. Horner(0, 10, Worth(<<48 + d>>)) = d
  <2>1. 10 * 0 + d = d OBVIOUS
  <2> QED BY Zenon, <1>2, <1>3, <1>6, <1>7, <2>1
<1>9. <<48 + d>> \in Seq(Digit) /\ <<48 + d>> # <<>> BY DEF Digit
<1> QED BY <1>8, <1>9 DEF Means

LEMMA DecimalsMean ==
  ASSUME NEW f, Decimals(f)
  PROVE  \A n \in Nat : Means(f[n], n)
<1>1. ASSUME NEW n \in Nat
      PROVE  f[n] = IF n < 10 THEN <<48 + n>> ELSE Append(f[n \div 10], 48 + (n % 10))
  BY DEF Decimals
<1> DEFINE N == {n \in Nat : \A k \in Nat : k < n => Means(f[k], k)}
<1>2. 0 \in N OBVIOUS
<1>3. ASSUME NEW n \in N PROVE n + 1 \in N
  <2> SUFFICES ASSUME NEW k \in Nat, k < n + 1 PROVE Means(f[k], k) OBVIOUS
  <2>1. CASE k < 10
    <3>1. k \in 0 .. 9 BY <2>1
    <3>2. f[k] = <<48 + k>> BY <1>1, <2>1
    <3> QED BY <3>1, <3>2, MeansOne
  <2>2. CASE ~(k < 10)
    <3>1. k \div 10 \in Nat /\ k \div 10 < n BY <2>2
    <3>2. Means(f[k \div 10], k \div 10) BY <3>1
    <3>3. k % 10 \in 0 .. 9 /\ k = 10 * (k \div 10) + (k % 10) OBVIOUS
    <3>4. Means(Append(f[k \div 10], 48 + (k % 10)), 10 * (k \div 10) + (k % 10))
      BY <3>2, <3>3, MeansMore
    <3>5. f[k] = Append(f[k \div 10], 48 + (k % 10)) BY <1>1, <2>2
    <3> QED BY <3>3, <3>4, <3>5
  <2> QED BY <2>1, <2>2
<1>4. N = Nat
  <2> HIDE DEF N
  <2>1. N \in SUBSET Nat BY DEF N
  <2> QED BY <1>2, <1>3, <2>1, NumberInduction
<1> SUFFICES ASSUME NEW n \in Nat PROVE Means(f[n], n) OBVIOUS
<1>5. n + 1 \in N
  <2> HIDE DEF N
  <2> QED BY <1>4
<1>6. n < n + 1 OBVIOUS
<1> QED BY <1>5, <1>6

LEMMA MeansUnsigned == \A s, n : Means(s, n) => IsInteger(s) /\ ParseInt(s) = n
<1> SUFFICES ASSUME NEW s, NEW n, Means(s, n) PROVE IsInteger(s) /\ ParseInt(s) = n OBVIOUS
<1>1. s \in Seq(Digit) /\ s # <<>> BY DEF Means
<1>2. Head(s) \in Digit /\ \A i \in DOMAIN s : s[i] \in Digit BY <1>1
<1>3. Head(s) # 43 /\ Head(s) # 45 BY <1>2 DEF Digit
<1>4. IsInteger(s) BY <1>1, <1>2, <1>3 DEF IsInteger, Digit
<1>5. ParseInt(s) = Horner(0, 10, Worth(s)) BY Zenon, <1>3 DEF ParseInt, Worth
<1> QED BY <1>4, <1>5 DEF Means

LEMMA MeansSigned == \A s, n : Means(s, n) => IsInteger(<<45>> \o s) /\ ParseInt(<<45>> \o s) = -n
<1> SUFFICES ASSUME NEW s, NEW n, Means(s, n)
             PROVE  IsInteger(<<45>> \o s) /\ ParseInt(<<45>> \o s) = -n
  OBVIOUS
<1>1. s \in Seq(Digit) /\ s # <<>> BY DEF Means
<1> DEFINE t == <<45>> \o s
<1>2. t # <<>> /\ Head(t) = 45 /\ Tail(t) = s
  <2>1. <<45>> \in Seq(Nat) /\ s \in Seq(Nat)
    <3>1. \A i \in 1 .. Len(s) : s[i] \in Nat BY <1>1 DEF Digit
    <3> QED BY <1>1, <3>1
  <2>2. Len(t) = 1 + Len(s) /\ t[1] = 45 /\ t \in Seq(Nat) /\ Len(s) \in Nat BY <2>1
  <2>3. t # <<>> /\ Head(t) = 45 BY <2>2
  <2>4. Tail(t) = s BY <2>1
  <2> QED BY <2>3, <2>4
<1> HIDE DEF t
<1>3. \A i \in DOMAIN s : s[i] \in Digit BY <1>1
<1>4. IsInteger(t) BY <1>1, <1>2, <1>3 DEF IsInteger, Digit
<1>5. 45 # 43 OBVIOUS
<1>6. ParseInt(t) = -Horner(0, 10, Worth(s))
  <2> DEFINE Value(digits) == Horner(0, 10, Worth(digits))
  <2>1. ParseInt(t) = CASE Head(t) = 43 -> Value(Tail(t))
                        [] Head(t) = 45 -> -Value(Tail(t))
                        [] OTHER        -> Value(t)
    BY Zenon DEF ParseInt, Worth
  <2> HIDE DEF Value
  <2>2. Head(t) # 43 /\ Head(t) = 45 BY <1>2, <1>5
  <2>3. ParseInt(t) = -Value(Tail(t)) BY Zenon, <2>1, <2>2
  <2> QED BY <1>2, <2>3 DEF Value
<1> QED BY <1>4, <1>6 DEF Means, t

\* An integer is its decimal text: strconv.FormatInt and ParseInt go round.
THEOREM FormatIntParses == \A v \in Int : IsNumber(FormatInt(v)) /\ ParseInt(FormatInt(v)) = v
<1> TAKE v \in Int
<1>1. PICK f : Decimals(f) /\ \A u \in Int : FormatInt(u) = IF u < 0 THEN <<45>> \o f[-u] ELSE f[u]
  BY FormatIntDigits
<1>2. \A n \in Nat : Means(f[n], n) BY <1>1, DecimalsMean
<1>3. IsInteger(FormatInt(v)) /\ ParseInt(FormatInt(v)) = v
  <2>1. CASE v < 0
    <3>1. PICK n \in Nat : n = -v BY <2>1
    <3>2. FormatInt(v) = <<45>> \o f[n] BY <1>1, <2>1, <3>1
    <3>3. IsInteger(<<45>> \o f[n]) /\ ParseInt(<<45>> \o f[n]) = -n BY <1>2, MeansSigned
    <3>4. -n = v BY <3>1
    <3> QED BY <3>2, <3>3, <3>4
  <2>2. CASE ~(v < 0)
    <3>1. v \in Nat BY <2>2
    <3>2. FormatInt(v) = f[v] BY <1>1, <2>2
    <3> QED BY <1>2, <3>1, <3>2, MeansUnsigned
  <2> QED BY <2>1, <2>2
<1> QED BY <1>3 DEF IsNumber
=============================================================================
