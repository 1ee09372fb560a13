--------------------------- MODULE OverheadProofs ---------------------------
(***************************************************************************)
(* Proofs about the estimates of Overhead, for every length and number of  *)
(* elements: they hold the content, those of lists but for the last        *)
(* ziplist and an element for each closed one, and none of them shrinks    *)
(* when an element is added or the key is longer.  With DataProofs, they   *)
(* prove the invariants that the run of MCOverhead checks, for every bound *)
(* and set of lengths: its states are arguments of the estimates.          *)
(***************************************************************************)
EXTENDS MCOverhead, DataProofs

---------------------------------------------------------------------------
(* The content of a key *)

\* The function that LevelSizes is computed with.
Levels(f) == f = [c \in Nat |-> IF c = 0 THEN <<>> ELSE <<c>> \o f[c \div 4]]

LEMMA QuarterIsLess == \A c \in Nat : c # 0 => c \div 4 \in Nat /\ c \div 4 < c
  OBVIOUS

LEMMA LevelsExist == \E f : Levels(f)
<1> DEFINE V == Seq(Nat)
           step == [g \in [Nat -> V] |-> [c \in Nat |-> IF c = 0 THEN <<>> ELSE <<c>> \o g[c \div 4]]]
           rank == [c \in Nat |-> c]
<1>1. step \in [[Nat -> V] -> [Nat -> V]]
  <2>1. ASSUME NEW g \in [Nat -> V], NEW c \in Nat
        PROVE  (IF c = 0 THEN <<>> ELSE <<c>> \o g[c \div 4]) \in V
    <3>1. CASE c = 0 BY <3>1
    <3>2. CASE c # 0
      <4>1. g[c \div 4] \in V BY <3>2, QuarterIsLess
      <4> QED BY <3>2, <4>1
    <3> QED BY <3>1, <3>2
  <2> HIDE DEF V
  <2> QED BY <2>1
<1>2. \A g, h \in [Nat -> V] : \A p \in Nat :
        (\A q \in Nat : rank[q] < rank[p] => g[q] = h[q]) => step[g][p] = step[h][p]
  <2> HIDE DEF V
  <2> QED BY QuarterIsLess
<1>3. PICK f : f \in [Nat -> V] /\ f = step[f]
  <2> DEFINE D == Nat
  <2>1. rank \in [Nat -> Nat] OBVIOUS
  <2> HIDE DEF step, rank
  <2>2. Descends(step, rank, D, V) BY <1>1, <1>2, <2>1 DEF Descends
  <2>3. V # {}
    <3>1. <<>> \in V OBVIOUS
    <3> QED BY <3>1
  <2> HIDE DEF V, D
  <2>4. \E f : f \in [D -> V] /\ f = step[f] BY <2>2, <2>3, RecursionByRank
  <2> QED BY <2>4 DEF D
<1>4. f = [c \in Nat |-> IF c = 0 THEN <<>> ELSE <<c>> \o f[c \div 4]]
  <2> HIDE DEF V
  <2> QED BY <1>3
<1> QED BY <1>4 DEF Levels

LEMMA LevelSizesType == \A count \in Nat : LevelSizes(count) \in Seq(Nat)
<1> DEFINE f == CHOOSE g : Levels(g)
           N == {n \in Nat : \A c \in 0 .. n : f[c] \in Seq(Nat)}
<1>1. Levels(f) BY LevelsExist
<1>2. \A count \in Nat : LevelSizes(count) = f[count] BY Zenon DEF LevelSizes, Levels
<1> HIDE DEF f
<1>3. 0 \in N BY <1>1 DEF Levels
<1>4. ASSUME NEW n \in N PROVE n + 1 \in N
  <2> SUFFICES ASSUME NEW c \in 0 .. n + 1 PROVE f[c] \in Seq(Nat) OBVIOUS
  <2>1. n \in Nat /\ c \in Nat OBVIOUS
  <2>2. CASE c = 0 BY <1>1, <2>2 DEF Levels
  <2>3. CASE c # 0
    <3>1. c \div 4 \in 0 .. n
      <4>1. c \div 4 \in Nat /\ c \div 4 < c /\ c <= n + 1 BY <2>1, <2>3, QuarterIsLess
      <4> QED BY <2>1, <4>1
    <3>2. f[c \div 4] \in Seq(Nat) BY <3>1
    <3>3. f[c] = <<c>> \o f[c \div 4] BY <1>1, <2>1, <2>3 DEF Levels
    <3> QED BY <2>1, <3>2, <3>3
  <2> QED BY <2>2, <2>3
<1>5. N = Nat
  <2> HIDE DEF N
  <2>1. N \in SUBSET Nat BY DEF N
  <2> QED BY <1>3, <1>4, <2>1, NumberInduction
<1>6. \A n \in Nat : n \in N
  <2> HIDE DEF N
  <2> QED BY <1>5
<1>7. ASSUME NEW n \in Nat PROVE f[n] \in Seq(Nat)
  <2>1. n \in N /\ n \in 0 .. n
    <3> HIDE DEF N
    <3> QED BY <1>6
  <2> QED BY <2>1
<1> QED BY <1>2, <1>7

LEMMA SequenceSums ==
  ASSUME NEW s \in Seq(Nat)
  PROVE  IsFiniteSet(1 .. Len(s)) /\ s \in [1 .. Len(s) -> Nat] /\ SumFunction(s) \in Nat
<1>1. IsFiniteSet(1 .. Len(s)) /\ s \in [1 .. Len(s) -> Nat] BY FS_Interval
<1> QED BY <1>1, SumFunctionType

LEMMA SdsHolds == \A len \in Nat : SdsOverhead(len) \in Nat /\ SdsOverhead(len) >= len
<1> TAKE len \in Nat
<1>1. SdsHeader(len) \in Nat BY DEF SdsHeader
<1>2. SdsHeader(len) + len \in Nat /\ SdsHeader(len) + len >= len BY <1>1
<1> QED BY <1>2, AllocationHolds DEF SdsOverhead

LEMMA HeadersType ==
  /\ DictEntryOverhead \in Nat /\ RedisObjOverhead \in Nat /\ DictHtOverhead \in Nat
  /\ DictOverhead \in Nat /\ ZsetOverhead \in Nat /\ ZskiplistOverhead \in Nat
<1>1. pointerSize = 8 /\ longSize = 8 BY DEF pointerSize, longSize
<1>2. DictHtOverhead \in Nat BY <1>1, AllocationHolds DEF DictHtOverhead
<1>3. 3 * pointerSize + 2 * DictHtOverhead + 4 \in Nat BY <1>1, <1>2
<1>4. DictOverhead \in Nat BY <1>3, AllocationHolds DEF DictOverhead
<1> QED BY <1>1, <1>2, <1>4, AllocationHolds
        DEF DictEntryOverhead, RedisObjOverhead, ZsetOverhead, ZskiplistOverhead

LEMMA SkiplistNodeHolds ==
  \A len \in Nat : ZskiplistNodeOverhead(len) \in Nat /\ ZskiplistNodeOverhead(len) >= len
<1> TAKE len \in Nat
<1>1. 2 * pointerSize + longSize \in Nat BY DEF pointerSize, longSize
<1>2. SdsOverhead(len) \in Nat /\ SdsOverhead(len) >= len BY SdsHolds
<1>3. MallocOverhead(SdsOverhead(len)) \in Nat /\ MallocOverhead(SdsOverhead(len)) >= len
  BY <1>2, AllocationHolds
<1>4. MallocOverhead(2 * pointerSize + longSize) \in Nat BY <1>1, AllocationHolds
<1> QED BY <1>3, <1>4 DEF ZskiplistNodeOverhead

\* A sum of overheads each of which holds its element holds all elements.
LEMMA OverheadsHold ==
  ASSUME NEW s \in Seq(Nat), NEW g, g \in [1 .. Len(s) -> Nat],
         \A i \in 1 .. Len(s) : g[i] >= s[i]
  PROVE  SumFunction(g) \in Nat /\ SumFunction(g) >= SumFunction(s)
<1>1. IsFiniteSet(1 .. Len(s)) /\ s \in [1 .. Len(s) -> Nat] /\ SumFunction(s) \in Nat
  BY SequenceSums
<1>2. SumFunction(g) \in Nat BY <1>1, SumFunctionType
<1>3. \A i \in 1 .. Len(s) : s[i] <= g[i] BY <1>1
<1>4. SumFunction(s) <= SumFunction(g) BY <1>1, <1>3, SumFunctionMonotone
<1> QED BY <1>1, <1>2, <1>4

---------------------------------------------------------------------------
(* An element more, or a longer key *)

LEMMA Pow2Ascends == \A k, l \in Nat : k <= l => Pow2[k] <= Pow2[l]
<1> TAKE k, l \in Nat
<1> HAVE k <= l
<1> DEFINE N == {n \in Nat : Pow2[k] <= Pow2[k + n]}
<1>1. 0 \in N
  <2>1. k + 0 = k /\ Pow2[k] \in Nat BY Pow2Type
  <2> QED BY <2>1
<1>2. ASSUME NEW n \in N PROVE n + 1 \in N
  <2>1. n \in Nat /\ k + n \in Nat /\ k + (n + 1) = (k + n) + 1 OBVIOUS
  <2>2. Pow2[(k + n) + 1] = 2 * Pow2[k + n] BY <2>1, Pow2Recursion
  <2>3. Pow2[k] \in Nat /\ Pow2[k + n] \in Nat /\ Pow2[k] <= Pow2[k + n] BY <2>1, Pow2Type
  <2> QED BY <2>1, <2>2, <2>3
<1>3. N = Nat
  <2> HIDE DEF N
  <2>1. N \in SUBSET Nat BY DEF N
  <2> QED BY <1>1, <1>2, <2>1, NumberInduction
<1>4. l - k \in N
  <2>1. l - k \in Nat OBVIOUS
  <2> HIDE DEF N
  <2> QED BY <1>3, <2>1
<1>5. k + (l - k) = l OBVIOUS
<1> QED BY <1>4, <1>5

LEMMA NextPowerMonotone ==
  \A need, more \in Nat : need <= more =>
    NextPower(need) \in Nat /\ NextPower(more) \in Nat /\ NextPower(need) <= NextPower(more)
<1> TAKE need, more \in Nat
<1> HAVE need <= more
<1>1. PICK k \in Nat : NextPower(need) = Pow2[k] /\ Pow2[k] > need /\ Pow2[k] <= 2 * need + 1
  BY NextPowerHolds
<1>2. PICK l \in Nat : NextPower(more) = Pow2[l] /\ Pow2[l] > more /\ Pow2[l] <= 2 * more + 1
  BY NextPowerHolds
<1>3. Pow2[k] \in Nat /\ Pow2[l] \in Nat BY Pow2Type
<1>4. CASE k <= l BY <1>1, <1>2, <1>3, <1>4, Pow2Ascends
<1>5. CASE k > l
  <2>1. l + 1 \in Nat /\ l + 1 <= k BY <1>5
  <2>2. Pow2[l + 1] <= Pow2[k] BY <2>1, Pow2Ascends
  <2>3. Pow2[l + 1] = 2 * Pow2[l] BY Pow2Recursion
  <2> QED BY <1>1, <1>2, <1>3, <2>2, <2>3
<1> QED BY <1>4, <1>5

LEMMA FieldBucketsMonotone ==
  \A need, more \in Nat : need <= more => FieldBucketOverhead(need) <= FieldBucketOverhead(more)
<1> TAKE need, more \in Nat
<1> HAVE need <= more
<1>1. PICK p, q \in Nat : p = NextPower(need) /\ q = NextPower(more) /\ p <= q
  BY NextPowerMonotone
<1> DEFINE large(r) == r * pointerSize
           small(r) == (r \div 2) * pointerSize
<1>2. /\ large(p) \in Nat /\ large(q) \in Nat /\ large(p) <= large(q)
      /\ small(p) \in Nat /\ small(q) \in Nat /\ small(p) <= small(q)
  BY <1>1 DEF pointerSize
<1>3. /\ FieldBucketOverhead(need) = MallocOverhead(large(p)) + MallocOverhead(small(p))
      /\ FieldBucketOverhead(more) = MallocOverhead(large(q)) + MallocOverhead(small(q))
  BY <1>1 DEF FieldBucketOverhead
<1> HIDE DEF large, small
<1>4. /\ MallocOverhead(large(p)) \in Nat /\ MallocOverhead(large(q)) \in Nat
      /\ MallocOverhead(small(p)) \in Nat /\ MallocOverhead(small(q)) \in Nat
  BY <1>2, AllocationHolds
<1>5. /\ MallocOverhead(large(p)) <= MallocOverhead(large(q))
      /\ MallocOverhead(small(p)) <= MallocOverhead(small(q))
  BY <1>2, AllocationMonotone
<1> QED BY <1>3, <1>4, <1>5

LEMMA SdsMonotone == \A len \in Nat : SdsOverhead(len) <= SdsOverhead(len + 1)
<1> TAKE len \in Nat
<1>1. /\ SdsHeader(len) \in Nat /\ SdsHeader(len + 1) \in Nat
      /\ SdsHeader(len) <= SdsHeader(len + 1)
  <2>1. \A n \in Nat : SdsHeader(n) = IF n < 256 THEN 4 ELSE IF n < 65536 THEN 6
                                      ELSE IF n \div 65536 < 65536 THEN 10 ELSE 18
    BY DEF SdsHeader
  <2>2. len + 1 \in Nat /\ len \div 65536 <= (len + 1) \div 65536 OBVIOUS
  <2>3. len \div 65536 \in Nat /\ (len + 1) \div 65536 \in Nat OBVIOUS
  <2>4. SdsHeader(len) = IF len < 256 THEN 4 ELSE IF len < 65536 THEN 6
                         ELSE IF len \div 65536 < 65536 THEN 10 ELSE 18
    BY <2>1
  <2>5. SdsHeader(len + 1) = IF len + 1 < 256 THEN 4 ELSE IF len + 1 < 65536 THEN 6
                             ELSE IF (len + 1) \div 65536 < 65536 THEN 10 ELSE 18
    BY <2>1, <2>2
  <2> QED BY <2>2, <2>3, <2>4, <2>5
<1>2. /\ SdsHeader(len) + len \in Nat /\ SdsHeader(len + 1) + (len + 1) \in Nat
      /\ SdsHeader(len) + len <= SdsHeader(len + 1) + (len + 1)
  BY <1>1
<1> QED BY <1>2, AllocationMonotone DEF SdsOverhead

---------------------------------------------------------------------------
(* The levels of a skip list *)

LEMMA LevelSizesRecursion ==
  \A count \in Nat : LevelSizes(count) = IF count = 0 THEN <<>>
                                         ELSE <<count>> \o LevelSizes(count \div 4)
<1> DEFINE f == CHOOSE g : Levels(g)
<1>1. Levels(f) BY LevelsExist
<1>2. \A count \in Nat : LevelSizes(count) = f[count] BY Zenon DEF LevelSizes, Levels
<1> HIDE DEF f
<1> TAKE count \in Nat
<1>3. f[count] = IF count = 0 THEN <<>> ELSE <<count>> \o f[count \div 4] BY <1>1 DEF Levels
<1>4. count \div 4 \in Nat OBVIOUS
<1> QED BY <1>2, <1>3, <1>4

LEMMA SumPrepends ==
  ASSUME NEW s \in Seq(Nat), NEW c \in Nat
  PROVE  SumFunction(<<c>> \o s) = c + SumFunction(s)
<1> DEFINE short(m) == [i \in 1 .. m |-> s[i]]
           long(m) == [i \in 1 .. m + 1 |-> IF i = 1 THEN c ELSE s[i - 1]]
           N == {m \in Nat : m <= Len(s) => SumFunction(long(m)) = c + SumFunction(short(m))}
<1>1. 0 \in N
  <2> DEFINE f == [i \in {} |-> 0]
  <2>1. SumFunction(f) = 0 BY SumOfNothing
  <2>2. SumFunction(short(0)) = 0
    <3>1. DOMAIN short(0) = {} OBVIOUS
    <3> HIDE DEF short
    <3> QED BY <3>1, SumOfNothing
  <2>3. long(0) \in [{} \cup {1} -> Int] /\ long(0)[1] = c
    <3>1. 1 .. 0 + 1 = {} \cup {1} OBVIOUS
    <3> QED BY <3>1
  <2>4. IsFiniteSet({}) BY FS_EmptySet
  <2>5. AddsOne(long(0), f, {}, 1) BY <2>3, <2>4 DEF AddsOne
  <2> HIDE DEF long, f, short
  <2>6. SumFunction(long(0)) = 0 + c BY <2>1, <2>3, <2>5, SumFunctionAdds
  <2> QED BY <2>2, <2>6
<1>2. ASSUME NEW m \in N PROVE m + 1 \in N
  <2> SUFFICES ASSUME m + 1 <= Len(s)
               PROVE  SumFunction(long(m + 1)) = c + SumFunction(short(m + 1))
    OBVIOUS
  <2>1. m \in Nat /\ m + 1 \in Nat /\ Len(s) \in Nat OBVIOUS
  <2>2. SumFunction(long(m)) = c + SumFunction(short(m)) BY <2>1
  <2>3. \A i \in 1 .. m + 1 : s[i] \in Nat BY <2>1
  <2>4. AddsOne(short(m + 1), short(m), 1 .. m, m + 1)
    <3>1. IsFiniteSet(1 .. m) /\ m + 1 \notin 1 .. m BY <2>1, FS_Interval
    <3>2. 1 .. m + 1 = (1 .. m) \cup {m + 1} BY <2>1
    <3>3. short(m) \in [1 .. m -> Int] /\ short(m + 1) \in [1 .. m + 1 -> Int] BY <2>1, <2>3
    <3>4. \A i \in 1 .. m : short(m)[i] = short(m + 1)[i] BY <2>1
    <3> HIDE DEF short
    <3> QED BY <3>1, <3>2, <3>3, <3>4 DEF AddsOne
  <2>5. AddsOne(long(m + 1), long(m), 1 .. m + 1, m + 2)
    <3>1. IsFiniteSet(1 .. m + 1) /\ m + 2 \notin 1 .. m + 1 BY <2>1, FS_Interval
    <3>2. 1 .. (m + 1) + 1 = (1 .. m + 1) \cup {m + 2} BY <2>1
    <3>3. long(m) \in [1 .. m + 1 -> Int] /\ long(m + 1) \in [1 .. (m + 1) + 1 -> Int]
      <4>1. \A i \in 1 .. (m + 1) + 1 : i = 1 \/ i - 1 \in 1 .. m + 1 BY <2>1
      <4>2. \A i \in 1 .. (m + 1) + 1 : (IF i = 1 THEN c ELSE s[i - 1]) \in Int BY <2>3, <4>1
      <4> QED BY <2>1, <4>2
    <3>4. \A i \in 1 .. m + 1 : long(m)[i] = long(m + 1)[i] BY <2>1
    <3> HIDE DEF long
    <3> QED BY <3>1, <3>2, <3>3, <3>4 DEF AddsOne
  <2>6. short(m + 1)[m + 1] = s[m + 1] /\ long(m + 1)[m + 2] = s[m + 1]
    <3>1. m + 1 \in 1 .. m + 1 /\ m + 2 \in 1 .. (m + 1) + 1 /\ m + 2 # 1 /\ (m + 2) - 1 = m + 1
      BY <2>1
    <3> QED BY <3>1
  <2>7. s[m + 1] \in Nat BY <2>1
  <2>8. SumFunction(short(m)) \in Nat
    <3>1. IsFiniteSet(1 .. m) BY <2>1, FS_Interval
    <3>2. short(m) \in [1 .. m -> Nat] BY <2>1, <2>3
    <3> HIDE DEF short
    <3> QED BY <3>1, <3>2, SumFunctionType
  <2> HIDE DEF short, long
  <2>9. SumFunction(short(m + 1)) = SumFunction(short(m)) + s[m + 1]
    BY <2>4, <2>6, SumFunctionAdds
  <2>10. SumFunction(long(m + 1)) = SumFunction(long(m)) + s[m + 1]
    BY <2>5, <2>6, SumFunctionAdds
  <2> QED BY <2>2, <2>7, <2>8, <2>9, <2>10
<1>3. N = Nat
  <2> HIDE DEF N
  <2>1. N \in SUBSET Nat BY DEF N
  <2> QED BY <1>1, <1>2, <2>1, NumberInduction
<1>4. Len(s) \in N
  <2>1. Len(s) \in Nat OBVIOUS
  <2> HIDE DEF N
  <2> QED BY <1>3, <2>1
<1>5. short(Len(s)) = s OBVIOUS
<1>6. long(Len(s)) = <<c>> \o s OBVIOUS
<1> HIDE DEF short, long
<1>7. Len(s) \in Nat /\ Len(s) <= Len(s) OBVIOUS
<1>8. SumFunction(long(Len(s))) = c + SumFunction(short(Len(s))) BY <1>4, <1>7
<1> QED BY <1>5, <1>6, <1>8

LEMMA LevelsSum ==
  \A count \in Nat : /\ SumFunction(LevelSizes(count)) \in Nat
                     /\ SumFunction(LevelSizes(count)) =
                          IF count = 0 THEN 0
                          ELSE count + SumFunction(LevelSizes(count \div 4))
<1> TAKE count \in Nat
<1>1. LevelSizes(count) \in Seq(Nat) BY LevelSizesType
<1>2. SumFunction(LevelSizes(count)) \in Nat BY <1>1, SequenceSums
<1>3. CASE count = 0
  <2>1. LevelSizes(count) = <<>> BY <1>3, LevelSizesRecursion
  <2>2. DOMAIN LevelSizes(count) = {} BY <2>1
  <2> QED BY <1>2, <1>3, <2>2, SumOfNothing
<1>4. CASE count # 0
  <2>1. count \div 4 \in Nat OBVIOUS
  <2>2. LevelSizes(count \div 4) \in Seq(Nat) BY <2>1, LevelSizesType
  <2>3. LevelSizes(count) = <<count>> \o LevelSizes(count \div 4) BY <1>4, LevelSizesRecursion
  <2> QED BY <1>2, <1>4, <2>2, <2>3, SumPrepends
<1> QED BY <1>3, <1>4

\* A longer skip list never has less on its levels.
LEMMA LevelsMonotone ==
  \A count, more \in Nat : count <= more =>
    SumFunction(LevelSizes(count)) <= SumFunction(LevelSizes(more))
<1> DEFINE L(c) == SumFunction(LevelSizes(c))
           N == {n \in Nat : \A c, d \in Nat : c <= d /\ d < n => L(c) <= L(d)}
<1>1. \A c \in Nat : L(c) \in Nat /\ L(c) = IF c = 0 THEN 0 ELSE c + L(c \div 4) BY LevelsSum
<1> HIDE DEF L
<1>2. 0 \in N OBVIOUS
<1>3. ASSUME NEW n \in N PROVE n + 1 \in N
  <2> SUFFICES ASSUME NEW c \in Nat, NEW d \in Nat, c <= d, d < n + 1 PROVE L(c) <= L(d)
    OBVIOUS
  <2>1. CASE c = 0 BY <1>1, <2>1
  <2>2. CASE c # 0
    <3>1. c \div 4 \in Nat /\ d \div 4 \in Nat /\ c \div 4 <= d \div 4 /\ d \div 4 < n BY <2>2
    <3>2. L(c \div 4) <= L(d \div 4) BY <3>1
    <3>3. L(c) = c + L(c \div 4) /\ L(d) = d + L(d \div 4) BY <1>1, <2>2
    <3>4. L(c \div 4) \in Nat /\ L(d \div 4) \in Nat BY <1>1, <3>1
    <3> QED BY <3>2, <3>3, <3>4
  <2> QED BY <2>1, <2>2
<1>4. N = Nat
  <2> HIDE DEF N
  <2>1. N \in SUBSET Nat BY DEF N
  <2> QED BY <1>2, <1>3, <2>1, NumberInduction
<1>5. ASSUME NEW c \in Nat, NEW d \in Nat, c <= d PROVE L(c) <= L(d)
  <2>1. d + 1 \in Nat /\ d < d + 1 OBVIOUS
  <2>2. d + 1 \in {n \in Nat : \A a, b \in Nat : a <= b /\ b < n => L(a) <= L(b)} BY <1>4, <2>1
  <2> QED BY <1>5, <2>1, <2>2
<1> QED BY <1>5 DEF L

---------------------------------------------------------------------------
(* The loop over the elements of a list *)

LEMMA MaxIsElement ==
  \A n \in Nat : \A t \in SUBSET (1 .. n) : t # {} => Max(t) \in t /\ \A x \in t : Max(t) >= x
<1> DEFINE HasGreatest(t) == \E m \in t : \A x \in t : m >= x
           N == {n \in Nat : \A t \in SUBSET (1 .. n) : t # {} => HasGreatest(t)}
<1>1. 0 \in N
  <2>1. \A t \in SUBSET (1 .. 0) : t = {} OBVIOUS
  <2> HIDE DEF HasGreatest
  <2> QED BY <2>1
<1>2. ASSUME NEW n \in N PROVE n + 1 \in N
  <2> SUFFICES ASSUME NEW t \in SUBSET (1 .. n + 1), t # {} PROVE HasGreatest(t) OBVIOUS
  <2>1. n \in Nat OBVIOUS
  <2>2. CASE n + 1 \in t
    <3>1. \A x \in t : n + 1 >= x BY <2>1
    <3> QED BY <2>2, <3>1
  <2>3. CASE n + 1 \notin t
    <3>1. t \in SUBSET (1 .. n) BY <2>1, <2>3
    <3> HIDE DEF HasGreatest
    <3> QED BY <3>1
  <2> QED BY <2>2, <2>3
<1>3. N = Nat
  <2> HIDE DEF N
  <2>1. N \in SUBSET Nat BY DEF N
  <2> QED BY <1>1, <1>2, <2>1, NumberInduction
<1> TAKE n \in Nat
<1> TAKE t \in SUBSET (1 .. n)
<1> HAVE t # {}
<1>4. HasGreatest(t)
  <2> HIDE DEF HasGreatest
  <2> QED BY <1>3
<1>5. PICK m \in t : \A x \in t : m >= x BY <1>4
<1> QED BY <1>5, Zenon DEF Max

Acc == [previous : Nat, size : Nat, nodes : Nat, data : Nat]

LEMMA ListStepType ==
  \A acc \in Acc, len \in Nat : ListStep(acc, len) \in Acc
<1> TAKE acc \in Acc, len \in Nat
<1>1. ZlentryOverhead(acc.previous, len) \in Nat BY DEF ZlentryOverhead, Acc
<1>2. ZiplistOverhead \in Nat /\ maxZipListSize \in Nat BY DEF ZiplistOverhead, maxZipListSize
<1>3. MallocOverhead(acc.size) \in Nat BY AllocationHolds DEF Acc
<1> DEFINE entry == ZlentryOverhead(acc.previous, len)
<1>4. CASE acc.size + entry > maxZipListSize
  <2>1. ListStep(acc, len) = [previous |-> len, size |-> ZiplistOverhead, nodes |-> acc.nodes + 1,
                              data |-> acc.data + MallocOverhead(acc.size)]
    BY <1>4 DEF ListStep
  <2> QED BY <1>2, <1>3, <2>1 DEF Acc
<1>5. CASE ~(acc.size + entry > maxZipListSize)
  <2>1. ListStep(acc, len) = [acc EXCEPT !.previous = len, !.size = @ + entry]
    BY <1>5 DEF ListStep
  <2> HIDE DEF entry
  <2>2. acc.size + entry \in Nat BY <1>1 DEF Acc, entry
  <2>3. ListStep(acc, len) = [previous |-> len, size |-> acc.size + entry, nodes |-> acc.nodes,
                              data |-> acc.data]
    BY <2>1 DEF Acc
  <2> QED BY <2>2, <2>3 DEF Acc
<1> QED BY <1>4, <1>5

\* The function that the loop over a list is computed with.
Accumulates(g, s) ==
  g = [t \in SUBSET (DOMAIN s) |->
         IF t = {} THEN ListStart ELSE ListStep(g[t \ {Max(t)}], s[Max(t)])]

LEMMA AccumulationExists == \A s \in Seq(Nat) : \E g : Accumulates(g, s)
<1> TAKE s \in Seq(Nat)
<1> DEFINE D == SUBSET (1 .. Len(s))
           V == Acc
           step == [g \in [D -> V] |->
                      [t \in D |-> IF t = {} THEN ListStart ELSE ListStep(g[t \ {Max(t)}], s[Max(t)])]]
           rank == [t \in D |-> Cardinality(t)]
<1>1. Len(s) \in Nat /\ DOMAIN s = 1 .. Len(s) /\ \A i \in 1 .. Len(s) : s[i] \in Nat OBVIOUS
<1>2. \A t \in D : IsFiniteSet(t) /\ Cardinality(t) \in Nat
  <2>1. IsFiniteSet(1 .. Len(s)) BY <1>1, FS_Interval
  <2> QED BY <2>1, FS_Subset, FS_CardinalityType
<1>3. ASSUME NEW t \in D, t # {}
      PROVE  /\ Max(t) \in t /\ s[Max(t)] \in Nat /\ t \ {Max(t)} \in D
             /\ rank[t \ {Max(t)}] < rank[t]
  <2>1. Max(t) \in t BY <1>1, <1>3, MaxIsElement
  <2>2. t \ {Max(t)} \in D /\ s[Max(t)] \in Nat BY <1>1, <2>1
  <2>3. Cardinality(t \ {Max(t)}) = Cardinality(t) - 1 BY <1>2, <2>1, FS_RemoveElement
  <2>4. Cardinality(t) \in Nat BY <1>2
  <2> HIDE DEF D
  <2> QED BY <2>1, <2>2, <2>3, <2>4
<1> HIDE DEF D
<1>4. ListStart \in V BY DEF ListStart, Acc, ZiplistOverhead
<1>5. step \in [[D -> V] -> [D -> V]]
  <2>1. ASSUME NEW g \in [D -> V], NEW t \in D
        PROVE  (IF t = {} THEN ListStart ELSE ListStep(g[t \ {Max(t)}], s[Max(t)])) \in V
    <3>1. CASE t = {} BY <1>4, <3>1
    <3>2. CASE t # {}
      <4>1. t \ {Max(t)} \in D /\ s[Max(t)] \in Nat BY <1>3, <3>2
      <4>2. g[t \ {Max(t)}] \in Acc BY <4>1
      <4> QED BY <3>2, <4>1, <4>2, ListStepType
    <3> QED BY <3>1, <3>2
  <2> HIDE DEF V
  <2> QED BY <2>1
<1>6. rank \in [D -> Nat]
  <2>1. \A t \in D : Cardinality(t) \in Nat BY <1>2
  <2> QED BY <2>1
<1>7. \A g, h \in [D -> V] : \A t \in D :
        (\A u \in D : rank[u] < rank[t] => g[u] = h[u]) => step[g][t] = step[h][t]
  <2> HIDE DEF V, rank
  <2> QED BY <1>3
<1>8. PICK g : g \in [D -> V] /\ g = step[g]
  <2>1. V # {} BY <1>4
  <2> HIDE DEF step, rank, V
  <2>2. Descends(step, rank, D, V) BY <1>5, <1>6, <1>7 DEF Descends
  <2> QED BY <2>1, <2>2, RecursionByRank
<1>9. g = [t \in D |-> IF t = {} THEN ListStart ELSE ListStep(g[t \ {Max(t)}], s[Max(t)])]
  <2> HIDE DEF V
  <2> QED BY <1>8
<1>10. SUBSET (DOMAIN s) = D BY <1>1 DEF D
<1>11. Accumulates(g, s) BY <1>9, <1>10 DEF Accumulates
<1> QED BY <1>11

LEMMA Accumulation ==
  ASSUME NEW s \in Seq(Nat)
  PROVE  \E g : Accumulates(g, s) /\ ListLoop(s) = g[DOMAIN s]
<1> DEFINE it == CHOOSE g : Accumulates(g, s)
<1>1. Accumulates(it, s) BY AccumulationExists
<1>2. ListLoop(s) = it[DOMAIN s]
  BY Zenon DEF ListLoop, FoldLeft, MapThenFoldSet, Accumulates
<1> HIDE DEF it
<1> QED BY <1>1, <1>2

LEMMA AccumulatesType ==
  ASSUME NEW s \in Seq(Nat), NEW g, Accumulates(g, s)
  PROVE  \A t \in SUBSET (1 .. Len(s)) : g[t] \in Acc
<1> DEFINE S == 1 .. Len(s)
           Q == {t \in SUBSET S : g[t] \in Acc}
<1>1. Len(s) \in Nat /\ DOMAIN s = S /\ IsFiniteSet(S) BY FS_Interval
<1>2. ASSUME NEW t \in SUBSET S, \A x \in t : t \ {x} \in Q PROVE t \in Q
  <2>1. g[t] = IF t = {} THEN ListStart ELSE ListStep(g[t \ {Max(t)}], s[Max(t)])
    BY <1>1 DEF Accumulates
  <2>2. CASE t = {} BY <2>1, <2>2 DEF ListStart, Acc, ZiplistOverhead
  <2>3. CASE t # {}
    <3>1. Max(t) \in t BY <1>1, <2>3, MaxIsElement
    <3>2. t \ {Max(t)} \in Q BY <1>2, <3>1
    <3>3. g[t \ {Max(t)}] \in Acc BY <3>2
    <3>4. s[Max(t)] \in Nat
      <4>1. \A i \in S : s[i] \in Nat OBVIOUS
      <4>2. Max(t) \in S BY <3>1
      <4> HIDE DEF S
      <4> QED BY <4>1, <4>2
    <3> QED BY <2>1, <2>3, <3>3, <3>4, ListStepType
  <2> QED BY <2>2, <2>3
<1>3. Q = SUBSET S
  <2> HIDE DEF Q, S
  <2>1. Q \in SUBSET SUBSET S BY DEF Q
  <2> QED BY <1>1, <1>2, <2>1, SubsetInduction
<1> QED BY <1>3

\* One more element is one more step.
LEMMA ListLoopStep ==
  ASSUME NEW s \in Seq(Nat), NEW len \in Nat
  PROVE  /\ ListLoop(s) \in Acc
         /\ ListLoop(Append(s, len)) = ListStep(ListLoop(s), len)
<1> DEFINE n == Len(s)
           S == 1 .. n
           longer == Append(s, len)
<1>1. /\ n \in Nat /\ DOMAIN s = S /\ IsFiniteSet(S)
      /\ longer \in Seq(Nat) /\ DOMAIN longer = 1 .. n + 1
      /\ longer[n + 1] = len /\ \A i \in S : longer[i] = s[i]
  <2>1. n \in Nat /\ DOMAIN s = S OBVIOUS
  <2>2. IsFiniteSet(S) BY <2>1, FS_Interval
  <2>3. longer \in Seq(Nat) /\ Len(longer) = n + 1 OBVIOUS
  <2>4. longer[n + 1] = len /\ \A i \in S : longer[i] = s[i] OBVIOUS
  <2>5. DOMAIN longer = 1 .. Len(longer) BY <2>3
  <2> QED BY <2>1, <2>2, <2>3, <2>4, <2>5
<1> HIDE DEF longer
<1>2. PICK g : Accumulates(g, s) /\ ListLoop(s) = g[DOMAIN s] BY Accumulation
<1>3. PICK h : Accumulates(h, longer) /\ ListLoop(longer) = h[DOMAIN longer]
  BY <1>1, Accumulation
<1>4. S \in SUBSET S BY <1>1
<1>5. ListLoop(s) \in Acc BY <1>1, <1>2, <1>4, AccumulatesType
<1>6. h[S] = g[S]
  <2> DEFINE Q == {t \in SUBSET S : h[t] = g[t]}
  <2>1. ASSUME NEW t \in SUBSET S, \A x \in t : t \ {x} \in Q PROVE t \in Q
    <3>1. g[t] = IF t = {} THEN ListStart ELSE ListStep(g[t \ {Max(t)}], s[Max(t)])
      BY <1>1, <1>2 DEF Accumulates
    <3>2. t \in SUBSET (1 .. n + 1) BY <1>1
    <3>3. h[t] = IF t = {} THEN ListStart ELSE ListStep(h[t \ {Max(t)}], longer[Max(t)])
      BY <1>1, <1>3, <3>2 DEF Accumulates
    <3>4. CASE t = {} BY <3>1, <3>3, <3>4
    <3>5. CASE t # {}
      <4>1. Max(t) \in t BY <1>1, <3>5, MaxIsElement
      <4>2. h[t \ {Max(t)}] = g[t \ {Max(t)}] BY <2>1, <4>1
      <4>3. longer[Max(t)] = s[Max(t)] BY <1>1, <4>1
      <4> QED BY <3>1, <3>3, <3>5, <4>2, <4>3
    <3> QED BY <3>4, <3>5
  <2>2. Q = SUBSET S
    <3> HIDE DEF Q, S
    <3>1. Q \in SUBSET SUBSET S BY DEF Q
    <3> QED BY <1>1, <2>1, <3>1, SubsetInduction
  <2> QED BY <1>4, <2>2
<1>7. h[1 .. n + 1] = ListStep(h[S], len)
  <2> DEFINE t == 1 .. n + 1
  <2>1. t \in SUBSET t /\ t # {} /\ n + 1 \in Nat /\ n + 1 \in t BY <1>1
  <2>2. h[t] = ListStep(h[t \ {Max(t)}], longer[Max(t)])
    BY <1>1, <1>3, <2>1 DEF Accumulates
  <2>3. Max(t) = n + 1
    <3>1. Max(t) \in t /\ Max(t) >= n + 1 BY <2>1, MaxIsElement
    <3> QED BY <1>1, <3>1
  <2>4. t \ {n + 1} = S BY <1>1
  <2> HIDE DEF t, S
  <2> QED BY <1>1, <2>2, <2>3, <2>4 DEF t
<1> HIDE DEF S, n
<1> QED BY <1>1, <1>2, <1>3, <1>5, <1>6, <1>7 DEF longer

\* One more element of a list never costs less: it makes the ziplist longer or
\* closes it.
LEMMA ListGrows ==
  \A key \in Nat, contents \in Seq(Nat), len \in Nat :
    /\ ListMemOverhead(key, contents) \in Nat
    /\ ListMemOverhead(key, contents) <= ListMemOverhead(key, Append(contents, len))
    /\ ListMemOverhead(key, contents) <= ListMemOverhead(key + 1, contents)
<1> TAKE key \in Nat, contents \in Seq(Nat), len \in Nat
<1> DEFINE acc == ListLoop(contents)
           more == ListLoop(Append(contents, len))
           fixed(k) == DictEntryOverhead + SdsOverhead(k) + RedisObjOverhead + QuicklistOverhead
           node == QuicklistNodeOverhead
<1>1. acc \in Acc /\ more = ListStep(acc, len) BY ListLoopStep
<1>2. QuicklistOverhead \in Nat /\ node \in Nat
  BY AllocationHolds DEF QuicklistOverhead, QuicklistNodeOverhead, pointerSize, longSize
<1>3. key + 1 \in Nat OBVIOUS
<1>4. fixed(key) \in Nat /\ fixed(key + 1) \in Nat /\ fixed(key) <= fixed(key + 1)
  <2>1. /\ SdsOverhead(key) \in Nat /\ SdsOverhead(key + 1) \in Nat
        /\ SdsOverhead(key) <= SdsOverhead(key + 1)
    BY <1>3, SdsHolds, SdsMonotone
  <2>2. DictEntryOverhead \in Nat /\ RedisObjOverhead \in Nat BY HeadersType
  <2> QED BY <1>2, <2>1, <2>2
<1>5. /\ ListMemOverhead(key, contents) = fixed(key) + node * acc.nodes + acc.data
      /\ ListMemOverhead(key + 1, contents) = fixed(key + 1) + node * acc.nodes + acc.data
      /\ ListMemOverhead(key, Append(contents, len)) = fixed(key) + node * more.nodes + more.data
  BY DEF ListMemOverhead, ListLoop
<1> HIDE DEF acc, more, fixed, node
<1>6. acc.nodes \in Nat /\ acc.data \in Nat /\ acc.size \in Nat BY <1>1 DEF Acc
<1>7. node * acc.nodes \in Nat BY <1>2, <1>6, ProductType
<1>8. /\ more.nodes \in Nat /\ more.data \in Nat
      /\ (more.nodes = acc.nodes /\ more.data = acc.data)
           \/ (more.nodes = acc.nodes + 1 /\ more.data >= acc.data)
  <2> DEFINE full == acc.size + ZlentryOverhead(acc.previous, len) > maxZipListSize
  <2>1. MallocOverhead(acc.size) \in Nat BY <1>6, AllocationHolds
  <2>2. CASE full
    <3>1. more.nodes = acc.nodes + 1 /\ more.data = acc.data + MallocOverhead(acc.size)
      BY <1>1, <2>2 DEF ListStep
    <3> QED BY <1>6, <2>1, <3>1
  <2>3. CASE ~full
    <3>1. more = [acc EXCEPT !.previous = len,
                             !.size = acc.size + ZlentryOverhead(acc.previous, len)]
      BY <1>1, <2>3 DEF ListStep
    <3>2. more.nodes = acc.nodes /\ more.data = acc.data BY <1>1, <3>1 DEF Acc
    <3> QED BY <1>6, <3>2
  <2> QED BY <2>2, <2>3
<1>9. node * more.nodes \in Nat /\ node * acc.nodes <= node * more.nodes
  <2>1. CASE more.nodes = acc.nodes BY <1>7, <2>1
  <2>2. CASE more.nodes = acc.nodes + 1
    <3>1. node * (acc.nodes + 1) = node * acc.nodes + node * 1 BY <1>2, <1>6, Distributes
    <3> QED BY <1>2, <1>7, <2>2, <3>1
  <2> QED BY <1>8, <2>1, <2>2
<1> DEFINE a == node * acc.nodes
           b == node * more.nodes
<1>10. a \in Nat /\ b \in Nat /\ a <= b BY <1>7, <1>9
<1>11. /\ ListMemOverhead(key, contents) = fixed(key) + a + acc.data
       /\ ListMemOverhead(key + 1, contents) = fixed(key + 1) + a + acc.data
       /\ ListMemOverhead(key, Append(contents, len)) = fixed(key) + b + more.data
  BY <1>5
<1> HIDE DEF a, b
<1>12. more.data \in Nat /\ acc.data <= more.data BY <1>6, <1>8
<1>13. ListMemOverhead(key, contents) \in Nat BY <1>4, <1>6, <1>10, <1>11
<1>14. ListMemOverhead(key, contents) <= ListMemOverhead(key + 1, contents)
  BY <1>4, <1>6, <1>10, <1>11
<1>15. ListMemOverhead(key, contents) <= ListMemOverhead(key, Append(contents, len))
  BY SMTT(30), <1>4, <1>6, <1>10, <1>11, <1>12
<1> QED BY <1>13, <1>14, <1>15

\* A sum over a sequence of overheads grows by that of the element appended.
LEMMA SumAppends ==
  ASSUME NEW n \in Nat, NEW f \in [1 .. n -> Nat], NEW g \in [1 .. n + 1 -> Nat],
         \A i \in 1 .. n : f[i] = g[i]
  PROVE  /\ SumFunction(f) \in Nat /\ SumFunction(g) \in Nat
         /\ SumFunction(g) = SumFunction(f) + g[n + 1]
         /\ SumFunction(f) <= SumFunction(g)
<1>1. IsFiniteSet(1 .. n) /\ IsFiniteSet(1 .. n + 1) /\ n + 1 \notin 1 .. n BY FS_Interval
<1>2. 1 .. n + 1 = (1 .. n) \cup {n + 1} OBVIOUS
<1>3. AddsOne(g, f, 1 .. n, n + 1)
  <2>1. f \in [1 .. n -> Int] /\ g \in [(1 .. n) \cup {n + 1} -> Int] BY <1>2
  <2> QED BY <1>1, <2>1 DEF AddsOne
<1>4. SumFunction(g) = SumFunction(f) + g[n + 1] BY <1>3, SumFunctionAdds
<1>5. SumFunction(f) \in Nat /\ SumFunction(g) \in Nat /\ g[n + 1] \in Nat
  BY <1>1, SumFunctionType
<1> QED BY <1>4, <1>5

\* What a table of count elements and a key cost, in all types with a dictionary.
LEMMA DictionaryGrows ==
  \A key, count \in Nat :
    /\ SdsOverhead(key) \in Nat /\ SdsOverhead(key + 1) \in Nat
    /\ SdsOverhead(key) <= SdsOverhead(key + 1)
    /\ FieldBucketOverhead(count) \in Nat /\ FieldBucketOverhead(count + 1) \in Nat
    /\ FieldBucketOverhead(count) <= FieldBucketOverhead(count + 1)
<1> TAKE key, count \in Nat
<1>1. key + 1 \in Nat /\ count + 1 \in Nat /\ count <= count + 1 OBVIOUS
<1> QED BY <1>1, SdsHolds, SdsMonotone, FieldBucketsType, FieldBucketsMonotone

LEMMA SetGrows ==
  \A key \in Nat, contents \in Seq(Nat), len \in Nat :
    /\ SetMemOverhead(key, contents) <= SetMemOverhead(key, Append(contents, len))
    /\ SetMemOverhead(key, contents) <= SetMemOverhead(key + 1, contents)
<1> TAKE key \in Nat, contents \in Seq(Nat), len \in Nat
<1> DEFINE n == Len(contents)
           longer == Append(contents, len)
           f == [i \in DOMAIN contents |-> DictEntryOverhead + SdsOverhead(contents[i])]
           g == [i \in DOMAIN longer |-> DictEntryOverhead + SdsOverhead(longer[i])]
           fixed == DictEntryOverhead + RedisObjOverhead + DictOverhead
<1>1. /\ n \in Nat /\ Len(longer) = n + 1 /\ DOMAIN contents = 1 .. n /\ DOMAIN longer = 1 .. n + 1
      /\ \A i \in 1 .. n : contents[i] \in Nat /\ longer[i] = contents[i]
      /\ \A i \in 1 .. n + 1 : longer[i] \in Nat
  OBVIOUS
<1>2. /\ SetMemOverhead(key, contents)
           = DictEntryOverhead + SdsOverhead(key) + RedisObjOverhead + DictOverhead
             + SumFunction(f) + FieldBucketOverhead(n)
      /\ SetMemOverhead(key + 1, contents)
           = DictEntryOverhead + SdsOverhead(key + 1) + RedisObjOverhead + DictOverhead
             + SumFunction(f) + FieldBucketOverhead(n)
      /\ SetMemOverhead(key, longer)
           = DictEntryOverhead + SdsOverhead(key) + RedisObjOverhead + DictOverhead
             + SumFunction(g) + FieldBucketOverhead(n + 1)
  BY <1>1 DEF SetMemOverhead, Map
<1> HIDE DEF longer
<1>3. f \in [1 .. n -> Nat] /\ g \in [1 .. n + 1 -> Nat] /\ \A i \in 1 .. n : f[i] = g[i]
  <2>1. \A i \in 1 .. n : SdsOverhead(contents[i]) \in Nat BY <1>1, SdsHolds
  <2>2. \A i \in 1 .. n + 1 : SdsOverhead(longer[i]) \in Nat BY <1>1, SdsHolds
  <2>3. \A i \in 1 .. n : i \in 1 .. n + 1 BY <1>1
  <2> HIDE DEF n
  <2> QED BY SMTT(30), <1>1, <2>1, <2>2, <2>3, HeadersType
<1> HIDE DEF f, g, n
<1>4. SumFunction(f) \in Nat /\ SumFunction(g) \in Nat /\ SumFunction(f) <= SumFunction(g)
  BY <1>1, <1>3, SumAppends
<1>5. fixed \in Nat BY HeadersType
<1>6. /\ SdsOverhead(key) \in Nat /\ SdsOverhead(key + 1) \in Nat
      /\ SdsOverhead(key) <= SdsOverhead(key + 1)
      /\ FieldBucketOverhead(n) \in Nat /\ FieldBucketOverhead(n + 1) \in Nat
      /\ FieldBucketOverhead(n) <= FieldBucketOverhead(n + 1)
  BY <1>1, DictionaryGrows
<1>7. \A k \in {key, key + 1}, sum \in Nat, table \in Nat :
        DictEntryOverhead + SdsOverhead(k) + RedisObjOverhead + DictOverhead + sum + table
          = fixed + SdsOverhead(k) + sum + table
  BY SMTT(30), <1>6, HeadersType
<1> HIDE DEF fixed
<1>8. /\ SetMemOverhead(key, contents)
           = fixed + SdsOverhead(key) + SumFunction(f) + FieldBucketOverhead(n)
      /\ SetMemOverhead(key + 1, contents)
           = fixed + SdsOverhead(key + 1) + SumFunction(f) + FieldBucketOverhead(n)
      /\ SetMemOverhead(key, longer)
           = fixed + SdsOverhead(key) + SumFunction(g) + FieldBucketOverhead(n + 1)
  BY <1>2, <1>4, <1>6, <1>7
<1>9. PICK p, x, y, a, b, t, u \in Nat :
        /\ p = fixed /\ x = SdsOverhead(key) /\ y = SdsOverhead(key + 1)
        /\ a = SumFunction(f) /\ b = SumFunction(g) /\ t = FieldBucketOverhead(n) /\ u = FieldBucketOverhead(n + 1)
  BY Zenon, <1>4, <1>5, <1>6
<1>10. x <= y /\ a <= b /\ t <= u BY <1>4, <1>6, <1>9
<1>11. /\ SetMemOverhead(key, contents) = p + x + a + t
       /\ SetMemOverhead(key + 1, contents) = p + y + a + t
       /\ SetMemOverhead(key, longer) = p + x + b + u
  BY <1>8, <1>9
<1>12. p + x + a + t <= p + x + b + u /\ p + x + a + t <= p + y + a + t BY <1>10
<1> QED BY <1>11, <1>12 DEF longer

LEMMA FieldsAre ==
  \A contents \in Seq(Nat) :
    /\ Len(Fields(contents)) = Len(contents) /\ DOMAIN Fields(contents) = DOMAIN contents
    /\ \A i \in DOMAIN contents : Fields(contents)[i].name = i /\ Fields(contents)[i].value = contents[i]
<1> TAKE contents \in Seq(Nat)
<1>1. DOMAIN contents = 1 .. Len(contents) /\ Len(contents) \in Nat
      /\ \A i \in DOMAIN contents : contents[i] \in Nat
  OBVIOUS
<1>2. /\ DOMAIN Fields(contents) = DOMAIN contents
      /\ \A i \in DOMAIN contents : Fields(contents)[i].name = i /\ Fields(contents)[i].value = contents[i]
  BY DEF Fields
<1>3. Fields(contents) = [i \in 1 .. Len(contents) |-> [name |-> i, value |-> contents[i]]]
  BY <1>1 DEF Fields
<1>4. Fields(contents) \in Seq([name : Nat, value : Nat]) BY <1>1, <1>3
<1> QED BY <1>1, <1>2, <1>4

LEMMA HashGrows ==
  \A key \in Nat, contents \in Seq(Nat), len \in Nat :
    /\ HashMemOverhead(key, Fields(contents)) <= HashMemOverhead(key, Fields(Append(contents, len)))
    /\ HashMemOverhead(key, Fields(contents)) <= HashMemOverhead(key + 1, Fields(contents))
<1> TAKE key \in Nat, contents \in Seq(Nat), len \in Nat
<1> DEFINE n == Len(contents)
           longer == Append(contents, len)
           f == [i \in DOMAIN contents |-> DictEntryOverhead + SdsOverhead(i) + SdsOverhead(contents[i])]
           g == [i \in DOMAIN longer |-> DictEntryOverhead + SdsOverhead(i) + SdsOverhead(longer[i])]
           fixed == DictEntryOverhead + RedisObjOverhead + DictOverhead
<1>1. /\ n \in Nat /\ Len(longer) = n + 1 /\ DOMAIN contents = 1 .. n /\ DOMAIN longer = 1 .. n + 1
      /\ \A i \in 1 .. n : contents[i] \in Nat /\ longer[i] = contents[i]
      /\ \A i \in 1 .. n + 1 : longer[i] \in Nat
  OBVIOUS
<1>2. /\ HashMemOverhead(key, Fields(contents))
           = DictEntryOverhead + SdsOverhead(key) + RedisObjOverhead + DictOverhead
             + SumFunction(f) + FieldBucketOverhead(n)
      /\ HashMemOverhead(key + 1, Fields(contents))
           = DictEntryOverhead + SdsOverhead(key + 1) + RedisObjOverhead + DictOverhead
             + SumFunction(f) + FieldBucketOverhead(n)
      /\ HashMemOverhead(key, Fields(longer))
           = DictEntryOverhead + SdsOverhead(key) + RedisObjOverhead + DictOverhead
             + SumFunction(g) + FieldBucketOverhead(n + 1)
  <2>1. /\ Len(Fields(contents)) = n /\ DOMAIN Fields(contents) = DOMAIN contents
        /\ \A i \in DOMAIN contents :
             Fields(contents)[i].name = i /\ Fields(contents)[i].value = contents[i]
    BY FieldsAre
  <2>2. /\ Len(Fields(longer)) = n + 1 /\ DOMAIN Fields(longer) = DOMAIN longer
        /\ \A i \in DOMAIN longer :
             Fields(longer)[i].name = i /\ Fields(longer)[i].value = longer[i]
    <3>1. longer \in Seq(Nat) OBVIOUS
    <3> QED BY <1>1, <3>1, FieldsAre
  <2> HIDE DEF longer, n
  <2> QED BY <2>1, <2>2 DEF HashMemOverhead, Map
<1> HIDE DEF longer
<1>3. f \in [1 .. n -> Nat] /\ g \in [1 .. n + 1 -> Nat] /\ \A i \in 1 .. n : f[i] = g[i]
  <2>1. \A i \in 1 .. n : SdsOverhead(i) \in Nat /\ SdsOverhead(contents[i]) \in Nat BY <1>1, SdsHolds
  <2>2. \A i \in 1 .. n + 1 : SdsOverhead(i) \in Nat /\ SdsOverhead(longer[i]) \in Nat BY <1>1, SdsHolds
  <2>3. \A i \in 1 .. n : i \in 1 .. n + 1 BY <1>1
  <2>4. /\ \A i \in 1 .. n : DictEntryOverhead + SdsOverhead(i) + SdsOverhead(contents[i]) \in Nat
        /\ \A i \in 1 .. n + 1 : DictEntryOverhead + SdsOverhead(i) + SdsOverhead(longer[i]) \in Nat
    BY <2>1, <2>2, HeadersType
  <2>5. f = [i \in 1 .. n |-> DictEntryOverhead + SdsOverhead(i) + SdsOverhead(contents[i])] BY <1>1
  <2>6. g = [i \in 1 .. n + 1 |-> DictEntryOverhead + SdsOverhead(i) + SdsOverhead(longer[i])] BY <1>1
  <2>7. \A i \in 1 .. n : f[i] = g[i]
    <3> HIDE DEF n, f, g
    <3> TAKE i \in 1 .. n
    <3>1. f[i] = DictEntryOverhead + SdsOverhead(i) + SdsOverhead(contents[i]) BY <2>5
    <3>2. g[i] = DictEntryOverhead + SdsOverhead(i) + SdsOverhead(longer[i]) BY <2>3, <2>6
    <3>3. longer[i] = contents[i] BY <1>1
    <3> QED BY <3>1, <3>2, <3>3
  <2> HIDE DEF n, f, g
  <2>8. f \in [1 .. n -> Nat] BY <2>4, <2>5
  <2>9. g \in [1 .. n + 1 -> Nat] BY <2>4, <2>6
  <2> QED BY <2>7, <2>8, <2>9
<1> HIDE DEF f, g, n
<1>4. SumFunction(f) \in Nat /\ SumFunction(g) \in Nat /\ SumFunction(f) <= SumFunction(g)
  BY <1>1, <1>3, SumAppends
<1>5. fixed \in Nat BY HeadersType
<1>6. /\ SdsOverhead(key) \in Nat /\ SdsOverhead(key + 1) \in Nat
      /\ SdsOverhead(key) <= SdsOverhead(key + 1)
      /\ FieldBucketOverhead(n) \in Nat /\ FieldBucketOverhead(n + 1) \in Nat
      /\ FieldBucketOverhead(n) <= FieldBucketOverhead(n + 1)
  BY <1>1, DictionaryGrows
<1>7. \A k \in {key, key + 1}, sum \in Nat, table \in Nat :
        DictEntryOverhead + SdsOverhead(k) + RedisObjOverhead + DictOverhead + sum + table
          = fixed + SdsOverhead(k) + sum + table
  BY <1>6, HeadersType
<1> HIDE DEF fixed
<1>8. /\ HashMemOverhead(key, Fields(contents))
           = fixed + SdsOverhead(key) + SumFunction(f) + FieldBucketOverhead(n)
      /\ HashMemOverhead(key + 1, Fields(contents))
           = fixed + SdsOverhead(key + 1) + SumFunction(f) + FieldBucketOverhead(n)
      /\ HashMemOverhead(key, Fields(longer))
           = fixed + SdsOverhead(key) + SumFunction(g) + FieldBucketOverhead(n + 1)
  BY <1>2, <1>4, <1>6, <1>7
<1>9. PICK p, x, y, a, b, t, u \in Nat :
        /\ p = fixed /\ x = SdsOverhead(key) /\ y = SdsOverhead(key + 1)
        /\ a = SumFunction(f) /\ b = SumFunction(g) /\ t = FieldBucketOverhead(n) /\ u = FieldBucketOverhead(n + 1)
  BY Zenon, <1>4, <1>5, <1>6
<1>10. x <= y /\ a <= b /\ t <= u BY <1>4, <1>6, <1>9
<1>11. /\ HashMemOverhead(key, Fields(contents)) = p + x + a + t
       /\ HashMemOverhead(key + 1, Fields(contents)) = p + y + a + t
       /\ HashMemOverhead(key, Fields(longer)) = p + x + b + u
  BY <1>8, <1>9
<1>12. p + x + a + t <= p + x + b + u /\ p + x + a + t <= p + y + a + t BY <1>10
<1> QED BY <1>11, <1>12 DEF longer

LEMMA ZsetGrows ==
  \A key \in Nat, contents \in Seq(Nat), len \in Nat :
    /\ ZsetMemOverhead(key, contents) <= ZsetMemOverhead(key, Append(contents, len))
    /\ ZsetMemOverhead(key, contents) <= ZsetMemOverhead(key + 1, contents)
<1> TAKE key \in Nat, contents \in Seq(Nat), len \in Nat
<1> DEFINE n == Len(contents)
           longer == Append(contents, len)
           f == [i \in DOMAIN contents |-> DictEntryOverhead + ZskiplistNodeOverhead(contents[i])]
           g == [i \in DOMAIN longer |-> DictEntryOverhead + ZskiplistNodeOverhead(longer[i])]
           fixed == DictEntryOverhead + RedisObjOverhead + ZsetOverhead + DictOverhead + ZskiplistOverhead
           table(c) == 16 * SumFunction(LevelSizes(c)) + 2 * FieldBucketOverhead(c)
<1>1. /\ n \in Nat /\ Len(longer) = n + 1 /\ DOMAIN contents = 1 .. n /\ DOMAIN longer = 1 .. n + 1
      /\ \A i \in 1 .. n : contents[i] \in Nat /\ longer[i] = contents[i]
      /\ \A i \in 1 .. n + 1 : longer[i] \in Nat
  OBVIOUS
<1>2. /\ ZsetMemOverhead(key, contents)
           = DictEntryOverhead + SdsOverhead(key) + RedisObjOverhead + ZsetOverhead + DictOverhead
             + ZskiplistOverhead + SumFunction(f) + 16 * SumFunction(LevelSizes(n))
             + 2 * FieldBucketOverhead(n)
      /\ ZsetMemOverhead(key + 1, contents)
           = DictEntryOverhead + SdsOverhead(key + 1) + RedisObjOverhead + ZsetOverhead + DictOverhead
             + ZskiplistOverhead + SumFunction(f) + 16 * SumFunction(LevelSizes(n))
             + 2 * FieldBucketOverhead(n)
      /\ ZsetMemOverhead(key, longer)
           = DictEntryOverhead + SdsOverhead(key) + RedisObjOverhead + ZsetOverhead + DictOverhead
             + ZskiplistOverhead + SumFunction(g) + 16 * SumFunction(LevelSizes(n + 1))
             + 2 * FieldBucketOverhead(n + 1)
  BY <1>1 DEF ZsetMemOverhead, Map
<1> HIDE DEF longer
<1>3. f \in [1 .. n -> Nat] /\ g \in [1 .. n + 1 -> Nat] /\ \A i \in 1 .. n : f[i] = g[i]
  <2>1. \A i \in 1 .. n : ZskiplistNodeOverhead(contents[i]) \in Nat BY <1>1, SkiplistNodeHolds
  <2>2. \A i \in 1 .. n + 1 : ZskiplistNodeOverhead(longer[i]) \in Nat BY <1>1, SkiplistNodeHolds
  <2>3. \A i \in 1 .. n : i \in 1 .. n + 1 BY <1>1
  <2> HIDE DEF n
  <2> QED BY SMTT(30), <1>1, <2>1, <2>2, <2>3, HeadersType
<1> HIDE DEF f, g, n
<1>4. SumFunction(f) \in Nat /\ SumFunction(g) \in Nat /\ SumFunction(f) <= SumFunction(g)
  BY <1>1, <1>3, SumAppends
<1>5. fixed \in Nat BY HeadersType
<1>6. /\ SdsOverhead(key) \in Nat /\ SdsOverhead(key + 1) \in Nat
      /\ SdsOverhead(key) <= SdsOverhead(key + 1)
      /\ table(n) \in Nat /\ table(n + 1) \in Nat /\ table(n) <= table(n + 1)
  <2>1. n + 1 \in Nat /\ n <= n + 1 BY <1>1
  <2>2. /\ SumFunction(LevelSizes(n)) \in Nat /\ SumFunction(LevelSizes(n + 1)) \in Nat
        /\ SumFunction(LevelSizes(n)) <= SumFunction(LevelSizes(n + 1))
    BY <1>1, <2>1, LevelsSum, LevelsMonotone
  <2>3. /\ SdsOverhead(key) \in Nat /\ SdsOverhead(key + 1) \in Nat
        /\ SdsOverhead(key) <= SdsOverhead(key + 1)
        /\ FieldBucketOverhead(n) \in Nat /\ FieldBucketOverhead(n + 1) \in Nat
        /\ FieldBucketOverhead(n) <= FieldBucketOverhead(n + 1)
    BY <1>1, DictionaryGrows
  <2>4. \A levels, buckets \in Nat : 16 * levels + 2 * buckets \in Nat OBVIOUS
  <2>5. \A levels, buckets, levels2, buckets2 \in Nat :
          levels <= levels2 /\ buckets <= buckets2
            => 16 * levels + 2 * buckets <= 16 * levels2 + 2 * buckets2
    OBVIOUS
  <2>6. table(n) \in Nat /\ table(n + 1) \in Nat BY <2>2, <2>3, <2>4
  <2>7. table(n) <= table(n + 1) BY <2>2, <2>3, <2>5
  <2> QED BY <2>3, <2>6, <2>7
<1>7. \A k \in {key, key + 1}, sum \in Nat, c \in {n, n + 1} :
        DictEntryOverhead + SdsOverhead(k) + RedisObjOverhead + ZsetOverhead + DictOverhead
          + ZskiplistOverhead + sum + 16 * SumFunction(LevelSizes(c)) + 2 * FieldBucketOverhead(c)
          = fixed + SdsOverhead(k) + sum + table(c)
  <2> TAKE k \in {key, key + 1}, sum \in Nat, c \in {n, n + 1}
  <2> DEFINE levels == 16 * SumFunction(LevelSizes(c))
             buckets == 2 * FieldBucketOverhead(c)
  <2>1. c \in Nat BY <1>1
  <2>2. levels \in Nat /\ buckets \in Nat
    <3>1. SumFunction(LevelSizes(c)) \in Nat /\ FieldBucketOverhead(c) \in Nat
      BY <2>1, LevelsSum, FieldBucketsType
    <3>2. \A m \in Nat : 16 * m \in Nat /\ 2 * m \in Nat OBVIOUS
    <3> QED BY <3>1, <3>2
  <2>3. SdsOverhead(k) \in Nat BY <1>6
  <2>4. table(c) = levels + buckets OBVIOUS
  <2> HIDE DEF levels, buckets, table
  <2>5. PICK a, b, z, d, e, x \in Nat :
          /\ a = DictEntryOverhead /\ b = RedisObjOverhead /\ z = ZsetOverhead
          /\ d = DictOverhead /\ e = ZskiplistOverhead /\ x = SdsOverhead(k)
    BY <2>3, HeadersType
  <2>6. a + x + b + z + d + e + sum + levels + buckets
          = (a + b + z + d + e) + x + sum + (levels + buckets)
    BY <2>2
  <2> QED BY <2>4, <2>5, <2>6 DEF levels, buckets
<1>8. /\ ZsetMemOverhead(key, contents) = fixed + SdsOverhead(key) + SumFunction(f) + table(n)
      /\ ZsetMemOverhead(key + 1, contents)
           = fixed + SdsOverhead(key + 1) + SumFunction(f) + table(n)
      /\ ZsetMemOverhead(key, longer) = fixed + SdsOverhead(key) + SumFunction(g) + table(n + 1)
  <2> HIDE DEF fixed, table
  <2> QED BY <1>2, <1>4, <1>7
<1> HIDE DEF fixed, table
<1>9. PICK p, x, y, a, b, t, u \in Nat :
        /\ p = fixed /\ x = SdsOverhead(key) /\ y = SdsOverhead(key + 1)
        /\ a = SumFunction(f) /\ b = SumFunction(g) /\ t = table(n) /\ u = table(n + 1)
  BY Zenon, <1>4, <1>5, <1>6
<1>10. x <= y /\ a <= b /\ t <= u BY <1>4, <1>6, <1>9
<1>11. /\ ZsetMemOverhead(key, contents) = p + x + a + t
       /\ ZsetMemOverhead(key + 1, contents) = p + y + a + t
       /\ ZsetMemOverhead(key, longer) = p + x + b + u
  BY <1>8, <1>9
<1>12. p + x + a + t <= p + x + b + u /\ p + x + a + t <= p + y + a + t BY <1>10
<1> QED BY <1>11, <1>12 DEF longer

\* The MemOverhead methods: an element more or a byte more of the key never makes
\* the estimate of a set, hash, sorted set or list less, for any lengths and counts.
THEOREM EstimatesNeverShrink ==
  \A key \in Nat, contents \in Seq(Nat), len \in Nat : EstimatesGrow(key, contents, len)
<1> TAKE key \in Nat, contents \in Seq(Nat), len \in Nat
<1> DEFINE longer == Append(contents, len)
<1>1. /\ SetMemOverhead(key, contents) <= SetMemOverhead(key, longer)
      /\ SetMemOverhead(key, contents) <= SetMemOverhead(key + 1, contents)
  BY SetGrows
<1>2. /\ HashMemOverhead(key, Fields(contents)) <= HashMemOverhead(key, Fields(longer))
      /\ HashMemOverhead(key, Fields(contents)) <= HashMemOverhead(key + 1, Fields(contents))
  BY HashGrows
<1>3. /\ ZsetMemOverhead(key, contents) <= ZsetMemOverhead(key, longer)
      /\ ZsetMemOverhead(key, contents) <= ZsetMemOverhead(key + 1, contents)
  BY ZsetGrows
<1>4. /\ ListMemOverhead(key, contents) <= ListMemOverhead(key, longer)
      /\ ListMemOverhead(key, contents) <= ListMemOverhead(key + 1, contents)
  BY ListGrows
<1> HIDE DEF longer
<1>5. DOMAIN Estimates(key, contents) = {"set", "hash", "zset", "list"} BY DEF Estimates
<1>6. ASSUME NEW type \in {"set", "hash", "zset", "list"}
      PROVE  /\ Estimates(key, contents)[type] <= Estimates(key, longer)[type]
             /\ Estimates(key, contents)[type] <= Estimates(key + 1, contents)[type]
  BY <1>1, <1>2, <1>3, <1>4 DEF Estimates
<1> QED BY <1>5, <1>6 DEF EstimatesGrow, longer

---------------------------------------------------------------------------
(* What an estimate covers *)

\* What the loop over a list has left out so far.
LoopCovers(s, longest) ==
  SumFunction(s) <= ListLoop(s).data + ListLoop(s).size + ListLoop(s).nodes * longest

ListCovers(key, s, longest) ==
  ListMemOverhead(key, s) + ListLoop(s).size + ListLoop(s).nodes * longest
    >= key + SumFunction(s)

\* One more element is put into the ziplist, or left out when it closes it.
LEMMA LoopCoversOneMore ==
  ASSUME NEW longest \in Nat, NEW s \in Seq(Nat), NEW len \in Nat, len <= longest,
         LoopCovers(s, longest)
  PROVE  LoopCovers(Append(s, len), longest)
<1> DEFINE acc == ListLoop(s)
           more == ListLoop(Append(s, len))
           entry == ZlentryOverhead(acc.previous, len)
<1>1. acc \in Acc /\ more = ListStep(acc, len) BY ListLoopStep
<1>2. SumFunction(s) \in Nat /\ SumFunction(Append(s, len)) = SumFunction(s) + len
  <2>1. /\ Len(s) \in Nat /\ s \in [1 .. Len(s) -> Nat]
        /\ Append(s, len) \in [1 .. Len(s) + 1 -> Nat]
        /\ Append(s, len)[Len(s) + 1] = len
        /\ \A i \in 1 .. Len(s) : s[i] = Append(s, len)[i]
    <3>1. Append(s, len) \in Seq(Nat) /\ Len(Append(s, len)) = Len(s) + 1 OBVIOUS
    <3>2. Append(s, len) \in [1 .. Len(s) + 1 -> Nat] BY <3>1, SequenceSums
    <3>3. /\ Append(s, len)[Len(s) + 1] = len
          /\ \A i \in 1 .. Len(s) : s[i] = Append(s, len)[i]
      BY AppendProperties
    <3> QED BY <3>2, <3>3, SequenceSums
  <2> HIDE DEF acc, more
  <2> QED BY <2>1, SumAppends
<1>3. SumFunction(s) <= acc.data + acc.size + acc.nodes * longest BY DEF LoopCovers
<1> HIDE DEF acc, more
<1>4. acc.nodes \in Nat /\ acc.data \in Nat /\ acc.size \in Nat /\ acc.previous \in Nat
  BY <1>1 DEF Acc
<1>5. entry \in Nat /\ entry >= len BY <1>4 DEF ZlentryOverhead
<1>6. MallocOverhead(acc.size) \in Nat /\ MallocOverhead(acc.size) >= acc.size
  BY <1>4, AllocationHolds
<1>7. acc.nodes * longest \in Nat BY <1>4, ProductType
<1>8. SumFunction(s) + len <= more.data + more.size + more.nodes * longest
  <2>1. CASE acc.size + entry > maxZipListSize
    <3>1. /\ more.nodes = acc.nodes + 1 /\ more.data = acc.data + MallocOverhead(acc.size)
          /\ more.size = ZiplistOverhead
      BY <1>1, <2>1 DEF ListStep
    <3>2. (acc.nodes + 1) * longest = acc.nodes * longest + longest
      <4>1. longest * (acc.nodes + 1) = longest * acc.nodes + longest * 1 BY <1>4, Distributes
      <4>2. longest * acc.nodes = acc.nodes * longest
            /\ longest * (acc.nodes + 1) = (acc.nodes + 1) * longest
        BY <1>4
      <4> QED BY <4>1, <4>2
    <3>3. ZiplistOverhead = 11 BY DEF ZiplistOverhead
    <3> DEFINE a == acc.nodes * longest
               m == MallocOverhead(acc.size)
    <3>4. more.nodes * longest = a + longest BY <3>1, <3>2
    <3>5. a \in Nat /\ m \in Nat /\ m >= acc.size BY <1>6, <1>7
    <3>6. more.data = acc.data + m /\ more.size = 11 BY <3>1, <3>3
    <3>7. SumFunction(s) <= acc.data + acc.size + a BY <1>3
    <3> HIDE DEF a, m
    <3> QED BY SMTT(30), <1>2, <1>4, <3>4, <3>5, <3>6, <3>7
  <2>2. CASE ~(acc.size + entry > maxZipListSize)
    <3>1. more = [acc EXCEPT !.previous = len, !.size = acc.size + entry]
      BY <1>1, <2>2 DEF ListStep
    <3> HIDE DEF entry
    <3>2. more.nodes = acc.nodes /\ more.data = acc.data /\ more.size = acc.size + entry
      BY <1>1, <3>1 DEF Acc
    <3> DEFINE a == acc.nodes * longest
    <3>3. more.nodes * longest = a /\ a \in Nat BY <1>7, <3>2
    <3>4. SumFunction(s) <= acc.data + acc.size + a BY <1>3
    <3> HIDE DEF a
    <3>5. SumFunction(s) + len <= acc.data + (acc.size + entry) + a BY <1>2, <1>4, <1>5, <3>3, <3>4
    <3> QED BY Zenon, <3>2, <3>3, <3>5
  <2> QED BY <2>1, <2>2
<1> QED BY <1>2, <1>8 DEF LoopCovers, more

LEMMA LoopCoversAll ==
  ASSUME NEW longest \in Nat
  PROVE  \A s \in Seq(Nat) : (\A i \in DOMAIN s : s[i] <= longest) => LoopCovers(s, longest)
<1> DEFINE Bounded(s) == \A i \in DOMAIN s : s[i] <= longest
           N == {n \in Nat : \A s \in Seq(Nat) : Len(s) = n /\ Bounded(s) => LoopCovers(s, longest)}
<1>1. 0 \in N
  <2> SUFFICES ASSUME NEW s \in Seq(Nat), Len(s) = 0 PROVE LoopCovers(s, longest) OBVIOUS
  <2>1. s = <<>> /\ DOMAIN s = {} OBVIOUS
  <2>2. SumFunction(s) = 0 BY <2>1, SumOfNothing
  <2>3. <<>> \in Seq(Nat) /\ Append(<<>>, 0) \in Seq(Nat) OBVIOUS
  <2>4. ListLoop(s) \in Acc BY ListLoopStep
  <2>5. ListLoop(s).nodes * longest \in Nat BY <2>4, ProductType DEF Acc
  <2>6. ListLoop(s).data \in Nat /\ ListLoop(s).size \in Nat BY <2>4 DEF Acc
  <2> QED BY <2>2, <2>5, <2>6 DEF LoopCovers
<1>2. ASSUME NEW n \in N PROVE n + 1 \in N
  <2> SUFFICES ASSUME NEW s \in Seq(Nat), Len(s) = n + 1, Bounded(s) PROVE LoopCovers(s, longest)
    OBVIOUS
  <2>1. n \in Nat OBVIOUS
  <2>2. s # <<>> BY <2>1
  <2>3. PICK front \in Seq(Nat), len \in Nat : s = Append(front, len)
    BY <2>2, SequenceEmptyOrAppend
  <2>4. Len(front) = n /\ len <= longest /\ Bounded(front)
    <3>1. Len(front) = n BY <2>1, <2>3
    <3>2. s[n + 1] = len /\ n + 1 \in DOMAIN s BY <2>1, <2>3, <3>1
    <3>3. \A i \in DOMAIN front : i \in DOMAIN s /\ s[i] = front[i] BY <2>1, <2>3, <3>1
    <3> QED BY <3>1, <3>2, <3>3
  <2> HIDE DEF Bounded
  <2>5. LoopCovers(front, longest) BY <2>4
  <2> QED BY <2>3, <2>4, <2>5, LoopCoversOneMore
<1> HIDE DEF N
<1>3. N \in SUBSET Nat BY DEF N
<1>4. N = Nat BY <1>1, <1>2, <1>3, NumberInduction
<1>5. \A s \in Seq(Nat) : Len(s) \in Nat OBVIOUS
<1> QED BY Zenon, <1>4, <1>5 DEF N

LEMMA ListsCovered ==
  ASSUME NEW key \in Nat, NEW longest \in Nat, NEW s \in Seq(Nat),
         \A i \in DOMAIN s : s[i] <= longest
  PROVE  ListCovers(key, s, longest)
<1> DEFINE acc == ListLoop(s)
           node == QuicklistNodeOverhead
<1>1. acc \in Acc BY ListLoopStep
<1>2. SumFunction(s) <= acc.data + acc.size + acc.nodes * longest
  BY LoopCoversAll DEF LoopCovers
<1>3. ListMemOverhead(key, s)
        = DictEntryOverhead + SdsOverhead(key) + RedisObjOverhead + QuicklistOverhead
          + node * acc.nodes + acc.data
  BY DEF ListMemOverhead
<1>4. QuicklistOverhead \in Nat /\ node \in Nat
  BY AllocationHolds DEF QuicklistOverhead, QuicklistNodeOverhead, pointerSize, longSize
<1>5. SumFunction(s) \in Nat BY SequenceSums
<1>6. SdsOverhead(key) \in Nat /\ SdsOverhead(key) >= key BY SdsHolds
<1> HIDE DEF acc, node
<1>7. acc.nodes \in Nat /\ acc.data \in Nat /\ acc.size \in Nat BY <1>1 DEF Acc
<1> DEFINE a == acc.nodes * longest
           b == node * acc.nodes
<1>8. a \in Nat /\ b \in Nat BY <1>4, <1>7, ProductType
<1>9. /\ SumFunction(s) <= acc.data + acc.size + a
      /\ ListMemOverhead(key, s)
           = DictEntryOverhead + SdsOverhead(key) + RedisObjOverhead + QuicklistOverhead
             + b + acc.data
  BY <1>2, <1>3
<1> HIDE DEF a, b
<1>10. ListMemOverhead(key, s) + acc.size + a >= key + SumFunction(s)
  <2> DEFINE fixed == DictEntryOverhead + RedisObjOverhead + QuicklistOverhead + b
  <2>1. fixed \in Nat BY <1>4, <1>8, HeadersType
  <2>2. ListMemOverhead(key, s) = fixed + SdsOverhead(key) + acc.data
    <3>1. DictEntryOverhead \in Nat /\ RedisObjOverhead \in Nat BY HeadersType
    <3> QED BY <1>4, <1>6, <1>7, <1>8, <1>9, <3>1
  <2> HIDE DEF fixed
  <2> QED BY <1>5, <1>6, <1>7, <1>8, <1>9, <2>1, <2>2
<1>11. ListMemOverhead(key, s) + acc.size + acc.nodes * longest >= key + SumFunction(s)
  BY Zenon, <1>10 DEF a
<1> QED BY Zenon, <1>11 DEF ListCovers, acc

\* The estimates of sets, hashes, sorted sets and texts are never below what the
\* key holds, and those of lists only by their last ziplist and one element for
\* each ziplist before it, for keys and elements of any length and any number.
THEOREM ContentCovered ==
  \A key, longest \in Nat, contents \in Seq(Nat) :
    EstimatesCoverContent(key, contents, longest)
<1> TAKE key, longest \in Nat, contents \in Seq(Nat)
<1> DEFINE n == Len(contents)
           held == key + SumFunction(contents)
<1>1. /\ n \in Nat /\ contents \in [1 .. n -> Nat] /\ SumFunction(contents) \in Nat
      /\ DOMAIN contents = 1 .. n
  BY SequenceSums
<1>2. SdsOverhead(key) \in Nat /\ SdsOverhead(key) >= key BY SdsHolds
<1>3. FieldBucketOverhead(n) \in Nat BY <1>1, FieldBucketsType
<1>4. SetMemOverhead(key, contents) >= held
  <2> DEFINE g == [i \in DOMAIN contents |-> DictEntryOverhead + SdsOverhead(contents[i])]
  <2>1. g \in [1 .. n -> Nat] /\ \A i \in 1 .. n : g[i] >= contents[i]
    <3> SUFFICES ASSUME NEW i \in 1 .. n PROVE g[i] \in Nat /\ g[i] >= contents[i]
      BY <1>1
    <3>1. i \in Nat /\ contents[i] \in Nat BY <1>1
    <3>2. g[i] \in Nat /\ g[i] >= contents[i]
      <4>1. SdsOverhead(contents[i]) \in Nat /\ SdsOverhead(contents[i]) >= contents[i]
        BY <3>1, SdsHolds
      <4>2. g[i] = DictEntryOverhead + SdsOverhead(contents[i]) BY <1>1
      <4> HIDE DEF g
      <4> QED BY <3>1, <4>1, <4>2, HeadersType
    <3> QED BY <3>2
  <2>2. SetMemOverhead(key, contents)
          = DictEntryOverhead + SdsOverhead(key) + RedisObjOverhead + DictOverhead
            + SumFunction(g) + FieldBucketOverhead(n)
    BY DEF SetMemOverhead, Map
  <2> HIDE DEF g
  <2>3. SumFunction(g) \in Nat /\ SumFunction(g) >= SumFunction(contents) BY <2>1, OverheadsHold
  <2> QED BY <1>1, <1>2, <1>3, <2>2, <2>3, HeadersType
<1>5. HashMemOverhead(key, Fields(contents)) >= held
  <2> DEFINE g == [i \in DOMAIN contents |-> DictEntryOverhead + SdsOverhead(i) + SdsOverhead(contents[i])]
  <2>1. g \in [1 .. n -> Nat] /\ \A i \in 1 .. n : g[i] >= contents[i]
    <3> SUFFICES ASSUME NEW i \in 1 .. n PROVE g[i] \in Nat /\ g[i] >= contents[i]
      BY <1>1
    <3>1. i \in Nat /\ contents[i] \in Nat BY <1>1
    <3>2. g[i] \in Nat /\ g[i] >= contents[i]
      <4>1. SdsOverhead(i) \in Nat /\ SdsOverhead(contents[i]) \in Nat /\ SdsOverhead(contents[i]) >= contents[i]
        BY <3>1, SdsHolds
      <4>2. g[i] = DictEntryOverhead + SdsOverhead(i) + SdsOverhead(contents[i]) BY <1>1
      <4> HIDE DEF g
      <4> QED BY <3>1, <4>1, <4>2, HeadersType
    <3> QED BY <3>2
  <2>2. /\ DOMAIN Fields(contents) = DOMAIN contents
        /\ \A i \in DOMAIN contents : Fields(contents)[i].name = i /\ Fields(contents)[i].value = contents[i]
    BY DEF Fields
  <2>3. Len(Fields(contents)) = n
    <3>1. Fields(contents) = [i \in 1 .. n |-> [name |-> i, value |-> contents[i]]]
      BY <1>1 DEF Fields
    <3>2. Fields(contents) \in Seq([name : Nat, value : Nat]) BY <1>1, <3>1
    <3> QED BY <1>1, <2>2, <3>2
  <2>4. HashMemOverhead(key, Fields(contents))
          = DictEntryOverhead + SdsOverhead(key) + RedisObjOverhead + DictOverhead
            + SumFunction(g) + FieldBucketOverhead(n)
    BY <2>2, <2>3 DEF HashMemOverhead, Map
  <2> HIDE DEF g
  <2>5. SumFunction(g) \in Nat /\ SumFunction(g) >= SumFunction(contents) BY <2>1, OverheadsHold
  <2> QED BY <1>1, <1>2, <1>3, <2>4, <2>5, HeadersType
<1>6. ZsetMemOverhead(key, contents) >= held
  <2> DEFINE g == [i \in DOMAIN contents |-> DictEntryOverhead + ZskiplistNodeOverhead(contents[i])]
  <2>1. g \in [1 .. n -> Nat] /\ \A i \in 1 .. n : g[i] >= contents[i]
    <3> SUFFICES ASSUME NEW i \in 1 .. n PROVE g[i] \in Nat /\ g[i] >= contents[i]
      BY <1>1
    <3>1. i \in Nat /\ contents[i] \in Nat BY <1>1
    <3>2. g[i] \in Nat /\ g[i] >= contents[i]
      <4>1. /\ ZskiplistNodeOverhead(contents[i]) \in Nat
            /\ ZskiplistNodeOverhead(contents[i]) >= contents[i]
        BY <3>1, SkiplistNodeHolds
      <4>2. g[i] = DictEntryOverhead + ZskiplistNodeOverhead(contents[i]) BY <1>1
      <4> HIDE DEF g
      <4> QED BY <3>1, <4>1, <4>2, HeadersType
    <3> QED BY <3>2
  <2>2. ZsetMemOverhead(key, contents)
          = DictEntryOverhead + SdsOverhead(key) + RedisObjOverhead + ZsetOverhead
            + DictOverhead + ZskiplistOverhead
            + SumFunction(g) + 16 * SumFunction(LevelSizes(n)) + 2 * FieldBucketOverhead(n)
    BY DEF ZsetMemOverhead, Map
  <2> HIDE DEF g
  <2>3. SumFunction(g) \in Nat /\ SumFunction(g) >= SumFunction(contents) BY <2>1, OverheadsHold
  <2>4. SumFunction(LevelSizes(n)) \in Nat BY <1>1, LevelSizesType, SequenceSums
  <2> DEFINE levels == 16 * SumFunction(LevelSizes(n))
             buckets == 2 * FieldBucketOverhead(n)
  <2>5. levels \in Nat /\ buckets \in Nat BY <1>3, <2>4
  <2>6. ZsetMemOverhead(key, contents)
          = DictEntryOverhead + SdsOverhead(key) + RedisObjOverhead + ZsetOverhead
            + DictOverhead + ZskiplistOverhead + SumFunction(g) + levels + buckets
    BY <2>2
  <2> HIDE DEF levels, buckets
  <2> DEFINE fixed == DictEntryOverhead + RedisObjOverhead + ZsetOverhead + DictOverhead
                      + ZskiplistOverhead
  <2>7. fixed \in Nat BY HeadersType
  <2>8. ZsetMemOverhead(key, contents)
          = fixed + SdsOverhead(key) + SumFunction(g) + levels + buckets
    BY SMTT(30), <1>2, <2>3, <2>5, <2>6, HeadersType
  <2> HIDE DEF fixed
  <2> QED BY <1>1, <1>2, <2>3, <2>5, <2>7, <2>8
<1>7. ASSUME NEW i \in DOMAIN contents
      PROVE  StringMemOverhead(key, [len |-> contents[i], int |-> FALSE]) >= key + contents[i]
  <2>1. contents[i] \in Nat OBVIOUS
  <2>2. SdsOverhead(contents[i]) \in Nat /\ SdsOverhead(contents[i]) >= contents[i]
    BY <2>1, SdsHolds
  <2> QED BY <1>2, <2>1, <2>2, HeadersType DEF StringMemOverhead, StringValueOverhead
<1>8. ASSUME NEW type \in {"set", "hash", "zset"}
      PROVE  Estimates(key, contents)[type] >= held
  BY <1>4, <1>5, <1>6 DEF Estimates
<1>9. ASSUME \A i \in DOMAIN contents : contents[i] <= longest
      PROVE  ListMemOverhead(key, contents) + ListLoop(contents).size
               + ListLoop(contents).nodes * longest >= held
  <2> HIDE DEF n
  <2>1. ListCovers(key, contents, longest) BY <1>9, ListsCovered
  <2> QED BY <2>1 DEF ListCovers
<1> HIDE DEF n
<1> QED BY <1>7, <1>8, <1>9 DEF EstimatesCoverContent

---------------------------------------------------------------------------
(* The walk through arguments *)

\* The states are arguments of the estimates.
Arguments == size \in 0 .. MaxSize /\ elements \in Seq(Nat)

LEMMA ArgumentsInvariant == Spec => []Arguments
<1>1. Init => Arguments BY MaxSizeAssumption DEF Init, Arguments
<1>2. ASSUME Arguments, [Next]_vars PROVE Arguments'
  <2>1. CASE NextSize BY <1>2, <2>1, MaxSizeAssumption DEF NextSize, Arguments
  <2>2. CASE AddElement
    <3>1. PICK len \in Lengths : elements' = Append(elements, len) BY <2>2 DEF AddElement
    <3>2. len \in Nat BY LengthsAssumption
    <3> QED BY <1>2, <2>2, <3>1, <3>2 DEF AddElement, Arguments
  <2>3. CASE UNCHANGED vars BY <1>2, <2>3 DEF vars, Arguments
  <2> QED BY <1>2, <2>1, <2>2, <2>3 DEF Next
<1> QED BY <1>1, <1>2, PTL DEF Spec

\* MallocOverhead: for every size the runs may be given, the bisection of the
\* unsorted table finds the least class, which never decreases.
THEOREM MallocFindsLeast == Spec => []MallocFindsLeastClass
<1>1. Arguments => MallocFindsLeastClass
  <2> SUFFICES ASSUME Arguments PROVE MallocIsLeastClass(size) BY DEF MallocFindsLeastClass
  <2>1. size \in 0 .. jemallocSizeClasses(81)
    <3>1. jemallocSizeClasses(81) \in Nat BY ClassType
    <3> QED BY <3>1, MaxSizeAssumption DEF Arguments
  <2> QED BY Zenon, <2>1, LeastClassFound
<1> QED BY <1>1, ArgumentsInvariant, PTL

\* FieldBucketOverhead: the tables have room for every entry at any size.
THEOREM TablesHold == Spec => []TablesHoldAll
<1>1. Arguments => TablesHoldAll
  <2> SUFFICES ASSUME Arguments PROVE BucketsHoldAll(size) BY DEF TablesHoldAll
  <2>1. size \in Nat BY MaxSizeAssumption DEF Arguments
  <2> QED BY <2>1, BucketsHoldAny
<1> QED BY <1>1, ArgumentsInvariant, PTL

\* The MemOverhead methods: whatever the lengths of the elements and of the key,
\* one element or one byte of the key more never costs less.
THEOREM NothingShrinks == Spec => []AddingNeverShrinks
<1>1. Arguments => AddingNeverShrinks
  BY EstimatesNeverShrink, LengthsAssumption DEF Arguments, AddingNeverShrinks
<1> QED BY <1>1, ArgumentsInvariant, PTL

\* The MemOverhead methods: whatever the lengths, an estimate is at least the
\* bytes of the content, but for what the loop over a list leaves out.
THEOREM CoveredUpToListTails == Spec => []ContentIsCovered
<1>1. Arguments => ContentIsCovered
  BY ContentCovered, LengthsAssumption DEF Arguments, ContentIsCovered
<1> QED BY <1>1, ArgumentsInvariant, PTL
=============================================================================
