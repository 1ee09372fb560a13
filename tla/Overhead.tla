------------------------------ MODULE Overhead ------------------------------
(***************************************************************************)
(* How the agent estimates the memory of a key: the jemalloc size classes  *)
(* and structure sizes of internal/utils/memprofiler.go, and the           *)
(* MemOverhead methods of internal/rdb/types.                              *)
(*                                                                         *)
(* A string stands for its length; the value of a string object also says  *)
(* whether it is an integer.  Sizes are in bytes.  The sums stay far below *)
(* 2^64 for anything a Redis node can hold, so uint64 does not wrap here.  *)
(***************************************************************************)
EXTENDS Integers, Sequences, FiniteSets, SequencesExt

pointerSize == 8
longSize == 8

Pow2[e \in Nat] == IF e = 0 THEN 1 ELSE 2 * Pow2[e - 1]

---------------------------------------------------------------------------
(* jemalloc *)

\* jemallocSizeClasses as the source lists it, counted from 0: 8, the classes
\* 16 to 128, four of them a second time, and four classes per doubling.
ClassCount == 161

jemallocSizeClasses(i) ==
  CASE i = 0         -> 8
    [] i \in 1 .. 8  -> 16 * i
    [] i \in 9 .. 12 -> 16 * (i - 4)
    [] OTHER         -> (160 + 32 * ((i - 13) % 4)) * Pow2[(i - 13) \div 4]

\* Mutation: the first class above size.
SearchStrict(size) ==
  LET bisect[r \in (0 .. ClassCount) \X (0 .. ClassCount)] ==
        LET h == (r[1] + r[2]) \div 2
        IN IF r[1] >= r[2] THEN r[1]
           ELSE IF jemallocSizeClasses(h) > size THEN bisect[<<r[1], h>>]
           ELSE bisect[<<h + 1, r[2]>>]
  IN bisect[<<0, ClassCount>>]

\* sort.Search: bisection for the first index whose class is at least size.
\* It presumes that the classes ascend, which the repeated ones do not.
Search(size) ==
  LET bisect[r \in (0 .. ClassCount) \X (0 .. ClassCount)] ==
        LET h == (r[1] + r[2]) \div 2
        IN IF r[1] >= r[2] THEN r[1]
           ELSE IF jemallocSizeClasses(h) >= size THEN bisect[<<r[1], h>>]
           ELSE bisect[<<h + 1, r[2]>>]
  IN bisect[<<0, ClassCount>>]

MallocOverhead(size) ==
  LET idx == Search(size)
  IN IF idx < ClassCount THEN jemallocSizeClasses(idx) ELSE size

---------------------------------------------------------------------------
(* Structures *)

\* The header of an sds depends on the length of the string.
SdsHeader(len) ==
  CASE len < 256                                  -> 4
    [] 256 <= len /\ len < 65536                  -> 6
    [] 65536 <= len /\ len \div 65536 < 65536     -> 10      \* below 4 GiB
    [] OTHER                                      -> 18

SdsOverhead(len) == MallocOverhead(SdsHeader(len) + len)

DictEntryOverhead == MallocOverhead(3 * pointerSize)
RedisObjOverhead == MallocOverhead(1 + 3 + 4 + pointerSize)
DictHtOverhead == MallocOverhead(4 * pointerSize)
DictOverhead == MallocOverhead(3 * pointerSize + 2 * DictHtOverhead + 4)
QuicklistOverhead == MallocOverhead(2 * pointerSize + 2 * longSize + 8)
QuicklistNodeOverhead == MallocOverhead(3 * pointerSize + 8)
ZsetOverhead == MallocOverhead(2 * pointerSize)
ZskiplistOverhead == MallocOverhead(2 * pointerSize + longSize + 8)

\* The element of a node is rounded to a size class twice, as in the source.
ZskiplistNodeOverhead(len) ==
  MallocOverhead(2 * pointerSize + longSize) + MallocOverhead(SdsOverhead(len))

StringValueOverhead(v) ==
  RedisObjOverhead + (IF v.int /\ v.len <= 20 THEN 0 ELSE SdsOverhead(v.len))

ZiplistOverhead == 4 + 4 + 2 + 1

ZlentryOverhead(previous, len) ==
  (IF previous >= 254 THEN 5 ELSE 1)
  + (IF len < 64 THEN 1 ELSE IF len < 16384 THEN 2 ELSE 5)
  + len

\* Mutation: < for <=.
NextPowerAtLeast(size) ==
  LET grow[power \in Nat] == IF power < size THEN grow[2 * power] ELSE power
  IN grow[1]

\* The least power of two above size.
NextPower(size) ==
  LET grow[power \in Nat] == IF power <= size THEN grow[2 * power] ELSE power
  IN grow[1]

\* Both tables of a dictionary that is being rehashed.
FieldBucketOverhead(size) ==
  MallocOverhead(NextPower(size) * pointerSize)
  + MallocOverhead((NextPower(size) \div 2) * pointerSize)

\* The sizes of the levels of a skip list: each a quarter of the one below.
LevelSizes(count) ==
  LET sizes[c \in Nat] == IF c = 0 THEN <<>> ELSE <<c>> \o sizes[c \div 4]
  IN sizes[count]

---------------------------------------------------------------------------
(* MemOverhead of the value types; key and elements are lengths *)

Map(Op(_), seq) == [i \in DOMAIN seq |-> Op(seq[i])]

StringMemOverhead(key, value) ==
  DictEntryOverhead + SdsOverhead(key) + StringValueOverhead(value)

SetMemOverhead(key, elements) ==
  LET element(len) == DictEntryOverhead + SdsOverhead(len)
  IN DictEntryOverhead + SdsOverhead(key) + RedisObjOverhead + DictOverhead
     + SumFunction(Map(element, elements)) + FieldBucketOverhead(Len(elements))

\* Mutation: the values of the fields are forgotten.
HashMemOverheadOfNames(key, fields) ==
  LET field(f) == DictEntryOverhead + SdsOverhead(f.name)
  IN DictEntryOverhead + SdsOverhead(key) + RedisObjOverhead + DictOverhead
     + SumFunction(Map(field, fields)) + FieldBucketOverhead(Len(fields))

HashMemOverhead(key, fields) ==
  LET field(f) == DictEntryOverhead + SdsOverhead(f.name) + SdsOverhead(f.value)
  IN DictEntryOverhead + SdsOverhead(key) + RedisObjOverhead + DictOverhead
     + SumFunction(Map(field, fields)) + FieldBucketOverhead(Len(fields))

\* The buckets are counted in topLevelObjOverhead and again at the end.
ZsetMemOverhead(key, members) ==
  LET member(len) == DictEntryOverhead + ZskiplistNodeOverhead(len)
  IN DictEntryOverhead + SdsOverhead(key) + RedisObjOverhead + ZsetOverhead
     + DictOverhead + ZskiplistOverhead
     + SumFunction(Map(member, members)) + 16 * SumFunction(LevelSizes(Len(members)))
     + 2 * FieldBucketOverhead(Len(members))

maxZipListSize == 8192

\* The loop over the elements of a list: what it has accumulated so far.  The
\* element that does not fit closes the ziplist and is not put into the next.
ListStart == [previous |-> 0, size |-> ZiplistOverhead, nodes |-> 0, data |-> 0]

\* Mutation: a full ziplist replaces the ones before it.
ListStepForgets(acc, len) ==
  LET entry == ZlentryOverhead(acc.previous, len)
  IN IF acc.size + entry > maxZipListSize
     THEN [previous |-> len, size |-> ZiplistOverhead, nodes |-> acc.nodes + 1,
           data |-> MallocOverhead(acc.size)]
     ELSE [acc EXCEPT !.previous = len, !.size = @ + entry]

ListStep(acc, len) ==
  LET entry == ZlentryOverhead(acc.previous, len)
  IN IF acc.size + entry > maxZipListSize
     THEN [previous |-> len, size |-> ZiplistOverhead, nodes |-> acc.nodes + 1,
           data |-> acc.data + MallocOverhead(acc.size)]
     ELSE [acc EXCEPT !.previous = len, !.size = @ + entry]

\* What is left of the loop when it ends; its size is not charged.
ListLoop(elements) == FoldLeft(ListStep, ListStart, elements)

ListMemOverhead(key, elements) ==
  LET acc == ListLoop(elements)
  IN DictEntryOverhead + SdsOverhead(key) + RedisObjOverhead + QuicklistOverhead
     + QuicklistNodeOverhead * acc.nodes + acc.data

---------------------------------------------------------------------------
(* What the estimates promise.  The arguments range over small sets in the *)
(* instances; elements is a sequence of lengths.                           *)

IsLeast(c, S) == c \in S /\ \A d \in S : c <= d

\* The bisection finds the least class that holds size, although the table is
\* not sorted, and the result never decreases when the size grows.
MallocIsLeastClass(size) ==
  /\ IsLeast(MallocOverhead(size),
             {c \in {jemallocSizeClasses(i) : i \in 0 .. 81} : c >= size})
  /\ MallocOverhead(size) <= MallocOverhead(size + 1)

\* A hash table of a dictionary has room for every element, and during a
\* rehash the estimate holds both tables.
BucketsHoldAll(count) ==
  LET power == NextPower(count)
  IN /\ \E e \in 0 .. count : power = Pow2[e]
     /\ power > count /\ power <= 2 * count + 1
     /\ FieldBucketOverhead(count) >= pointerSize * (power + power \div 2)

\* The values of the types, with the same elements.
Fields(elements) == [i \in DOMAIN elements |-> [name |-> i, value |-> elements[i]]]

Estimates(key, elements) ==
  [set  |-> SetMemOverhead(key, elements),
   hash |-> HashMemOverhead(key, Fields(elements)),
   zset |-> ZsetMemOverhead(key, elements),
   list |-> ListMemOverhead(key, elements)]

\* An estimate never decreases when an element is added or the key is longer.
EstimatesGrow(key, elements, len) ==
  LET less == Estimates(key, elements)
      more == Estimates(key, Append(elements, len))
      longer == Estimates(key + 1, elements)
  IN \A type \in DOMAIN less : less[type] <= more[type] /\ less[type] <= longer[type]

\* The estimate of a set, hash, sorted set or text covers its content.  That of
\* a list leaves out the last ziplist, and one element for each ziplist before
\* it, none longer than longest; it covers the rest.
EstimatesCoverContent(key, elements, longest) ==
  LET held == key + SumFunction(elements)
      loop == ListLoop(elements)
  IN /\ \A type \in {"set", "hash", "zset"} : Estimates(key, elements)[type] >= held
     /\ \A i \in DOMAIN elements :
          StringMemOverhead(key, [len |-> elements[i], int |-> FALSE]) >= key + elements[i]
     /\ (\A i \in DOMAIN elements : elements[i] <= longest) =>
          ListMemOverhead(key, elements) + loop.size + loop.nodes * longest >= held

=============================================================================
