--------------------------- MODULE RdbFormatProofs ---------------------------
(***************************************************************************)
(* Proofs about the walk of MCRdbFormat and the tag of a key: every value  *)
(* the walk reaches is read back from what it is stored as, for all bounds *)
(* on the walk, every key and every tag.                                   *)
(*                                                                         *)
(* The loaders of RdbTypes are taken type by type, on the decoders that    *)
(* DataProofs is about.  A decoder that is repeated is named, not passed,  *)
(* since no prover takes an operator for a parameter: Reader lists those   *)
(* that ReadTimes is used with.                                            *)
(***************************************************************************)
EXTENDS MCRdbFormat, HashKey, DataProofs

---------------------------------------------------------------------------
(* The values of MCRdbFormat *)

LEMMA NumbersAreModerate == \A v \in Numbers : FormatInt(v) \in Moderate
<1> TAKE v \in Numbers
<1>1. v \in Int /\ -Greatest(32) - 1 <= v /\ v <= Greatest(32) BY SMT DEF Numbers, Greatest
<1>2. FormatInt(v) \in Bytes BY <1>1, FormatIntType
<1>3. Len(FormatInt(v)) <= 11 BY Zenon, <1>1, FormatIntLength
<1>4. Len(FormatInt(v)) \in Nat BY <1>2 DEF Bytes
<1> QED BY SMT, <1>2, <1>3, <1>4 DEF Moderate

LEMMA TextsAreModerate == \A n \in Lengths \cup LongLengths : Text(n) \in Moderate
<1> TAKE n \in Lengths \cup LongLengths
<1>1. n \in Nat /\ n <= 1000000 BY SMT, LengthsAssumption
<1>2. \A i \in 1 .. n : (IF i = 1 THEN 65 ELSE 97 + (i % 26)) \in Byte BY DEF Byte
<1>3. Text(n) \in Bytes /\ Len(Text(n)) = n BY SMT, <1>1, <1>2 DEF Text, Bytes
<1> QED BY SMT, <1>1, <1>3 DEF Moderate

LEMMA RepeatsAreModerate == \A r \in Repeats : Repeated(r[1], r[2]) \in Moderate
<1> TAKE r \in Repeats
<1>1. PICK period \in Nat, n \in Nat : r[1] = period /\ r[2] = n /\ period > 0 /\ n <= 270
  BY SMT DEF Repeats
<1>2. ASSUME NEW i \in 1 .. n PROVE 97 + (((i - 1) % period) % 149) \in Byte
  <2>1. i - 1 \in Nat BY <1>1
  <2>2. PICK p \in Nat : p = (i - 1) % period BY <1>1, <2>1
  <2>3. 97 + (p % 149) \in Byte BY <2>2 DEF Byte
  <2> QED BY <2>2, <2>3
<1>3. Repeated(period, n) \in Bytes /\ Len(Repeated(period, n)) = n
  BY SMT, <1>1, <1>2 DEF Repeated, Bytes
<1> QED BY SMT, <1>1, <1>3 DEF Moderate

LEMMA ElementsAreModerate == Elements \cup LongElements \cup Few \subseteq Moderate
<1>1. Elements \subseteq Moderate
  BY Zenon, NumbersAreModerate, TextsAreModerate, RepeatsAreModerate DEF Elements
<1>2. LongElements \subseteq Moderate BY Zenon, TextsAreModerate DEF LongElements
<1>3. Few \subseteq Moderate BY Zenon, NumbersAreModerate, TextsAreModerate DEF Few
<1> QED BY Zenon, <1>1, <1>2, <1>3

\* The lists fit the lengths in their headers.
Listed == slack \in Nat /\ (kind = "strings" => value \in Seq(Moderate) /\ Len(value) <= 1000)

LEMMA ListedInvariant == Spec => []Listed
<1>1. Init => Listed
  <2> SUFFICES ASSUME Init PROVE Listed OBVIOUS
  <2>1. slack \in Nat BY DEF Init
  <2>2. kind = "strings" => value = <<>> BY DEF Init
  <2>3. <<>> \in Seq(Moderate) /\ Len(<<>>) = 0 OBVIOUS
  <2>4. 0 <= 1000 OBVIOUS
  <2>5. kind = "strings" => value \in Seq(Moderate) /\ Len(value) <= 1000 BY SMT, <2>2, <2>3, <2>4
  <2> QED BY <2>1, <2>5 DEF Listed
<1>2. ASSUME Listed, [Next]_vars PROVE Listed'
  <2>1. CASE Push
    <3>1. kind = "strings" /\ kind' = kind /\ slack' = slack BY <2>1 DEF Push
    <3>2. value \in Seq(Moderate) /\ Len(value) <= 1000 BY <1>2, <3>1 DEF Listed
    <3>3. PICK e \in Elements \cup LongElements \cup Few :
            \/ value' = <<e>>
            \/ value' = Append(value, e) /\ Len(value) + 1 <= 1000
      <4>1. MaxElements \in Nat /\ MaxElements <= 1000 BY MaxElementsAssumption
      <4> QED BY <2>1, <3>2, <4>1 DEF Push
    <3>4. e \in Moderate BY ElementsAreModerate
    <3>5. value' \in Seq(Moderate) /\ Len(value') <= 1000
      <4>1. CASE value' = <<e>> BY <3>4, <4>1
      <4>2. CASE value' = Append(value, e) /\ Len(value) + 1 <= 1000 BY <3>2, <3>4, <4>2
      <4> QED BY <3>3, <4>1, <4>2
    <3> QED BY <1>2, <3>1, <3>5 DEF Listed
  <2>2. CASE ExtendKey BY <1>2, <2>2 DEF ExtendKey, Listed
  <2>3. CASE Xadd BY <1>2, <2>3 DEF Xadd, Listed
  <2>4. CASE Xdel BY <1>2, <2>4 DEF Xdel, Listed
  <2>5. CASE XgroupCreate BY SMTT(30), <1>2, <2>5 DEF XgroupCreate, Listed
  <2>6. CASE Xreadgroup BY <1>2, <2>6 DEF Xreadgroup, Listed
  <2>7. CASE UNCHANGED vars BY SMTT(30), <1>2, <2>7 DEF vars, Listed
  <2> QED BY <1>2, <2>1, <2>2, <2>3, <2>4, <2>5, <2>6, <2>7 DEF Next
<1> QED BY <1>1, <1>2, PTL DEF Spec

LEMMA ShorterIsStrictPrefix ==
  \A S : \A vals, more \in Seq(S) : more # <<>> => IsStrictPrefix(vals, vals \o more)
<1> TAKE S
<1> TAKE vals, more \in Seq(S)
<1> HAVE more # <<>>
<1> DEFINE all == vals \o more
           n == Len(vals)
<1>1. n \in Nat /\ all \in Seq(S) /\ Len(all) = n + Len(more) /\ Len(more) \in Nat /\ Len(more) # 0
  OBVIOUS
<1>2. \A i \in 1 .. n : all[i] = vals[i] OBVIOUS
<1>3. SubSeq(vals, 1, n) = vals OBVIOUS
<1> HIDE DEF all
<1>4. SubSeq(all, 1, n) = vals BY <1>1, <1>2
<1>5. vals # all /\ n <= Len(all) BY <1>1
<1> QED BY ZenonT(40), <1>3, <1>4, <1>5 DEF IsStrictPrefix, IsPrefix, all

\* ReadZipList and ReadListpack: whatever the elements, the encodings and the
\* count that says "not known", a longer ziplist is never read to its end, and
\* a listpack is only when it has exactly as many elements as the count says.
THEOREM UncountedLists == Spec => []UncountedListsLoad
<1>1. Listed => UncountedListsLoad
  <2> SUFFICES ASSUME Listed, kind = "strings", Len(value) >= Unknown
               PROVE  LET zip == ReadZipList(ZipListBytes(value, slack) \o Following)
                          pack == ReadListpack(ListpackBytes(value, slack) \o Following)
                      IN /\ zip.ok => IsStrictPrefix(zip.val, value) /\ zip.rest = Following
                         /\ IF Len(value) = Unknown THEN pack = Got(value, Following) ELSE ~pack.ok
    BY DEF UncountedListsLoad
  <2> DEFINE zip == ReadZipList(ZipListBytes(value, slack) \o Following)
             pack == ReadListpack(ListpackBytes(value, slack) \o Following)
  <2>1. slack \in Nat /\ value \in Seq(Moderate) /\ Len(value) <= 1000 BY DEF Listed
  <2>2. Following \in Bytes
    <3>1. 255 \in Byte /\ 254 \in Byte /\ 0 \in Byte BY DEF Byte
    <3> QED BY <3>1 DEF Following, Bytes
  <2>3. Packable(value, slack) /\ Zippable(value, slack) BY ZenonT(40), <2>1, ModerateListsFit
  <2>4. Len(value) \in Nat /\ Unknown \in Nat BY <2>1, UnknownAssumption
  <2>5. ~Panicked.ok BY DEF Panicked
  <2>6. pack = IF Len(value) <= Unknown THEN Got(value, Following) ELSE Panicked
    BY Zenon, <2>1, <2>2, <2>3, ListpacksLoad
  <2>7. FallsShort(zip, value, Following)
    <3>1. ~(Len(value) < Unknown) BY <2>4
    <3> QED BY Zenon, <2>1, <2>2, <2>3, <3>1, ZipListsLoad
  <2> HIDE DEF zip, pack
  <2>8. ASSUME zip.ok PROVE IsStrictPrefix(zip.val, value) /\ zip.rest = Following
    <3>1. PICK vals \in Seq(Strings), more \in Seq(Strings) :
            more # <<>> /\ value = vals \o more /\ zip = Got(vals, Following)
      BY <2>5, <2>7, <2>8 DEF FallsShort
    <3>2. zip.val = vals /\ zip.rest = Following BY <3>1 DEF Got
    <3>3. IsStrictPrefix(vals, value) BY Zenon, <3>1, ShorterIsStrictPrefix
    <3> QED BY <3>2, <3>3
  <2>9. IF Len(value) = Unknown THEN pack = Got(value, Following) ELSE ~pack.ok
    BY <2>4, <2>5, <2>6
  <2> QED BY <2>8, <2>9 DEF zip, pack
<1> QED BY <1>1, ListedInvariant, PTL

---------------------------------------------------------------------------
(* A length, and as many values *)

\* Each piece is read as the value of the same place.
Laid(k, pieces, vals) ==
  /\ pieces \in Seq(Bytes) /\ Len(vals) = Len(pieces)
  /\ \A i \in 1 .. Len(pieces) : ReadsAs(k, pieces[i], vals[i])

LEMMA PiecesRead ==
  \A k, S : \A vals \in Seq(S) : \A pieces :
    Laid(k, pieces, vals) => ReadsAll(k, FlattenSeq(pieces), vals)
<1> TAKE k, S
<1> DEFINE Read(vals) == \A pieces : Laid(k, pieces, vals) => ReadsAll(k, FlattenSeq(pieces), vals)
           T == {vals \in Seq(S) : Read(vals)}
<1>1. <<>> \in T
  <2>1. ASSUME NEW pieces, Laid(k, pieces, <<>>) PROVE ReadsAll(k, FlattenSeq(pieces), <<>>)
    <3>1. pieces \in Seq(Bytes) /\ Len(pieces) = 0 BY <2>1 DEF Laid
    <3>2. pieces = <<>> BY <3>1
    <3> QED BY <3>2, FlattenOfNone, ReadsNone
  <2>2. Read(<<>>) BY <2>1
  <2> HIDE DEF Read
  <2> QED BY <2>2
<1>2. ASSUME NEW vals \in T, NEW v \in S PROVE Append(vals, v) \in T
  <2>1. vals \in Seq(S) /\ Len(vals) \in Nat OBVIOUS
  <2>2. Read(vals) OBVIOUS
  <2> DEFINE more == Append(vals, v)
  <2>3. /\ more \in Seq(S) /\ Len(more) = Len(vals) + 1 /\ more[Len(vals) + 1] = v
        /\ \A i \in 1 .. Len(vals) : more[i] = vals[i]
    BY <2>1
  <2>4. ASSUME NEW pieces, Laid(k, pieces, more) PROVE ReadsAll(k, FlattenSeq(pieces), more)
    <3> HIDE DEF more
    <3>1. pieces \in Seq(Bytes) /\ Len(pieces) = Len(vals) + 1 BY <2>3, <2>4 DEF Laid
    <3>2. pieces # <<>> BY <2>1, <3>1
    <3>3. PICK front \in Seq(Bytes), piece \in Bytes : pieces = Append(front, piece)
      BY <3>1, <3>2, SequenceEmptyOrAppend
    <3>4. /\ Len(front) \in Nat /\ Len(pieces) = Len(front) + 1 /\ pieces[Len(front) + 1] = piece
          /\ \A i \in 1 .. Len(front) : pieces[i] = front[i]
      BY <3>3
    <3>5. Len(front) = Len(vals) BY <2>1, <3>1, <3>4
    <3>6. ReadsAs(k, piece, v)
      <4>1. Len(front) + 1 \in 1 .. Len(pieces) BY <3>4
      <4>2. ReadsAs(k, pieces[Len(front) + 1], more[Len(front) + 1]) BY <2>4, <4>1 DEF Laid
      <4> QED BY <2>3, <3>4, <3>5, <4>2
    <3>7. Laid(k, front, vals)
      <4>1. ASSUME NEW i \in 1 .. Len(front) PROVE ReadsAs(k, front[i], vals[i])
        <5>1. i \in 1 .. Len(pieces) /\ i \in 1 .. Len(vals) BY <3>4, <3>5
        <5>2. ReadsAs(k, pieces[i], more[i]) BY <2>4, <5>1 DEF Laid
        <5> QED BY <2>3, <3>4, <5>1, <5>2
      <4> QED BY <3>5, <4>1 DEF Laid
    <3>8. ReadsAll(k, FlattenSeq(front), vals) BY <2>2, <3>7
    <3>9. ReadsAll(k, FlattenSeq(front) \o piece, Append(vals, v)) BY Zenon, <2>1, <3>6, <3>8, ReadsMore
    <3>10. FlattenSeq(pieces) = FlattenSeq(front) \o piece BY <3>3, FlattenAppends DEF Bytes
    <3> QED BY <3>9, <3>10 DEF more
  <2>5. Read(more)
    <3> HIDE DEF more
    <3> QED BY <2>4
  <2> HIDE DEF Read, more
  <2>6. more \in T BY <2>3, <2>5
  <2> QED BY <2>6 DEF more
<1>3. T = Seq(S)
  <2> HIDE DEF T
  <2>1. T \in SUBSET Seq(S) BY DEF T
  <2> QED BY <1>1, <1>2, <2>1, SequenceInduction
<1> QED BY <1>3

\* A length, and body behind it, where vals are read when reading so many times.
ReadsCount(k, bytes, vals, rest, body) ==
  /\ ReadLength(bytes \o rest) = Got(Len(vals), body)
  /\ \A result : Times(k, Len(vals), body, result) => result = Got(vals, rest)

CountedAs(k, bytes, vals) ==
  /\ bytes \in Bytes /\ Len(vals) \in Nat
  /\ \A rest \in Bytes : \E body : ReadsCount(k, bytes, vals, rest, body)

CountedPieces(pieces, steps) == LengthBytes(Len(pieces), steps) \o FlattenSeq(pieces)

LEMMA PiecesCounted ==
  \A k, S, pieces : \A vals \in Seq(S), steps \in Nat :
    Laid(k, pieces, vals) /\ Len(vals) \in Word => CountedAs(k, CountedPieces(pieces, steps), vals)
<1> TAKE k, S, pieces
<1> TAKE vals \in Seq(S), steps \in Nat
<1> HAVE Laid(k, pieces, vals) /\ Len(vals) \in Word
<1>1. PICK n : n = Len(vals) /\ n \in Nat /\ n \in Word /\ n = Len(pieces) BY DEF Laid
<1>2. PICK all : all = FlattenSeq(pieces) /\ ReadsAll(k, all, vals) BY PiecesRead
<1>3. PICK head : head = LengthBytes(n, steps) /\ head \in Bytes /\ IsLength(head, n)
  BY <1>1, LengthsLoad DEF AsLength
<1>4. CountedPieces(pieces, steps) = head \o all BY <1>1, <1>2, <1>3 DEF CountedPieces
<1>5. all \in Bytes BY <1>2 DEF ReadsAll
<1>6. head \o all \in Bytes BY <1>3, <1>5, BytesConcat
<1>7. ASSUME NEW rest \in Bytes PROVE ReadsCount(k, head \o all, vals, rest, all \o rest)
  <2>1. all \o rest \in Bytes BY <1>5, BytesConcat
  <2>2. (head \o all) \o rest = head \o (all \o rest) BY <1>3, <1>5, BytesAssociate
  <2>3. ReadLength(head \o (all \o rest)) = Got(n, all \o rest) BY <1>3, <2>1, LengthRead
  <2>4. ASSUME NEW result, Times(k, n, all \o rest, result) PROVE result = Got(vals, rest)
    <3>1. PICK f : UpTo(f, k, n, all \o rest) /\ result = f[n] BY <2>4 DEF Times
    <3>2. n <= n BY <1>1
    <3>3. f[n] = Got(vals, rest) BY <1>1, <1>2, <3>1, <3>2 DEF ReadsAll
    <3> QED BY <3>1, <3>3
  <2> QED BY Zenon, <1>1, <2>2, <2>3, <2>4 DEF ReadsCount
<1>8. CountedAs(k, head \o all, vals) BY Zenon, <1>1, <1>6, <1>7 DEF CountedAs
<1> QED BY <1>4, <1>8

FieldPair(rd) == ReadPair(rd, ReadString)
ScorePair(rd) == ReadPair(rd, ReadFloat)
DoublePair(rd) == ReadPair(rd, ReadDouble)

UpToStrings(f, n, rd) ==
  f = [i \in 0 .. n |->
         IF i = 0 THEN Got(<<>>, rd)
         ELSE Bind(f[i - 1], LAMBDA vals, rest :
                Convert(ReadString(rest), LAMBDA val : Append(vals, val)))]

LEMMA TimesStrings == \A n \in Nat : \A rd : Times("string", n, rd, ReadTimes(n, ReadString, rd))
<1> TAKE n \in Nat
<1> TAKE rd
<1> DEFINE f == CHOOSE g : UpToStrings(g, n, rd)
<1>1. \A r : Reader("string", r) = ReadString(r) BY Zenon DEF Reader
<1>2. \A result : OneMore("string", result) =
                    Bind(result, LAMBDA vals, rest :
                      Convert(ReadString(rest), LAMBDA val : Append(vals, val)))
  <2> TAKE result
  <2> DEFINE r == ReadString(result.rest)
  <2>1. Reader("string", result.rest) = r BY <1>1
  <2>2. OneMore("string", result) =
          IF result.ok THEN Convert(r, LAMBDA val : Append(result.val, val)) ELSE Panicked
    <3> HIDE DEF r
    <3> QED BY SMT, <2>1 DEF OneMore, Bind, Convert
  <2> QED BY Zenon, <2>2 DEF Bind
<1>3. \A g : UpTo(g, "string", n, rd) <=> UpToStrings(g, n, rd)
  <2> TAKE g
  <2> DEFINE Old(i) == IF i = 0 THEN Got(<<>>, rd) ELSE OneMore("string", g[i - 1])
             New(i) == IF i = 0 THEN Got(<<>>, rd)
                       ELSE Bind(g[i - 1], LAMBDA vals, rest :
                              Convert(ReadString(rest), LAMBDA val : Append(vals, val)))
  <2>1. \A i \in 0 .. n : Old(i) = New(i) BY Zenon, <1>2
  <2>2. [i \in 0 .. n |-> Old(i)] = [i \in 0 .. n |-> New(i)]
    <3> HIDE DEF Old, New
    <3> QED BY <2>1
  <2> QED BY Zenon, <2>2 DEF UpTo, UpToStrings
<1>4. UpToStrings(f, n, rd)
  <2>1. \E g : UpToStrings(g, n, rd) BY Zenon, <1>3, UpToExists
  <2> QED BY Zenon, <2>1
<1>5. ReadTimes(n, ReadString, rd) = f[n] BY Zenon DEF ReadTimes, UpToStrings
<1> HIDE DEF f
<1>6. UpTo(f, "string", n, rd) BY <1>3, <1>4
<1> QED BY <1>5, <1>6 DEF Times

LEMMA CountedStrings ==
  \A bytes, vals, rest :
    CountedAs("string", bytes, vals) /\ rest \in Bytes
      => ReadCounted(bytes \o rest, ReadString) = Got(vals, rest)
<1> SUFFICES ASSUME NEW bytes, NEW vals, NEW rest \in Bytes, CountedAs("string", bytes, vals)
             PROVE  ReadCounted(bytes \o rest, ReadString) = Got(vals, rest)
  OBVIOUS
<1>1. PICK body : ReadsCount("string", bytes, vals, rest, body) BY Zenon DEF CountedAs
<1>2. Len(vals) \in Nat BY DEF CountedAs
<1> DEFINE r == ReadLength(bytes \o rest)
           n == Len(vals)
<1>3. r = Got(n, body) BY <1>1 DEF ReadsCount
<1>4. ReadCounted(bytes \o rest, ReadString) = Bind(r, LAMBDA m, left : ReadTimes(m, ReadString, left))
  BY Zenon DEF ReadCounted
<1> HIDE DEF r
<1>5. r.ok /\ r.val = n /\ r.rest = body BY <1>3, GotHas
<1> DEFINE result == ReadTimes(n, ReadString, body)
<1>6. Bind(r, LAMBDA m, left : ReadTimes(m, ReadString, left)) = result BY Zenon, <1>5 DEF Bind
<1>7. Times("string", n, body, result) BY Zenon, <1>2, TimesStrings
<1> HIDE DEF result, n
<1>8. result = Got(vals, rest) BY Zenon, <1>1, <1>7 DEF ReadsCount, n
<1> QED BY Zenon, <1>4, <1>6, <1>8

UpToZipLists(f, n, rd) ==
  f = [i \in 0 .. n |->
         IF i = 0 THEN Got(<<>>, rd)
         ELSE Bind(f[i - 1], LAMBDA vals, rest :
                Convert(ReadZipList(rest), LAMBDA val : Append(vals, val)))]

LEMMA TimesZipLists == \A n \in Nat : \A rd : Times("ziplists", n, rd, ReadTimes(n, ReadZipList, rd))
<1> TAKE n \in Nat
<1> TAKE rd
<1> DEFINE f == CHOOSE g : UpToZipLists(g, n, rd)
<1>1. \A r : Reader("ziplists", r) = ReadZipList(r) BY Zenon DEF Reader
<1>2. \A result : OneMore("ziplists", result) =
                    Bind(result, LAMBDA vals, rest :
                      Convert(ReadZipList(rest), LAMBDA val : Append(vals, val)))
  <2> TAKE result
  <2> DEFINE r == ReadZipList(result.rest)
  <2>1. Reader("ziplists", result.rest) = r BY <1>1
  <2>2. OneMore("ziplists", result) =
          IF result.ok THEN Convert(r, LAMBDA val : Append(result.val, val)) ELSE Panicked
    <3> HIDE DEF r
    <3> QED BY SMT, <2>1 DEF OneMore, Bind, Convert
  <2> QED BY Zenon, <2>2 DEF Bind
<1>3. \A g : UpTo(g, "ziplists", n, rd) <=> UpToZipLists(g, n, rd)
  <2> TAKE g
  <2> DEFINE Old(i) == IF i = 0 THEN Got(<<>>, rd) ELSE OneMore("ziplists", g[i - 1])
             New(i) == IF i = 0 THEN Got(<<>>, rd)
                       ELSE Bind(g[i - 1], LAMBDA vals, rest :
                              Convert(ReadZipList(rest), LAMBDA val : Append(vals, val)))
  <2>1. \A i \in 0 .. n : Old(i) = New(i) BY Zenon, <1>2
  <2>2. [i \in 0 .. n |-> Old(i)] = [i \in 0 .. n |-> New(i)]
    <3> HIDE DEF Old, New
    <3> QED BY <2>1
  <2> QED BY Zenon, <2>2 DEF UpTo, UpToZipLists
<1>4. UpToZipLists(f, n, rd)
  <2>1. \E g : UpToZipLists(g, n, rd) BY Zenon, <1>3, UpToExists
  <2> QED BY Zenon, <2>1
<1>5. ReadTimes(n, ReadZipList, rd) = f[n] BY Zenon DEF ReadTimes, UpToZipLists
<1> HIDE DEF f
<1>6. UpTo(f, "ziplists", n, rd) BY <1>3, <1>4
<1> QED BY <1>5, <1>6 DEF Times

LEMMA CountedZipLists ==
  \A bytes, vals, rest :
    CountedAs("ziplists", bytes, vals) /\ rest \in Bytes
      => ReadCounted(bytes \o rest, ReadZipList) = Got(vals, rest)
<1> SUFFICES ASSUME NEW bytes, NEW vals, NEW rest \in Bytes, CountedAs("ziplists", bytes, vals)
             PROVE  ReadCounted(bytes \o rest, ReadZipList) = Got(vals, rest)
  OBVIOUS
<1>1. PICK body : ReadsCount("ziplists", bytes, vals, rest, body) BY Zenon DEF CountedAs
<1>2. Len(vals) \in Nat BY DEF CountedAs
<1> DEFINE r == ReadLength(bytes \o rest)
           n == Len(vals)
<1>3. r = Got(n, body) BY <1>1 DEF ReadsCount
<1>4. ReadCounted(bytes \o rest, ReadZipList) = Bind(r, LAMBDA m, left : ReadTimes(m, ReadZipList, left))
  BY Zenon DEF ReadCounted
<1> HIDE DEF r
<1>5. r.ok /\ r.val = n /\ r.rest = body BY <1>3, GotHas
<1> DEFINE result == ReadTimes(n, ReadZipList, body)
<1>6. Bind(r, LAMBDA m, left : ReadTimes(m, ReadZipList, left)) = result BY Zenon, <1>5 DEF Bind
<1>7. Times("ziplists", n, body, result) BY Zenon, <1>2, TimesZipLists
<1> HIDE DEF result, n
<1>8. result = Got(vals, rest) BY Zenon, <1>1, <1>7 DEF ReadsCount, n
<1> QED BY Zenon, <1>4, <1>6, <1>8

UpToNodes(f, n, rd) ==
  f = [i \in 0 .. n |->
         IF i = 0 THEN Got(<<>>, rd)
         ELSE Bind(f[i - 1], LAMBDA vals, rest :
                Convert(QuickListNode(rest), LAMBDA val : Append(vals, val)))]

LEMMA TimesNodes == \A n \in Nat : \A rd : Times("nodes", n, rd, ReadTimes(n, QuickListNode, rd))
<1> TAKE n \in Nat
<1> TAKE rd
<1> DEFINE f == CHOOSE g : UpToNodes(g, n, rd)
<1>1. \A r : Reader("nodes", r) = QuickListNode(r) BY Zenon DEF Reader
<1>2. \A result : OneMore("nodes", result) =
                    Bind(result, LAMBDA vals, rest :
                      Convert(QuickListNode(rest), LAMBDA val : Append(vals, val)))
  <2> TAKE result
  <2> DEFINE r == QuickListNode(result.rest)
  <2>1. Reader("nodes", result.rest) = r BY <1>1
  <2>2. OneMore("nodes", result) =
          IF result.ok THEN Convert(r, LAMBDA val : Append(result.val, val)) ELSE Panicked
    <3> HIDE DEF r
    <3> QED BY SMT, <2>1 DEF OneMore, Bind, Convert
  <2> QED BY Zenon, <2>2 DEF Bind
<1>3. \A g : UpTo(g, "nodes", n, rd) <=> UpToNodes(g, n, rd)
  <2> TAKE g
  <2> DEFINE Old(i) == IF i = 0 THEN Got(<<>>, rd) ELSE OneMore("nodes", g[i - 1])
             New(i) == IF i = 0 THEN Got(<<>>, rd)
                       ELSE Bind(g[i - 1], LAMBDA vals, rest :
                              Convert(QuickListNode(rest), LAMBDA val : Append(vals, val)))
  <2>1. \A i \in 0 .. n : Old(i) = New(i) BY Zenon, <1>2
  <2>2. [i \in 0 .. n |-> Old(i)] = [i \in 0 .. n |-> New(i)]
    <3> HIDE DEF Old, New
    <3> QED BY <2>1
  <2> QED BY Zenon, <2>2 DEF UpTo, UpToNodes
<1>4. UpToNodes(f, n, rd)
  <2>1. \E g : UpToNodes(g, n, rd) BY Zenon, <1>3, UpToExists
  <2> QED BY Zenon, <2>1
<1>5. ReadTimes(n, QuickListNode, rd) = f[n] BY Zenon DEF ReadTimes, UpToNodes
<1> HIDE DEF f
<1>6. UpTo(f, "nodes", n, rd) BY <1>3, <1>4
<1> QED BY <1>5, <1>6 DEF Times

LEMMA CountedNodes ==
  \A bytes, vals, rest :
    CountedAs("nodes", bytes, vals) /\ rest \in Bytes
      => ReadCounted(bytes \o rest, QuickListNode) = Got(vals, rest)
<1> SUFFICES ASSUME NEW bytes, NEW vals, NEW rest \in Bytes, CountedAs("nodes", bytes, vals)
             PROVE  ReadCounted(bytes \o rest, QuickListNode) = Got(vals, rest)
  OBVIOUS
<1>1. PICK body : ReadsCount("nodes", bytes, vals, rest, body) BY Zenon DEF CountedAs
<1>2. Len(vals) \in Nat BY DEF CountedAs
<1> DEFINE r == ReadLength(bytes \o rest)
           n == Len(vals)
<1>3. r = Got(n, body) BY <1>1 DEF ReadsCount
<1>4. ReadCounted(bytes \o rest, QuickListNode) = Bind(r, LAMBDA m, left : ReadTimes(m, QuickListNode, left))
  BY Zenon DEF ReadCounted
<1> HIDE DEF r
<1>5. r.ok /\ r.val = n /\ r.rest = body BY <1>3, GotHas
<1> DEFINE result == ReadTimes(n, QuickListNode, body)
<1>6. Bind(r, LAMBDA m, left : ReadTimes(m, QuickListNode, left)) = result BY Zenon, <1>5 DEF Bind
<1>7. Times("nodes", n, body, result) BY Zenon, <1>2, TimesNodes
<1> HIDE DEF result, n
<1>8. result = Got(vals, rest) BY Zenon, <1>1, <1>7 DEF ReadsCount, n
<1> QED BY Zenon, <1>4, <1>6, <1>8

UpToFields(f, n, rd) ==
  f = [i \in 0 .. n |->
         IF i = 0 THEN Got(<<>>, rd)
         ELSE Bind(f[i - 1], LAMBDA vals, rest :
                Convert(FieldPair(rest), LAMBDA val : Append(vals, val)))]

LEMMA TimesFields == \A n \in Nat : \A rd : Times("fields", n, rd, ReadTimes(n, FieldPair, rd))
<1> TAKE n \in Nat
<1> TAKE rd
<1> DEFINE f == CHOOSE g : UpToFields(g, n, rd)
<1>1. \A r : Reader("fields", r) = FieldPair(r) BY Zenon DEF Reader, FieldPair
<1>2. \A result : OneMore("fields", result) =
                    Bind(result, LAMBDA vals, rest :
                      Convert(FieldPair(rest), LAMBDA val : Append(vals, val)))
  <2> TAKE result
  <2> DEFINE r == FieldPair(result.rest)
  <2>1. Reader("fields", result.rest) = r BY <1>1
  <2>2. OneMore("fields", result) =
          IF result.ok THEN Convert(r, LAMBDA val : Append(result.val, val)) ELSE Panicked
    <3> HIDE DEF r
    <3> QED BY SMT, <2>1 DEF OneMore, Bind, Convert
  <2> QED BY Zenon, <2>2 DEF Bind
<1>3. \A g : UpTo(g, "fields", n, rd) <=> UpToFields(g, n, rd)
  <2> TAKE g
  <2> DEFINE Old(i) == IF i = 0 THEN Got(<<>>, rd) ELSE OneMore("fields", g[i - 1])
             New(i) == IF i = 0 THEN Got(<<>>, rd)
                       ELSE Bind(g[i - 1], LAMBDA vals, rest :
                              Convert(FieldPair(rest), LAMBDA val : Append(vals, val)))
  <2>1. \A i \in 0 .. n : Old(i) = New(i) BY Zenon, <1>2
  <2>2. [i \in 0 .. n |-> Old(i)] = [i \in 0 .. n |-> New(i)]
    <3> HIDE DEF Old, New
    <3> QED BY <2>1
  <2> QED BY Zenon, <2>2 DEF UpTo, UpToFields
<1>4. UpToFields(f, n, rd)
  <2>1. \E g : UpToFields(g, n, rd) BY Zenon, <1>3, UpToExists
  <2> QED BY Zenon, <2>1
<1>5. ReadTimes(n, FieldPair, rd) = f[n] BY Zenon DEF ReadTimes, UpToFields
<1> HIDE DEF f
<1>6. UpTo(f, "fields", n, rd) BY <1>3, <1>4
<1> QED BY <1>5, <1>6 DEF Times

LEMMA CountedFields ==
  \A bytes, vals, rest :
    CountedAs("fields", bytes, vals) /\ rest \in Bytes
      => ReadCounted(bytes \o rest, FieldPair) = Got(vals, rest)
<1> SUFFICES ASSUME NEW bytes, NEW vals, NEW rest \in Bytes, CountedAs("fields", bytes, vals)
             PROVE  ReadCounted(bytes \o rest, FieldPair) = Got(vals, rest)
  OBVIOUS
<1>1. PICK body : ReadsCount("fields", bytes, vals, rest, body) BY Zenon DEF CountedAs
<1>2. Len(vals) \in Nat BY DEF CountedAs
<1> DEFINE r == ReadLength(bytes \o rest)
           n == Len(vals)
<1>3. r = Got(n, body) BY <1>1 DEF ReadsCount
<1>4. ReadCounted(bytes \o rest, FieldPair) = Bind(r, LAMBDA m, left : ReadTimes(m, FieldPair, left))
  BY Zenon DEF ReadCounted
<1> HIDE DEF r
<1>5. r.ok /\ r.val = n /\ r.rest = body BY <1>3, GotHas
<1> DEFINE result == ReadTimes(n, FieldPair, body)
<1>6. Bind(r, LAMBDA m, left : ReadTimes(m, FieldPair, left)) = result BY Zenon, <1>5 DEF Bind
<1>7. Times("fields", n, body, result) BY Zenon, <1>2, TimesFields
<1> HIDE DEF result, n
<1>8. result = Got(vals, rest) BY Zenon, <1>1, <1>7 DEF ReadsCount, n
<1> QED BY Zenon, <1>4, <1>6, <1>8

UpToScores(f, n, rd) ==
  f = [i \in 0 .. n |->
         IF i = 0 THEN Got(<<>>, rd)
         ELSE Bind(f[i - 1], LAMBDA vals, rest :
                Convert(ScorePair(rest), LAMBDA val : Append(vals, val)))]

LEMMA TimesScores == \A n \in Nat : \A rd : Times("scores", n, rd, ReadTimes(n, ScorePair, rd))
<1> TAKE n \in Nat
<1> TAKE rd
<1> DEFINE f == CHOOSE g : UpToScores(g, n, rd)
<1>1. \A r : Reader("scores", r) = ScorePair(r) BY Zenon DEF Reader, ScorePair
<1>2. \A result : OneMore("scores", result) =
                    Bind(result, LAMBDA vals, rest :
                      Convert(ScorePair(rest), LAMBDA val : Append(vals, val)))
  <2> TAKE result
  <2> DEFINE r == ScorePair(result.rest)
  <2>1. Reader("scores", result.rest) = r BY <1>1
  <2>2. OneMore("scores", result) =
          IF result.ok THEN Convert(r, LAMBDA val : Append(result.val, val)) ELSE Panicked
    <3> HIDE DEF r
    <3> QED BY SMT, <2>1 DEF OneMore, Bind, Convert
  <2> QED BY Zenon, <2>2 DEF Bind
<1>3. \A g : UpTo(g, "scores", n, rd) <=> UpToScores(g, n, rd)
  <2> TAKE g
  <2> DEFINE Old(i) == IF i = 0 THEN Got(<<>>, rd) ELSE OneMore("scores", g[i - 1])
             New(i) == IF i = 0 THEN Got(<<>>, rd)
                       ELSE Bind(g[i - 1], LAMBDA vals, rest :
                              Convert(ScorePair(rest), LAMBDA val : Append(vals, val)))
  <2>1. \A i \in 0 .. n : Old(i) = New(i) BY Zenon, <1>2
  <2>2. [i \in 0 .. n |-> Old(i)] = [i \in 0 .. n |-> New(i)]
    <3> HIDE DEF Old, New
    <3> QED BY <2>1
  <2> QED BY Zenon, <2>2 DEF UpTo, UpToScores
<1>4. UpToScores(f, n, rd)
  <2>1. \E g : UpToScores(g, n, rd) BY Zenon, <1>3, UpToExists
  <2> QED BY Zenon, <2>1
<1>5. ReadTimes(n, ScorePair, rd) = f[n] BY Zenon DEF ReadTimes, UpToScores
<1> HIDE DEF f
<1>6. UpTo(f, "scores", n, rd) BY <1>3, <1>4
<1> QED BY <1>5, <1>6 DEF Times

LEMMA CountedScores ==
  \A bytes, vals, rest :
    CountedAs("scores", bytes, vals) /\ rest \in Bytes
      => ReadCounted(bytes \o rest, ScorePair) = Got(vals, rest)
<1> SUFFICES ASSUME NEW bytes, NEW vals, NEW rest \in Bytes, CountedAs("scores", bytes, vals)
             PROVE  ReadCounted(bytes \o rest, ScorePair) = Got(vals, rest)
  OBVIOUS
<1>1. PICK body : ReadsCount("scores", bytes, vals, rest, body) BY Zenon DEF CountedAs
<1>2. Len(vals) \in Nat BY DEF CountedAs
<1> DEFINE r == ReadLength(bytes \o rest)
           n == Len(vals)
<1>3. r = Got(n, body) BY <1>1 DEF ReadsCount
<1>4. ReadCounted(bytes \o rest, ScorePair) = Bind(r, LAMBDA m, left : ReadTimes(m, ScorePair, left))
  BY Zenon DEF ReadCounted
<1> HIDE DEF r
<1>5. r.ok /\ r.val = n /\ r.rest = body BY <1>3, GotHas
<1> DEFINE result == ReadTimes(n, ScorePair, body)
<1>6. Bind(r, LAMBDA m, left : ReadTimes(m, ScorePair, left)) = result BY Zenon, <1>5 DEF Bind
<1>7. Times("scores", n, body, result) BY Zenon, <1>2, TimesScores
<1> HIDE DEF result, n
<1>8. result = Got(vals, rest) BY Zenon, <1>1, <1>7 DEF ReadsCount, n
<1> QED BY Zenon, <1>4, <1>6, <1>8

UpToDoubles(f, n, rd) ==
  f = [i \in 0 .. n |->
         IF i = 0 THEN Got(<<>>, rd)
         ELSE Bind(f[i - 1], LAMBDA vals, rest :
                Convert(DoublePair(rest), LAMBDA val : Append(vals, val)))]

LEMMA TimesDoubles == \A n \in Nat : \A rd : Times("doubles", n, rd, ReadTimes(n, DoublePair, rd))
<1> TAKE n \in Nat
<1> TAKE rd
<1> DEFINE f == CHOOSE g : UpToDoubles(g, n, rd)
<1>1. \A r : Reader("doubles", r) = DoublePair(r) BY Zenon DEF Reader, DoublePair
<1>2. \A result : OneMore("doubles", result) =
                    Bind(result, LAMBDA vals, rest :
                      Convert(DoublePair(rest), LAMBDA val : Append(vals, val)))
  <2> TAKE result
  <2> DEFINE r == DoublePair(result.rest)
  <2>1. Reader("doubles", result.rest) = r BY <1>1
  <2>2. OneMore("doubles", result) =
          IF result.ok THEN Convert(r, LAMBDA val : Append(result.val, val)) ELSE Panicked
    <3> HIDE DEF r
    <3> QED BY SMT, <2>1 DEF OneMore, Bind, Convert
  <2> QED BY Zenon, <2>2 DEF Bind
<1>3. \A g : UpTo(g, "doubles", n, rd) <=> UpToDoubles(g, n, rd)
  <2> TAKE g
  <2> DEFINE Old(i) == IF i = 0 THEN Got(<<>>, rd) ELSE OneMore("doubles", g[i - 1])
             New(i) == IF i = 0 THEN Got(<<>>, rd)
                       ELSE Bind(g[i - 1], LAMBDA vals, rest :
                              Convert(DoublePair(rest), LAMBDA val : Append(vals, val)))
  <2>1. \A i \in 0 .. n : Old(i) = New(i) BY Zenon, <1>2
  <2>2. [i \in 0 .. n |-> Old(i)] = [i \in 0 .. n |-> New(i)]
    <3> HIDE DEF Old, New
    <3> QED BY <2>1
  <2> QED BY Zenon, <2>2 DEF UpTo, UpToDoubles
<1>4. UpToDoubles(f, n, rd)
  <2>1. \E g : UpToDoubles(g, n, rd) BY Zenon, <1>3, UpToExists
  <2> QED BY Zenon, <2>1
<1>5. ReadTimes(n, DoublePair, rd) = f[n] BY Zenon DEF ReadTimes, UpToDoubles
<1> HIDE DEF f
<1>6. UpTo(f, "doubles", n, rd) BY <1>3, <1>4
<1> QED BY <1>5, <1>6 DEF Times

LEMMA CountedDoubles ==
  \A bytes, vals, rest :
    CountedAs("doubles", bytes, vals) /\ rest \in Bytes
      => ReadCounted(bytes \o rest, DoublePair) = Got(vals, rest)
<1> SUFFICES ASSUME NEW bytes, NEW vals, NEW rest \in Bytes, CountedAs("doubles", bytes, vals)
             PROVE  ReadCounted(bytes \o rest, DoublePair) = Got(vals, rest)
  OBVIOUS
<1>1. PICK body : ReadsCount("doubles", bytes, vals, rest, body) BY Zenon DEF CountedAs
<1>2. Len(vals) \in Nat BY DEF CountedAs
<1> DEFINE r == ReadLength(bytes \o rest)
           n == Len(vals)
<1>3. r = Got(n, body) BY <1>1 DEF ReadsCount
<1>4. ReadCounted(bytes \o rest, DoublePair) = Bind(r, LAMBDA m, left : ReadTimes(m, DoublePair, left))
  BY Zenon DEF ReadCounted
<1> HIDE DEF r
<1>5. r.ok /\ r.val = n /\ r.rest = body BY <1>3, GotHas
<1> DEFINE result == ReadTimes(n, DoublePair, body)
<1>6. Bind(r, LAMBDA m, left : ReadTimes(m, DoublePair, left)) = result BY Zenon, <1>5 DEF Bind
<1>7. Times("doubles", n, body, result) BY Zenon, <1>2, TimesDoubles
<1> HIDE DEF result, n
<1>8. result = Got(vals, rest) BY Zenon, <1>1, <1>7 DEF ReadsCount, n
<1> QED BY Zenon, <1>4, <1>6, <1>8

---------------------------------------------------------------------------
(* Intsets *)

\* The widths of an intset, with the kind of reader and the integers they hold.
IntWidth(k, w, bits) ==
  \/ k = "int2" /\ w = 2 /\ bits = 16
  \/ k = "int4" /\ w = 4 /\ bits = 32
  \/ k = "int8" /\ w = 8 /\ bits = 32

LEMMA IntWidthReads ==
  \A k, w, bits : IntWidth(k, w, bits) =>
    /\ w \in Nat /\ w \in {2, 4, 8} /\ w \in Word /\ bits \in {8, 13, 16, 24, 32}
    /\ HoldsSigned(w, Greatest(bits))
    /\ \A r : Reader(k, r) = IntsetElement(r, w)
<1> SUFFICES ASSUME NEW k, NEW w, NEW bits, IntWidth(k, w, bits)
             PROVE  /\ w \in Nat /\ w \in {2, 4, 8} /\ w \in Word /\ bits \in {8, 13, 16, 24, 32}
                    /\ HoldsSigned(w, Greatest(bits))
                    /\ \A r : Reader(k, r) = IntsetElement(r, w)
  OBVIOUS
<1>1. w \in Nat /\ w \in {2, 4, 8} /\ bits \in {8, 13, 16, 24, 32} BY DEF IntWidth
<1>2. HoldsSigned(w, Greatest(bits)) BY WidthsHoldSigned DEF IntWidth
<1>3. w \in Word
  <2>1. w <= 1000000000 BY SMT DEF IntWidth
  <2> QED BY SMT, <1>1, <2>1, SmallIsWord
<1>4. \A r : Reader("int2", r) = IntsetElement(r, 2) BY Zenon DEF Reader
<1>5. \A r : Reader("int4", r) = IntsetElement(r, 4) BY Zenon DEF Reader
<1>6. \A r : Reader("int8", r) = IntsetElement(r, 8) BY Zenon DEF Reader
<1>7. \A r : Reader(k, r) = IntsetElement(r, w) BY Zenon, <1>4, <1>5, <1>6 DEF IntWidth
<1> QED BY <1>1, <1>2, <1>3, <1>7

IntsetThen(w, size, rest) == ReadTimes(size, LAMBDA r : IntsetElement(r, w), rest)

UpToInts(f, w, n, rd) ==
  f = [i \in 0 .. n |->
         IF i = 0 THEN Got(<<>>, rd)
         ELSE Bind(f[i - 1], LAMBDA vals, rest :
                Convert(IntsetElement(rest, w), LAMBDA val : Append(vals, val)))]

LEMMA TimesInts ==
  \A k, w, bits : IntWidth(k, w, bits) => \A n \in Nat : \A rd : Times(k, n, rd, IntsetThen(w, n, rd))
<1> TAKE k, w, bits
<1> HAVE IntWidth(k, w, bits)
<1> TAKE n \in Nat
<1> TAKE rd
<1> DEFINE f == CHOOSE g : UpToInts(g, w, n, rd)
<1>1. \A r : Reader(k, r) = IntsetElement(r, w) BY IntWidthReads
<1>2. \A result : OneMore(k, result) =
                    Bind(result, LAMBDA vals, rest :
                      Convert(IntsetElement(rest, w), LAMBDA val : Append(vals, val)))
  <2> TAKE result
  <2> DEFINE r == IntsetElement(result.rest, w)
  <2>1. Reader(k, result.rest) = r BY <1>1
  <2>2. OneMore(k, result) =
          IF result.ok THEN Convert(r, LAMBDA val : Append(result.val, val)) ELSE Panicked
    <3> HIDE DEF r
    <3> QED BY SMT, <2>1 DEF OneMore, Bind, Convert
  <2> QED BY Zenon, <2>2 DEF Bind
<1>3. \A g : UpTo(g, k, n, rd) <=> UpToInts(g, w, n, rd)
  <2> TAKE g
  <2> DEFINE Old(i) == IF i = 0 THEN Got(<<>>, rd) ELSE OneMore(k, g[i - 1])
             New(i) == IF i = 0 THEN Got(<<>>, rd)
                       ELSE Bind(g[i - 1], LAMBDA vals, rest :
                              Convert(IntsetElement(rest, w), LAMBDA val : Append(vals, val)))
  <2>1. \A i \in 0 .. n : Old(i) = New(i) BY Zenon, <1>2
  <2>2. [i \in 0 .. n |-> Old(i)] = [i \in 0 .. n |-> New(i)]
    <3> HIDE DEF Old, New
    <3> QED BY <2>1
  <2> QED BY Zenon, <2>2 DEF UpTo, UpToInts
<1>4. UpToInts(f, w, n, rd)
  <2>1. \E g : UpToInts(g, w, n, rd) BY Zenon, <1>3, UpToExists
  <2> QED BY Zenon, <2>1
<1>5. IntsetThen(w, n, rd) = f[n] BY Zenon DEF IntsetThen, ReadTimes, UpToInts
<1> HIDE DEF f
<1>6. UpTo(f, k, n, rd) BY <1>3, <1>4
<1> QED BY <1>5, <1>6 DEF Times

\* An element is read back from a width that holds it.
LEMMA IntElementReads ==
  \A k, w, bits : \A s \in Bytes :
    IntWidth(k, w, bits) /\ IsInt(s, bits) => /\ ReadsAs(k, IntBytes(ParseInt(s), w), s)
                                              /\ Len(IntBytes(ParseInt(s), w)) = w
<1> TAKE k, w, bits
<1> TAKE s \in Bytes
<1> HAVE IntWidth(k, w, bits) /\ IsInt(s, bits)
<1>1. /\ w \in Nat /\ w \in {2, 4, 8} /\ bits \in {8, 13, 16, 24, 32}
      /\ HoldsSigned(w, Greatest(bits))
  BY IntWidthReads
<1>2. \A r : Reader(k, r) = IntsetElement(r, w) BY IntWidthReads
<1>3. PICK v : v = ParseInt(s) /\ IsIntOf(s, v, Greatest(bits)) BY <1>1, IntIsNumber
<1>4. PICK int : int = IntBytes(v, w) OBVIOUS
<1>5. int \in Bytes /\ Len(int) = w BY <1>1, <1>3, <1>4, IntBytesType DEF IsIntOf
<1>6. Signed(int) = v /\ FormatInt(v) = s BY <1>1, <1>3, <1>4 DEF IsIntOf, HoldsSigned
<1>7. ASSUME NEW rest \in Bytes PROVE IntsetElement(int \o rest, w) = Got(s, rest)
  <2> DEFINE r == ReadBytes(int \o rest, w)
  <2>1. r = Got(int, rest)
    <3>1. int \o rest \in Bytes BY <1>5, BytesConcat
    <3> QED BY <1>5, BytesRead DEF Begins
  <2> HIDE DEF r
  <2>2. r.ok /\ r.val = int /\ r.rest = rest BY <2>1, GotHas
  <2>3. IntsetElement(int \o rest, w) = Convert(r, LAMBDA bytes : FormatInt(Signed(bytes)))
    BY Zenon, <1>1 DEF IntsetElement, Convert, Bind, r
  <2>4. Convert(r, LAMBDA bytes : FormatInt(Signed(bytes))) = Got(FormatInt(Signed(int)), rest)
    BY <2>2 DEF Convert, Bind
  <2> QED BY <1>6, <2>3, <2>4
<1>8. ReadsAs(k, int, s) BY Zenon, <1>2, <1>5, <1>7 DEF ReadsAs
<1> QED BY <1>3, <1>4, <1>5, <1>8

---------------------------------------------------------------------------

LEMMA EightEach ==
  \A pieces \in Seq(Bytes) :
    (\A i \in 1 .. Len(pieces) : Len(pieces[i]) <= 8)
      => FlattenSeq(pieces) \in Bytes /\ Len(FlattenSeq(pieces)) <= 8 * Len(pieces)
<1> DEFINE Small(pieces) == \A i \in 1 .. Len(pieces) : Len(pieces[i]) <= 8
           Fit(pieces) == FlattenSeq(pieces) \in Bytes /\ Len(FlattenSeq(pieces)) <= 8 * Len(pieces)
           T == {pieces \in Seq(Bytes) : Small(pieces) => Fit(pieces)}
<1>1. <<>> \in T
  <2>1. <<>> \in Bytes /\ Len(<<>>) = 0 /\ 0 <= 8 * 0 BY DEF Bytes
  <2>2. Fit(<<>>) BY <2>1, FlattenOfNone
  <2> HIDE DEF Fit, Small
  <2> QED BY <2>2
<1>2. ASSUME NEW pieces \in T, NEW piece \in Bytes PROVE Append(pieces, piece) \in T
  <2> DEFINE more == Append(pieces, piece)
  <2>1. pieces \in Seq(Bytes) /\ Len(pieces) \in Nat OBVIOUS
  <2>2. /\ more \in Seq(Bytes) /\ Len(more) = Len(pieces) + 1 /\ more[Len(pieces) + 1] = piece
        /\ \A i \in 1 .. Len(pieces) : more[i] = pieces[i]
    BY <2>1
  <2>3. FlattenSeq(more) = FlattenSeq(pieces) \o piece BY <2>1, FlattenAppends DEF Bytes
  <2> HIDE DEF more
  <2>4. ASSUME Small(more) PROVE Fit(more)
    <3>1. Small(pieces)
      <4>1. ASSUME NEW i \in 1 .. Len(pieces) PROVE Len(pieces[i]) <= 8
        <5>1. i \in 1 .. Len(more) BY <2>1, <2>2
        <5> QED BY <2>2, <2>4, <5>1
      <4> QED BY <4>1
    <3>2. Len(pieces) + 1 \in 1 .. Len(more) BY <2>1, <2>2
    <3>3. Len(piece) <= 8 /\ Len(piece) \in Nat BY <2>2, <2>4, <3>2 DEF Bytes
    <3>4. PICK all \in Bytes : all = FlattenSeq(pieces) /\ Len(all) <= 8 * Len(pieces) BY <3>1
    <3>5. Len(all) \in Nat BY DEF Bytes
    <3>6. all \o piece \in Bytes /\ Len(all \o piece) = Len(all) + Len(piece) BY BytesConcat
    <3>7. Len(all) + Len(piece) <= 8 * (Len(pieces) + 1) BY <2>1, <3>3, <3>4, <3>5
    <3> QED BY <2>2, <2>3, <3>4, <3>6, <3>7
  <2> HIDE DEF Fit, Small
  <2>5. more \in T BY <2>2, <2>4
  <2> QED BY <2>5 DEF more
<1>3. T = Seq(Bytes)
  <2> HIDE DEF T
  <2>1. T \in SUBSET Seq(Bytes) BY DEF T
  <2> QED BY <1>1, <1>2, <2>1, SequenceInduction
<1> QED BY <1>3

---------------------------------------------------------------------------

IntsetSized(w, rest1) == Bind(ReadUint(rest1, 4), LAMBDA size, rest : IntsetThen(w, size, rest))

LEMMA IntsetUnfolds == \A rd : IntsetBody(rd) = Bind(ReadUint(rd, 4), IntsetSized)
  BY Zenon DEF IntsetBody, IntsetSized, IntsetThen

\* Four bytes that tell n.
TellsFour(bytes, n) == bytes \in Bytes /\ Len(bytes) = 4 /\ LittleEndian(bytes) = n

LEMMA FourTell == \A n \in Word : n \in Nat /\ TellsFour(IntBytes(n, 4), n)
<1> TAKE n \in Word
<1>1. n \in Nat
  <2>1. PICK g \in Nat : g = 2 * Greatest(32) + 1 BY DEF Greatest
  <2> QED BY <2>1 DEF Word
<1>2. n \in Int BY <1>1
<1>3. PICK w \in Nat : w = 4 OBVIOUS
<1>4. HoldsUnsigned(4, 2 * Greatest(32) + 1) BY WidthsHold
<1>5. LittleEndian(IntBytes(n, 4)) = n BY <1>4 DEF HoldsUnsigned, Word
<1>6. IntBytes(n, w) \in Bytes /\ Len(IntBytes(n, w)) = w BY <1>2, <1>3, IntBytesType
<1> QED BY <1>1, <1>3, <1>5, <1>6 DEF TellsFour

LEMMA FourRead ==
  \A bytes, n, rest : TellsFour(bytes, n) /\ rest \in Bytes => ReadUint(bytes \o rest, 4) = Got(n, rest)
<1> SUFFICES ASSUME NEW bytes, NEW n, NEW rest \in Bytes, TellsFour(bytes, n)
             PROVE  ReadUint(bytes \o rest, 4) = Got(n, rest)
  OBVIOUS
<1>1. bytes \in Bytes /\ Len(bytes) = 4 /\ LittleEndian(bytes) = n BY DEF TellsFour
<1>2. Begins(bytes \o rest, bytes, 4, rest) BY <1>1 DEF Begins
<1>3. 4 \in Nat OBVIOUS
<1> QED BY Zenon, <1>1, <1>2, <1>3, UintRead

\* The body of an intset: its width, its count and its integers.
IntsetParts(body, k, w, bits, a, b, all, list) ==
  /\ IntWidth(k, w, bits) /\ TellsFour(a, w) /\ TellsFour(b, Len(list)) /\ Len(list) \in Nat
  /\ ReadsAll(k, all, list)
  /\ body = a \o (b \o all)

LEMMA IntsetBodyReads ==
  \A body, k, w, bits, a, b, all, list :
    IntsetParts(body, k, w, bits, a, b, all, list) => IntsetBody(body) = Got(list, <<>>)
<1> SUFFICES ASSUME NEW body, NEW k, NEW w, NEW bits, NEW a, NEW b, NEW all, NEW list,
                    IntsetParts(body, k, w, bits, a, b, all, list)
             PROVE  IntsetBody(body) = Got(list, <<>>)
  OBVIOUS
<1>1. /\ IntWidth(k, w, bits) /\ TellsFour(a, w) /\ TellsFour(b, Len(list)) /\ Len(list) \in Nat
      /\ ReadsAll(k, all, list)
      /\ body = a \o (b \o all)
  BY DEF IntsetParts
<1>2. all \in Bytes /\ b \in Bytes BY <1>1 DEF ReadsAll, TellsFour
<1>3. b \o all \in Bytes BY <1>2, BytesConcat
<1> DEFINE n == Len(list)
           r1 == ReadUint(body, 4)
           r2 == ReadUint(b \o all, 4)
<1>4. r1 = Got(w, b \o all) BY <1>1, <1>3, FourRead
<1>5. r2 = Got(n, all) BY <1>1, <1>2, FourRead
<1>6. IntsetSized(w, b \o all) = Bind(r2, LAMBDA size, rest : IntsetThen(w, size, rest))
  BY Zenon DEF IntsetSized
<1>7. IntsetBody(body) = Bind(r1, IntsetSized) BY IntsetUnfolds
<1> HIDE DEF r1, r2
<1>8. r1.ok /\ r1.val = w /\ r1.rest = b \o all BY <1>4, GotHas
<1>9. r2.ok /\ r2.val = n /\ r2.rest = all BY <1>5, GotHas
<1>10. Bind(r1, IntsetSized) = IntsetSized(w, b \o all) BY Zenon, <1>8 DEF Bind
<1>11. IntsetBody(body) = IntsetThen(w, n, all) BY Zenon, <1>6, <1>7, <1>9, <1>10 DEF Bind
<1>12. PICK f : UpTo(f, k, n, all) /\ IntsetThen(w, n, all) = f[n] BY <1>1, TimesInts DEF Times
<1>13. f[n] = Got(list, <<>>)
  <2>1. all \o <<>> = all /\ <<>> \in Bytes BY <1>2 DEF Bytes
  <2>2. UpTo(f, k, n, all \o <<>>) BY <1>12, <2>1
  <2>3. n <= n BY <1>1
  <2> QED BY Zenon, <1>1, <2>1, <2>2, <2>3 DEF ReadsAll
<1> QED BY <1>11, <1>12, <1>13

LEMMA IntsetInside ==
  \A body \in Strings, steps \in Nat, rest \in Bytes :
    ReadIntset(Blob(body, steps) \o rest) = Outside(IntsetBody(body), rest)
<1> TAKE body \in Strings, steps \in Nat, rest \in Bytes
<1> DEFINE rd == Blob(body, steps) \o rest
           r == ReadString(rd)
<1>1. r = Got(body, rest) BY InsideReads DEF Strings
<1>2. ReadIntset(rd) = Bind(r, LAMBDA bytes, left : Outside(IntsetBody(bytes), left))
  BY Zenon DEF ReadIntset, Inside, Outside
<1> HIDE DEF r, rd
<1>3. r.ok /\ r.val = body /\ r.rest = rest BY <1>1 DEF Got
<1>4. Bind(r, LAMBDA bytes, left : Outside(IntsetBody(bytes), left)) = Outside(IntsetBody(body), rest)
  BY Zenon, <1>3 DEF Bind
<1> QED BY <1>2, <1>4 DEF rd

---------------------------------------------------------------------------

AllFit(list, bits) == \A i \in DOMAIN list : IsInt(list[i], bits)

\* The widths that hold every integer of the list.
WidthsFor(list) == {w \in {2, 4, 8} : \E k, bits : IntWidth(k, w, bits) /\ AllFit(list, bits)}

WidthOf(list, steps) == Choice(When(AllFit(list, 16), 2) \o When(AllFit(list, 32), 4) \o <<8>>, steps)

LEMMA WidthHolds ==
  \A list, steps : steps \in Nat /\ AllFit(list, 32) => WidthOf(list, steps) \in WidthsFor(list)
<1> SUFFICES ASSUME NEW list, NEW steps \in Nat, AllFit(list, 32)
             PROVE  WidthOf(list, steps) \in WidthsFor(list)
  OBVIOUS
<1> DEFINE S == WidthsFor(list)
           a == When(AllFit(list, 16), 2)
           b == When(AllFit(list, 32), 4)
<1>1. IntWidth("int2", 2, 16) /\ IntWidth("int4", 4, 32) /\ IntWidth("int8", 8, 32) BY DEF IntWidth
<1>2. AllFit(list, 16) => 2 \in S BY <1>1 DEF WidthsFor
<1>3. 4 \in S /\ 8 \in S BY <1>1 DEF WidthsFor
<1>4. Optional(a, S) BY Zenon, <1>2 DEF When, Optional
<1>5. Optional(b, S) BY Zenon, <1>3 DEF When, Optional
<1> HIDE DEF S, a, b
<1>6. a \in Seq(S) /\ b \in Seq(S) BY <1>4, <1>5, OptionalType
<1>7. (a \o b) \o <<8>> \in Seq(S) /\ (a \o b) \o <<8>> # <<>> BY <1>3, <1>6
<1>8. Choice((a \o b) \o <<8>>, steps) \in S BY Zenon, <1>7, ChoiceType
<1> QED BY Zenon, <1>8 DEF WidthOf, S, a, b

IntsetOf(list, steps) ==
  IntBytes(WidthOf(list, steps), 4) \o IntBytes(Len(list), 4)
    \o FlattenSeq([i \in DOMAIN list |-> IntBytes(ParseInt(list[i]), WidthOf(list, steps))])

LEMMA IntsetIsBlob == \A list, steps : IntsetBytes(list, steps) = Blob(IntsetOf(list, steps), steps)
  BY Zenon DEF IntsetBytes, IntsetOf, WidthOf, AllFit

\* Integers of 32 bits that the header of an intset can count.
IsIntset(list) == list \in Seq(Bytes) /\ AllFit(list, 32) /\ Len(list) <= 1000000

\* ReadIntset: the integers of a set are read back, in their order and not a byte
\* more of the file, from every width that holds them.
THEOREM IntsetsLoad ==
  \A list : \A steps \in Nat, rest \in Bytes :
    IsIntset(list) => ReadIntset(IntsetBytes(list, steps) \o rest) = Got(list, rest)
<1> TAKE list
<1> TAKE steps \in Nat, rest \in Bytes
<1> HAVE IsIntset(list)
<1>18. list \in Seq(Bytes) /\ AllFit(list, 32) BY DEF IsIntset
<1>1. PICK w : w = WidthOf(list, steps) OBVIOUS
<1>2. PICK k, bits : IntWidth(k, w, bits) /\ AllFit(list, bits) BY <1>1, <1>18, WidthHolds DEF WidthsFor
<1>3. w \in Nat /\ w \in {2, 4, 8} /\ w \in Word BY <1>2, IntWidthReads
<1>4. PICK n \in Nat : n = Len(list) /\ n <= 1000000
  <2>1. Len(list) \in Nat BY <1>18
  <2>2. Len(list) <= 1000000 BY SMT DEF IsIntset
  <2> QED BY SMT, <2>1, <2>2
<1> DEFINE pieces == [i \in DOMAIN list |-> IntBytes(ParseInt(list[i]), w)]
<1>5. ASSUME NEW i \in DOMAIN list
      PROVE  /\ ReadsAs(k, IntBytes(ParseInt(list[i]), w), list[i])
             /\ Len(IntBytes(ParseInt(list[i]), w)) = w
  BY <1>2, <1>18, IntElementReads DEF AllFit
<1>6. /\ pieces \in Seq(Bytes) /\ Len(pieces) = n
      /\ \A i \in 1 .. n : ReadsAs(k, pieces[i], list[i]) /\ Len(pieces[i]) = w
  BY <1>4, <1>5, <1>18 DEF ReadsAs
<1> HIDE DEF pieces
<1>7. Laid(k, pieces, list) BY <1>4, <1>6 DEF Laid
<1>8. PICK all : all = FlattenSeq(pieces) /\ ReadsAll(k, all, list) BY <1>7, <1>18, PiecesRead
<1>9. all \in Bytes /\ Len(all) <= 8 * n
  <2>1. \A i \in 1 .. Len(pieces) : Len(pieces[i]) <= 8 BY <1>3, <1>6
  <2> QED BY <1>6, <1>8, <2>1, EightEach
<1>10. PICK a : a = IntBytes(w, 4) /\ TellsFour(a, w) BY <1>3, FourTell
<1>11. n \in Word
  <2>1. n <= 1000000000 BY SMT, <1>4
  <2> QED BY SMT, <2>1, SmallIsWord
<1>12. PICK b : b = IntBytes(n, 4) /\ TellsFour(b, n) BY <1>11, FourTell
<1>13. a \in Bytes /\ Len(a) = 4 /\ b \in Bytes /\ Len(b) = 4 BY <1>10, <1>12 DEF TellsFour
<1> DEFINE body == a \o (b \o all)
<1>19. n = Len(list) BY <1>4
<1>14. IntsetOf(list, steps) = body
  <2>1. IntsetOf(list, steps) = (a \o b) \o all
    BY Zenon, <1>1, <1>8, <1>10, <1>12, <1>19 DEF IntsetOf, pieces
  <2>2. (a \o b) \o all = a \o (b \o all) BY <1>9, <1>13, BytesAssociate
  <2> QED BY <2>1, <2>2
<1>15. body \in Strings
  <2>1. b \o all \in Bytes /\ Len(b \o all) = Len(b) + Len(all) BY <1>9, <1>13, BytesConcat
  <2>2. body \in Bytes /\ Len(body) = Len(a) + Len(b \o all) BY <1>13, <2>1, BytesConcat
  <2> HIDE DEF body
  <2>3. Len(all) \in Nat BY <1>9 DEF Bytes
  <2>4. Len(body) \in Nat /\ Len(body) <= 1000000000 BY SMT, <1>4, <1>9, <1>13, <2>1, <2>2, <2>3
  <2> QED BY SMT, <2>2, <2>4, SmallIsWord DEF Strings
<1>16. IntsetBody(body) = Got(list, <<>>)
  <2>1. IntsetParts(body, k, w, bits, a, b, all, list)
    BY <1>2, <1>4, <1>8, <1>10, <1>12 DEF IntsetParts
  <2> HIDE DEF body
  <2> QED BY <2>1, IntsetBodyReads
<1> HIDE DEF body
<1>17. IntsetBytes(list, steps) = Blob(body, steps) BY <1>14, IntsetIsBlob
<1> QED BY <1>15, <1>16, <1>17, IntsetInside, OutsideGot

---------------------------------------------------------------------------
(* ParseObject and the bytes of a value, type by type *)

readSet(rd) == ReadCounted(rd, ReadString)

Parsed(rd, typeByte) ==
  CASE typeByte = 0  -> ReadString(rd)
    [] typeByte = 1  -> readList(rd)
    [] typeByte = 10 -> ReadZipList(rd)
    [] typeByte = 14 -> readQuickList(rd)
    [] typeByte = 18 -> readQuickList2(rd)
    [] typeByte = 2  -> readSet(rd)
    [] typeByte = 11 -> ReadIntset(rd)
    [] typeByte = 3  -> readZset(rd)
    [] typeByte = 5  -> readZset2(rd)
    [] typeByte = 12 -> readZsetZiplist(rd)
    [] typeByte = 17 -> readZsetListpack(rd)
    [] typeByte = 4  -> readHash(rd)
    [] typeByte = 13 -> readHashZiplist(rd)
    [] typeByte = 16 -> readHashListpack(rd)
    [] typeByte \in {15, 19} -> readStream(rd, typeByte)
    [] typeByte = 7  -> ModuleLoad(rd)
    [] OTHER         -> Panicked

LEMMA ParsedIs == \A rd, typeByte : ParseObject(rd, typeByte) = Parsed(rd, typeByte)
  BY Zenon DEF ParseObject, Parsed, readSet

LEMMA ParseObjectOf ==
  \A rd :
    /\ ParseObject(rd, 0) = ReadString(rd)
    /\ ParseObject(rd, 1) = readList(rd)
    /\ ParseObject(rd, 2) = readSet(rd)
    /\ ParseObject(rd, 3) = readZset(rd)
    /\ ParseObject(rd, 4) = readHash(rd)
    /\ ParseObject(rd, 5) = readZset2(rd)
    /\ ParseObject(rd, 7) = ModuleLoad(rd)
    /\ ParseObject(rd, 10) = ReadZipList(rd)
    /\ ParseObject(rd, 11) = ReadIntset(rd)
    /\ ParseObject(rd, 12) = readZsetZiplist(rd)
    /\ ParseObject(rd, 13) = readHashZiplist(rd)
    /\ ParseObject(rd, 14) = readQuickList(rd)
    /\ ParseObject(rd, 16) = readHashListpack(rd)
    /\ ParseObject(rd, 17) = readZsetListpack(rd)
    /\ ParseObject(rd, 18) = readQuickList2(rd)
  BY SMT, ParsedIs DEF Parsed

---------------------------------------------------------------------------

StringPieces(list, steps) == [i \in DOMAIN list |-> StringBytes(list[i], steps)]

ZipPieces(nodes, steps) == [i \in DOMAIN nodes |-> ZipListBytes(nodes[i], steps)]

NodePiece(node, steps) ==
  IF Len(node) = 1 THEN <<1>> \o StringBytes(node[1], steps) ELSE <<2>> \o ListpackBytes(node, steps)

NodePieces(nodes, steps) == [i \in DOMAIN nodes |-> NodePiece(nodes[i], steps)]

FieldPieces(pairs, steps) ==
  [i \in DOMAIN pairs |-> StringBytes(pairs[i][1], steps) \o StringBytes(pairs[i][2], steps)]

ScorePieces(pairs, steps) ==
  [i \in DOMAIN pairs |-> StringBytes(pairs[i][1], steps) \o FloatBytes(pairs[i][2])]

DoublePieces(pairs, steps) ==
  [i \in DOMAIN pairs |-> StringBytes(pairs[i][1], steps) \o DoubleBytes(ParseInt(pairs[i][2]))]

CountedOf(list, pieces, steps) == LengthBytes(Len(list), steps) \o FlattenSeq(pieces)

FirstString(list, steps) == StringBytes(list[1], steps)
ListOf(list, steps) == CountedOf(list, StringPieces(list, steps), steps)
ZipsOf(nodes, steps) == CountedOf(nodes, ZipPieces(nodes, steps), steps)
NodesOf(nodes, steps) == CountedOf(nodes, NodePieces(nodes, steps), steps)

Stored(typeByte, list, steps) ==
  CASE typeByte = 0 -> FirstString(list, steps)
    [] typeByte \in {1, 2} -> ListOf(list, steps)
    [] typeByte = 14 -> ZipsOf(Chunks(list, 2), steps)
    [] typeByte = 18 -> NodesOf(Chunks(list, 2), steps)
    [] typeByte \in {10, 12, 13} -> ZipListBytes(list, steps)
    [] typeByte \in {16, 17} -> ListpackBytes(list, steps)
    [] typeByte = 11 -> IntsetBytes(list, steps)
    [] typeByte = 3 -> CountedOf(Pairs(list), ScorePieces(Pairs(list), steps), steps)
    [] typeByte = 5 -> CountedOf(Pairs(list), DoublePieces(Pairs(list), steps), steps)
    [] typeByte = 4 -> CountedOf(Pairs(list), FieldPieces(Pairs(list), steps), steps)

LEMMA StoredIs == \A typeByte, list, steps : ValueBytes(typeByte, list, steps) = Stored(typeByte, list, steps)
  BY ZenonT(300) DEF ValueBytes, Stored, FirstString, ListOf, ZipsOf, NodesOf, CountedOf, Counted, StringPieces,
               ZipPieces, NodePieces, NodePiece, ScorePieces, DoublePieces, FieldPieces

LEMMA ValueBytesOf ==
  \A list, steps :
    /\ ValueBytes(0, list, steps) = FirstString(list, steps)
    /\ ValueBytes(1, list, steps) = ListOf(list, steps)
    /\ ValueBytes(2, list, steps) = ListOf(list, steps)
    /\ ValueBytes(14, list, steps) = ZipsOf(Chunks(list, 2), steps)
    /\ ValueBytes(18, list, steps) = NodesOf(Chunks(list, 2), steps)
    /\ ValueBytes(10, list, steps) = ZipListBytes(list, steps)
    /\ ValueBytes(12, list, steps) = ZipListBytes(list, steps)
    /\ ValueBytes(13, list, steps) = ZipListBytes(list, steps)
    /\ ValueBytes(16, list, steps) = ListpackBytes(list, steps)
    /\ ValueBytes(17, list, steps) = ListpackBytes(list, steps)
    /\ ValueBytes(11, list, steps) = IntsetBytes(list, steps)
    /\ ValueBytes(3, list, steps) = CountedOf(Pairs(list), ScorePieces(Pairs(list), steps), steps)
    /\ ValueBytes(5, list, steps) = CountedOf(Pairs(list), DoublePieces(Pairs(list), steps), steps)
    /\ ValueBytes(4, list, steps) = CountedOf(Pairs(list), FieldPieces(Pairs(list), steps), steps)
  BY SMT, StoredIs DEF Stored

Scored(pairs) == [i \in DOMAIN pairs |-> <<pairs[i][1], Float(ParseInt(pairs[i][2]))>>]

\* What the loader is to make of it, type by type.
Meant(typeByte, list) ==
  CASE typeByte = 0 -> list[1]
    [] typeByte \in {12, 17} -> Pairs(list)
    [] typeByte \in {3, 5} -> Scored(Pairs(list))
    [] typeByte \in {4, 13, 16} -> Assigned(Pairs(list))
    [] OTHER -> list

LEMMA MeantIs == \A typeByte, list : ValueOf(typeByte, list) = Meant(typeByte, list)
  BY Zenon DEF ValueOf, Meant, Scored

LEMMA ValueOfIs ==
  \A list :
    /\ ValueOf(0, list) = list[1]
    /\ ValueOf(12, list) = Pairs(list) /\ ValueOf(17, list) = Pairs(list)
    /\ ValueOf(3, list) = Scored(Pairs(list)) /\ ValueOf(5, list) = Scored(Pairs(list))
    /\ ValueOf(4, list) = Assigned(Pairs(list)) /\ ValueOf(13, list) = Assigned(Pairs(list))
    /\ ValueOf(16, list) = Assigned(Pairs(list))
    /\ ValueOf(1, list) = list /\ ValueOf(2, list) = list /\ ValueOf(10, list) = list
    /\ ValueOf(11, list) = list /\ ValueOf(14, list) = list /\ ValueOf(18, list) = list
  BY SMT, MeantIs DEF Meant

---------------------------------------------------------------------------
(* Values of strings that are no integers beyond 32 bits *)

Storable == {s \in Moderate : IsNumber(s) => Fits(ParseInt(s), 32)}

Stocked(list) == list \in Seq(Storable) /\ Len(list) <= 1000

LEMMA StorableIs == \A s \in Storable : s \in Moderate /\ s \in Strings /\ s \in Bytes
<1> TAKE s \in Storable
<1>1. s \in Moderate BY DEF Storable
<1>2. s \in Bytes BY <1>1 DEF Moderate
<1> QED BY <1>1, <1>2, ModerateFits

LEMMA StockedIs ==
  \A list : Stocked(list) =>
    /\ list \in Seq(Storable) /\ list \in Seq(Moderate) /\ list \in Seq(Strings) /\ list \in Seq(Bytes)
    /\ Len(list) \in Nat /\ Len(list) \in Word
<1> SUFFICES ASSUME NEW list, Stocked(list)
             PROVE  /\ list \in Seq(Storable) /\ list \in Seq(Moderate)
                    /\ list \in Seq(Strings) /\ list \in Seq(Bytes)
                    /\ Len(list) \in Nat /\ Len(list) \in Word
  OBVIOUS
<1>1. list \in Seq(Storable) /\ Len(list) \in Nat BY DEF Stocked
<1>2. list \in Seq(Moderate) /\ list \in Seq(Strings) /\ list \in Seq(Bytes) BY <1>1, StorableIs
<1>3. Len(list) <= 1000000000 BY SMT, <1>1 DEF Stocked
<1>4. Len(list) \in Word BY SMT, <1>1, <1>3, SmallIsWord
<1> QED BY <1>1, <1>2, <1>4

\* The value that is stored as the type the byte names is read back.
Restored(typeByte, list, steps, rest) ==
  ParseObject(ValueBytes(typeByte, list, steps) \o rest, typeByte) = Got(ValueOf(typeByte, list), rest)

Restores(typeByte, list) == \A steps \in Nat, rest \in Bytes : Restored(typeByte, list, steps, rest)

\* ParseObject, type 0: a string
LEMMA StringRestores == \A list : Stocked(list) /\ Len(list) = 1 => Restores(0, list)
<1> TAKE list
<1> HAVE Stocked(list) /\ Len(list) = 1
<1> SUFFICES ASSUME NEW steps \in Nat, NEW rest \in Bytes PROVE Restored(0, list, steps, rest)
  BY DEF Restores
<1>1. list[1] \in Strings
  <2>1. list \in Seq(Strings) BY StockedIs
  <2> QED BY <2>1
<1>2. PICK s \in Strings : s = list[1] BY <1>1
<1>3. ReadString(StringBytes(s, steps) \o rest) = Got(s, rest) BY StringsLoad DEF IsString
<1>4. ValueBytes(0, list, steps) = StringBytes(s, steps) BY <1>2, ValueBytesOf DEF FirstString
<1>5. ValueOf(0, list) = s BY <1>2, ValueOfIs
<1>6. \A rd : ParseObject(rd, 0) = ReadString(rd) BY ParseObjectOf
<1> QED BY Zenon, <1>3, <1>4, <1>5, <1>6 DEF Restored

LEMMA CountedOfPieces ==
  \A k, S, pieces : \A vals \in Seq(S), steps \in Nat :
    Laid(k, pieces, vals) /\ Len(vals) \in Word => CountedAs(k, CountedOf(vals, pieces, steps), vals)
<1> TAKE k, S, pieces
<1> TAKE vals \in Seq(S), steps \in Nat
<1> HAVE Laid(k, pieces, vals) /\ Len(vals) \in Word
<1>1. Len(vals) = Len(pieces) BY DEF Laid
<1>2. CountedOf(vals, pieces, steps) = CountedPieces(pieces, steps) BY Zenon, <1>1 DEF CountedOf, CountedPieces
<1> QED BY Zenon, <1>2, PiecesCounted

LEMMA StringsReadAs ==
  \A s \in Strings, steps \in Nat : ReadsAs("string", StringBytes(s, steps), s)
<1> TAKE s \in Strings, steps \in Nat
<1>1. \A r : Reader("string", r) = ReadString(r) BY Zenon DEF Reader
<1>2. IsString(StringBytes(s, steps), s) BY StringsLoad
<1> QED BY Zenon, <1>1, <1>2 DEF ReadsAs, IsString

\* readList and readSet: a count and as many strings
LEMMA ListReads ==
  \A list : Stocked(list) => \A steps \in Nat, rest \in Bytes :
    ReadCounted(ListOf(list, steps) \o rest, ReadString) = Got(list, rest)
<1> TAKE list
<1> HAVE Stocked(list)
<1> TAKE steps \in Nat, rest \in Bytes
<1> DEFINE pieces == StringPieces(list, steps)
<1>1. list \in Seq(Strings) /\ Len(list) \in Nat /\ Len(list) \in Word BY StockedIs
<1>2. ASSUME NEW i \in DOMAIN list PROVE ReadsAs("string", StringBytes(list[i], steps), list[i])
  BY <1>1, StringsReadAs
<1>3. /\ pieces \in Seq(Bytes) /\ Len(pieces) = Len(list)
      /\ \A i \in 1 .. Len(list) : ReadsAs("string", pieces[i], list[i])
  BY <1>1, <1>2 DEF StringPieces, ReadsAs
<1> HIDE DEF pieces
<1>4. Laid("string", pieces, list) BY <1>3 DEF Laid
<1>5. CountedAs("string", CountedOf(list, pieces, steps), list) BY <1>1, <1>4, CountedOfPieces
<1> QED BY Zenon, <1>5, CountedStrings DEF ListOf, pieces

\* ParseObject, types 1 and 2: a list, a set
LEMMA ListRestores == \A list : Stocked(list) => Restores(1, list) /\ Restores(2, list)
<1> TAKE list
<1> HAVE Stocked(list)
<1>1. ASSUME NEW steps \in Nat, NEW rest \in Bytes
      PROVE  Restored(1, list, steps, rest) /\ Restored(2, list, steps, rest)
  <2>1. \A rd : ParseObject(rd, 1) = ReadCounted(rd, ReadString)
    BY Zenon, ParseObjectOf DEF readList
  <2>2. \A rd : ParseObject(rd, 2) = ReadCounted(rd, ReadString)
    BY Zenon, ParseObjectOf DEF readSet
  <2>3. ValueBytes(1, list, steps) = ListOf(list, steps) /\ ValueBytes(2, list, steps) = ListOf(list, steps)
    BY ValueBytesOf
  <2>4. ValueOf(1, list) = list /\ ValueOf(2, list) = list BY ValueOfIs
  <2> QED BY Zenon, <2>1, <2>2, <2>3, <2>4, ListReads DEF Restored
<1> QED BY <1>1 DEF Restores

---------------------------------------------------------------------------
(* Ziplists, listpacks and intsets *)

LEMMA ConvertGot ==
  \A vals, rest :
    /\ Convert(Got(vals, rest), Assigned) = Got(Assigned(vals), rest)
    /\ Convert(Got(vals, rest), FlattenSeq) = Got(FlattenSeq(vals), rest)
<1> TAKE vals, rest
<1> DEFINE r == Got(vals, rest)
<1>1. r.ok /\ r.val = vals /\ r.rest = rest BY GotHas
<1> HIDE DEF r
<1>2. Convert(r, Assigned) = Got(Assigned(vals), rest) BY Zenon, <1>1 DEF Convert, Bind
<1>3. Convert(r, FlattenSeq) = Got(FlattenSeq(vals), rest) BY Zenon, <1>1 DEF Convert, Bind
<1> QED BY <1>2, <1>3 DEF r

LEMMA ConvertPanic == Convert(Panicked, Assigned) = Panicked BY Zenon, PanicIsNot DEF Convert, Bind

\* Go panics when the list has an odd number of elements.
PairedOf(list, rest) == IF Len(list) % 2 = 0 THEN Got(Pairs(list), rest) ELSE Panicked

LEMMA PairedGot == \A list, rest : Paired(Got(list, rest)) = PairedOf(list, rest)
<1> TAKE list, rest
<1> DEFINE r == Got(list, rest)
<1>1. r.ok /\ r.val = list /\ r.rest = rest BY GotHas
<1> HIDE DEF r
<1>2. Paired(r) = PairedOf(list, rest) BY Zenon, <1>1 DEF Paired, PairedOf, Bind
<1> QED BY <1>2 DEF r

\* A map with an odd number of entries panics.
RefusedOr(typeByte, list, steps, rest) ==
  IF Len(list) % 2 = 0 THEN Restored(typeByte, list, steps, rest)
  ELSE ParseObject(ValueBytes(typeByte, list, steps) \o rest, typeByte) = Panicked

Refuses(typeByte, list) == \A steps \in Nat, rest \in Bytes : RefusedOr(typeByte, list, steps, rest)

LEMMA CompactReads ==
  \A list : Stocked(list) /\ Len(list) < Unknown => \A steps \in Nat, rest \in Bytes :
    /\ ReadZipList(ZipListBytes(list, steps) \o rest) = Got(list, rest)
    /\ ReadListpack(ListpackBytes(list, steps) \o rest) = Got(list, rest)
<1> TAKE list
<1> HAVE Stocked(list) /\ Len(list) < Unknown
<1> TAKE steps \in Nat, rest \in Bytes
<1>1. list \in Seq(Moderate) /\ Len(list) \in Nat BY StockedIs
<1>2. Len(list) <= 1000 BY DEF Stocked
<1>3. Packable(list, steps) /\ Zippable(list, steps) BY ZenonT(40), <1>1, <1>2, ModerateListsFit
<1>4. Len(list) <= Unknown BY <1>1, UnknownAssumption
<1>5. ReadZipList(ZipListBytes(list, steps) \o rest) = Got(list, rest) BY Zenon, <1>3, ZipListsLoad
<1>6. ReadListpack(ListpackBytes(list, steps) \o rest) = Got(list, rest)
  BY Zenon, <1>3, <1>4, ListpacksLoad
<1> QED BY <1>5, <1>6

\* ParseObject, type 10: a list in a ziplist
LEMMA ZipListRestores == \A list : Stocked(list) /\ Len(list) < Unknown => Restores(10, list)
<1> TAKE list
<1> HAVE Stocked(list) /\ Len(list) < Unknown
<1>1. ASSUME NEW steps \in Nat, NEW rest \in Bytes PROVE Restored(10, list, steps, rest)
  <2>1. \A rd : ParseObject(rd, 10) = ReadZipList(rd) BY ParseObjectOf
  <2>2. ValueBytes(10, list, steps) = ZipListBytes(list, steps) BY ValueBytesOf
  <2>3. ValueOf(10, list) = list BY ValueOfIs
  <2> QED BY Zenon, <2>1, <2>2, <2>3, CompactReads DEF Restored
<1> QED BY <1>1 DEF Restores

\* ParseObject, types 12 and 17: a sorted set in a ziplist, in a listpack
LEMMA CompactZsetRefuses ==
  \A list : Stocked(list) /\ Len(list) < Unknown => Refuses(12, list) /\ Refuses(17, list)
<1> TAKE list
<1> HAVE Stocked(list) /\ Len(list) < Unknown
<1>1. ASSUME NEW steps \in Nat, NEW rest \in Bytes
      PROVE  RefusedOr(12, list, steps, rest) /\ RefusedOr(17, list, steps, rest)
  <2>1. /\ \A rd : ParseObject(rd, 12) = Paired(ReadZipList(rd))
        /\ \A rd : ParseObject(rd, 17) = Paired(ReadListpack(rd))
    BY Zenon, ParseObjectOf DEF readZsetZiplist, readZsetListpack
  <2>2. ValueBytes(12, list, steps) = ZipListBytes(list, steps) BY ValueBytesOf
  <2>3. ValueBytes(17, list, steps) = ListpackBytes(list, steps) BY ValueBytesOf
  <2>4. ValueOf(12, list) = Pairs(list) /\ ValueOf(17, list) = Pairs(list) BY ValueOfIs
  <2>10. /\ ReadZipList(ZipListBytes(list, steps) \o rest) = Got(list, rest)
         /\ ReadListpack(ListpackBytes(list, steps) \o rest) = Got(list, rest)
    BY CompactReads
  <2>11. Paired(Got(list, rest)) = PairedOf(list, rest) BY PairedGot
  <2>5. /\ ParseObject(ValueBytes(12, list, steps) \o rest, 12) = PairedOf(list, rest)
        /\ ParseObject(ValueBytes(17, list, steps) \o rest, 17) = PairedOf(list, rest)
    BY Zenon, <2>1, <2>2, <2>3, <2>10, <2>11
  <2> QED BY Zenon, <2>4, <2>5 DEF RefusedOr, Restored, PairedOf
<1> QED BY <1>1 DEF Refuses

\* ParseObject, types 13 and 16: a hash in a ziplist, in a listpack
LEMMA CompactHashRefuses ==
  \A list : Stocked(list) /\ Len(list) < Unknown => Refuses(13, list) /\ Refuses(16, list)
<1> TAKE list
<1> HAVE Stocked(list) /\ Len(list) < Unknown
<1>1. ASSUME NEW steps \in Nat, NEW rest \in Bytes
      PROVE  RefusedOr(13, list, steps, rest) /\ RefusedOr(16, list, steps, rest)
  <2>1. /\ \A rd : ParseObject(rd, 13) = Convert(Paired(ReadZipList(rd)), Assigned)
        /\ \A rd : ParseObject(rd, 16) = Convert(Paired(ReadListpack(rd)), Assigned)
    BY Zenon, ParseObjectOf DEF readHashZiplist, readHashListpack
  <2>2. ValueBytes(13, list, steps) = ZipListBytes(list, steps) BY ValueBytesOf
  <2>3. ValueBytes(16, list, steps) = ListpackBytes(list, steps) BY ValueBytesOf
  <2>4. ValueOf(13, list) = Assigned(Pairs(list)) /\ ValueOf(16, list) = Assigned(Pairs(list)) BY ValueOfIs
  <2>10. /\ ReadZipList(ZipListBytes(list, steps) \o rest) = Got(list, rest)
         /\ ReadListpack(ListpackBytes(list, steps) \o rest) = Got(list, rest)
    BY CompactReads
  <2>11. Paired(Got(list, rest)) = PairedOf(list, rest) BY PairedGot
  <2> DEFINE r == PairedOf(list, rest)
  <2>5. ParseObject(ValueBytes(13, list, steps) \o rest, 13) = Convert(r, Assigned)
    BY Zenon, <2>1, <2>2, <2>10, <2>11
  <2>6. ParseObject(ValueBytes(16, list, steps) \o rest, 16) = Convert(r, Assigned)
    BY Zenon, <2>1, <2>3, <2>10, <2>11
  <2> HIDE DEF r
  <2>7. CASE Len(list) % 2 = 0
    <3>1. r = Got(Pairs(list), rest) BY Zenon, <2>7 DEF PairedOf, r
    <3>2. Convert(r, Assigned) = Got(Assigned(Pairs(list)), rest) BY <3>1, ConvertGot
    <3> QED BY Zenon, <2>4, <2>5, <2>6, <2>7, <3>2 DEF RefusedOr, Restored
  <2>8. CASE ~(Len(list) % 2 = 0)
    <3>1. r = Panicked BY Zenon, <2>8 DEF PairedOf, r
    <3> QED BY Zenon, <2>5, <2>6, <2>8, <3>1, ConvertPanic DEF RefusedOr
  <2> QED BY <2>7, <2>8
<1> QED BY <1>1 DEF Refuses

\* ParseObject, type 11: a set of integers
LEMMA IntsetRestores ==
  \A list : Stocked(list) /\ (\A i \in DOMAIN list : IsNumber(list[i])) => Restores(11, list)
<1> TAKE list
<1> HAVE Stocked(list) /\ (\A i \in DOMAIN list : IsNumber(list[i]))
<1>1. ASSUME NEW steps \in Nat, NEW rest \in Bytes PROVE Restored(11, list, steps, rest)
  <2>1. \A rd : ParseObject(rd, 11) = ReadIntset(rd) BY ParseObjectOf
  <2>2. ValueBytes(11, list, steps) = IntsetBytes(list, steps) BY ValueBytesOf
  <2>3. ValueOf(11, list) = list BY ValueOfIs
  <2>4. IsIntset(list)
    <3>1. list \in Seq(Storable) /\ list \in Seq(Bytes) /\ Len(list) \in Nat BY StockedIs
    <3>2. Len(list) <= 1000000 BY SMT, <3>1 DEF Stocked
    <3>3. ASSUME NEW i \in DOMAIN list PROVE IsInt(list[i], 32)
      <4>1. list[i] \in Storable BY <3>1
      <4> QED BY <4>1 DEF Storable, IsInt
    <3> QED BY SMT, <3>1, <3>2, <3>3 DEF IsIntset, AllFit
  <2>5. ReadIntset(IntsetBytes(list, steps) \o rest) = Got(list, rest) BY <2>4, IntsetsLoad
  <2> QED BY Zenon, <2>1, <2>2, <2>3, <2>5 DEF Restored
<1> QED BY <1>1 DEF Restores

---------------------------------------------------------------------------
(* Pairs after a count *)

IsPair(pair) == pair = <<pair[1], pair[2]>> /\ pair[1] \in Strings /\ pair[2] \in Strings

\* The i-th pair of a list, whose second is an element at an even place.
PairAt(list, i) ==
  /\ IsPair(Pairs(list)[i]) /\ 2 * i \in DOMAIN list /\ (2 * i) % 2 = 0
  /\ Pairs(list)[i][2] = list[2 * i]

LEMMA PairsAre ==
  \A list : Stocked(list) =>
    /\ Len(Pairs(list)) \in Nat /\ Len(Pairs(list)) \in Word
    /\ Pairs(list) \in Seq(Strings \X Strings)
    /\ \A i \in DOMAIN Pairs(list) : PairAt(list, i)
<1> SUFFICES ASSUME NEW list, Stocked(list)
             PROVE  /\ Len(Pairs(list)) \in Nat /\ Len(Pairs(list)) \in Word
                    /\ Pairs(list) \in Seq(Strings \X Strings)
                    /\ \A i \in DOMAIN Pairs(list) : PairAt(list, i)
  OBVIOUS
<1>1. list \in Seq(Strings) /\ Len(list) \in Nat BY StockedIs
<1>2. Len(list) <= 1000 BY DEF Stocked
<1>3. PICK n \in Nat : n = Len(list) \div 2 BY <1>1
<1> DEFINE p == Pairs(list)
<1>4. ASSUME NEW i \in 1 .. n
      PROVE  /\ 2 * i - 1 \in DOMAIN list /\ 2 * i \in DOMAIN list /\ (2 * i) % 2 = 0
             /\ list[2 * i - 1] \in Strings /\ list[2 * i] \in Strings
  <2>1. i \in Nat /\ i >= 1 /\ 2 * i <= Len(list) BY <1>1, <1>3
  <2>2. 2 * i - 1 \in 1 .. Len(list) /\ 2 * i \in 1 .. Len(list) /\ (2 * i) % 2 = 0 BY <1>1, <2>1
  <2> QED BY <1>1, <2>2
<1>5. p = [i \in 1 .. n |-> <<list[2 * i - 1], list[2 * i]>>] BY <1>3 DEF Pairs
<1>6. p \in Seq(Strings \X Strings) /\ Len(p) = n BY <1>4, <1>5
<1>7. n \in Word
  <2>1. n <= 1000000000 BY SMT, <1>1, <1>2, <1>3
  <2> QED BY SMT, <2>1, SmallIsWord
<1>8. ASSUME NEW i \in DOMAIN p PROVE PairAt(list, i)
  <2>1. i \in 1 .. n BY <1>5
  <2>2. p[i] = <<list[2 * i - 1], list[2 * i]>> BY <1>5, <2>1
  <2> HIDE DEF p
  <2>3. p[i][1] = list[2 * i - 1] /\ p[i][2] = list[2 * i] BY <2>2
  <2>4. IsPair(p[i]) BY <1>4, <2>1, <2>2, <2>3 DEF IsPair
  <2> QED BY <1>4, <2>1, <2>3, <2>4 DEF PairAt, p
<1> QED BY <1>6, <1>7, <1>8

PairKinds == {"fields", "scores", "doubles"}

SecondOf(k, rd) ==
  CASE k = "fields" -> ReadString(rd) [] k = "scores" -> ReadFloat(rd) [] k = "doubles" -> ReadDouble(rd)

\* bytes are the second of a pair, read as val, whatever follows.
IsSecond(k, bytes, val) ==
  bytes \in Bytes /\ \A rest \in Bytes : SecondOf(k, bytes \o rest) = Got(val, rest)

\* The pair of s and what was read after it.
PairGot(s, second) == IF second.ok THEN Got(<<s, second.val>>, second.rest) ELSE Panicked

PairAfter(k, first) == IF first.ok THEN PairGot(first.val, SecondOf(k, first.rest)) ELSE Panicked

LEMMA PairUnfolds ==
  \A k \in PairKinds : \A rd : Reader(k, rd) = PairAfter(k, ReadString(rd))
<1> TAKE k \in PairKinds
<1> TAKE rd
<1> DEFINE r == ReadString(rd)
<1> SUFFICES Reader(k, rd) = PairAfter(k, r) OBVIOUS
<1> HIDE DEF r
<1>1. CASE k = "fields"
  <2>1. Reader(k, rd) = ReadPair(rd, ReadString) BY Zenon, <1>1 DEF Reader
  <2>2. SecondOf(k, r.rest) = ReadString(r.rest) BY Zenon, <1>1 DEF SecondOf
  <2>3. ReadPair(rd, ReadString) = IF r.ok THEN PairGot(r.val, ReadString(r.rest)) ELSE Panicked
    BY Zenon DEF ReadPair, Bind, Convert, PairGot, r
  <2>4. PairAfter(k, r) = IF r.ok THEN PairGot(r.val, ReadString(r.rest)) ELSE Panicked
    BY Zenon, <2>2 DEF PairAfter
  <2> QED BY Zenon, <2>1, <2>3, <2>4
<1>2. CASE k = "scores"
  <2>1. Reader(k, rd) = ReadPair(rd, ReadFloat) BY Zenon, <1>2 DEF Reader
  <2>2. SecondOf(k, r.rest) = ReadFloat(r.rest) BY Zenon, <1>2 DEF SecondOf
  <2>3. ReadPair(rd, ReadFloat) = IF r.ok THEN PairGot(r.val, ReadFloat(r.rest)) ELSE Panicked
    BY Zenon DEF ReadPair, Bind, Convert, PairGot, r
  <2>4. PairAfter(k, r) = IF r.ok THEN PairGot(r.val, ReadFloat(r.rest)) ELSE Panicked
    BY Zenon, <2>2 DEF PairAfter
  <2> QED BY Zenon, <2>1, <2>3, <2>4
<1>3. CASE k = "doubles"
  <2>1. Reader(k, rd) = ReadPair(rd, ReadDouble) BY Zenon, <1>3 DEF Reader
  <2>2. SecondOf(k, r.rest) = ReadDouble(r.rest) BY Zenon, <1>3 DEF SecondOf
  <2>3. ReadPair(rd, ReadDouble) = IF r.ok THEN PairGot(r.val, ReadDouble(r.rest)) ELSE Panicked
    BY Zenon DEF ReadPair, Bind, Convert, PairGot, r
  <2>4. PairAfter(k, r) = IF r.ok THEN PairGot(r.val, ReadDouble(r.rest)) ELSE Panicked
    BY Zenon, <2>2 DEF PairAfter
  <2> QED BY Zenon, <2>1, <2>3, <2>4
<1> QED BY <1>1, <1>2, <1>3 DEF PairKinds

LEMMA PairReads ==
  \A k \in PairKinds : \A a, s, b, val :
    IsString(a, s) /\ IsSecond(k, b, val) => ReadsAs(k, a \o b, <<s, val>>)
<1> TAKE k \in PairKinds
<1> TAKE a, s, b, val
<1> HAVE IsString(a, s) /\ IsSecond(k, b, val)
<1>1. a \in Bytes /\ b \in Bytes BY DEF IsString, IsSecond
<1>2. a \o b \in Bytes BY <1>1, BytesConcat
<1>3. ASSUME NEW rest \in Bytes PROVE Reader(k, (a \o b) \o rest) = Got(<<s, val>>, rest)
  <2>1. b \o rest \in Bytes BY <1>1, BytesConcat
  <2>2. (a \o b) \o rest = a \o (b \o rest) BY <1>1, BytesAssociate
  <2> DEFINE r1 == ReadString(a \o (b \o rest))
             r2 == SecondOf(k, b \o rest)
  <2>3. r1 = Got(s, b \o rest) BY <2>1 DEF IsString
  <2>4. r2 = Got(val, rest) BY DEF IsSecond
  <2>5. Reader(k, (a \o b) \o rest) = PairAfter(k, r1)
    BY Zenon, <2>2, PairUnfolds
  <2> HIDE DEF r1, r2
  <2>7. r1.ok /\ r1.val = s /\ r1.rest = b \o rest BY <2>3, GotHas
  <2>8. r2.ok /\ r2.val = val /\ r2.rest = rest BY <2>4, GotHas
  <2>9. PairAfter(k, r1) = PairGot(s, r2) BY Zenon, <2>7 DEF PairAfter, r2
  <2>10. PairGot(s, r2) = Got(<<s, val>>, rest) BY Zenon, <2>8 DEF PairGot
  <2> QED BY Zenon, <2>5, <2>9, <2>10
<1> QED BY Zenon, <1>2, <1>3 DEF ReadsAs

---------------------------------------------------------------------------
(* Hashes, and sorted sets with scores in text *)

LEMMA HashReads == \A rd : readHash(rd) = Convert(ReadCounted(rd, FieldPair), Assigned)
  BY Zenon DEF readHash, FieldPair

LEMMA ZsetReads == \A rd : readZset(rd) = ReadCounted(rd, ScorePair)
  BY Zenon DEF readZset, ScorePair

LEMMA Zset2Reads == \A rd : readZset2(rd) = ReadCounted(rd, DoublePair)
  BY Zenon DEF readZset2, DoublePair

\* The pieces of pairs, one by one.
LEMMA PiecesLaid ==
  \A k, pieces, vals :
    /\ DOMAIN pieces = 1 .. Len(vals) /\ Len(vals) \in Nat
    /\ pieces = [i \in DOMAIN pieces |-> pieces[i]]
    /\ \A i \in 1 .. Len(vals) : ReadsAs(k, pieces[i], vals[i])
    => Laid(k, pieces, vals)
<1> SUFFICES ASSUME NEW k, NEW pieces, NEW vals, NEW n \in Nat, n = Len(vals),
                    DOMAIN pieces = 1 .. n, pieces = [i \in DOMAIN pieces |-> pieces[i]],
                    \A i \in 1 .. n : ReadsAs(k, pieces[i], vals[i])
             PROVE  Laid(k, pieces, vals)
  OBVIOUS
<1>1. \A i \in 1 .. n : pieces[i] \in Bytes BY DEF ReadsAs
<1>2. pieces \in [1 .. n -> Bytes] BY Zenon, <1>1
<1>3. pieces \in Seq(Bytes) /\ Len(pieces) = n BY <1>2
<1> QED BY <1>3 DEF Laid

LEMMA StringIsSecond == \A s \in Strings, steps \in Nat : IsSecond("fields", StringBytes(s, steps), s)
<1> TAKE s \in Strings, steps \in Nat
<1>1. IsString(StringBytes(s, steps), s) BY StringsLoad
<1>2. \A r : SecondOf("fields", r) = ReadString(r) BY Zenon DEF SecondOf
<1> QED BY Zenon, <1>1, <1>2 DEF IsSecond, IsString

LEMMA FieldsLaid ==
  \A list : Stocked(list) => \A steps \in Nat :
    Laid("fields", FieldPieces(Pairs(list), steps), Pairs(list))
<1> TAKE list
<1> HAVE Stocked(list)
<1> TAKE steps \in Nat
<1> DEFINE pairs == Pairs(list)
           pieces == FieldPieces(pairs, steps)
<1>1. Len(pairs) \in Nat /\ DOMAIN pairs = 1 .. Len(pairs) BY PairsAre
<1>2. \A i \in DOMAIN pairs : PairAt(list, i) BY PairsAre
<1>3. ASSUME NEW i \in DOMAIN pairs
      PROVE  ReadsAs("fields", StringBytes(pairs[i][1], steps) \o StringBytes(pairs[i][2], steps), pairs[i])
  <2>1. PICK s \in Strings, t \in Strings : s = pairs[i][1] /\ t = pairs[i][2] /\ pairs[i] = <<s, t>>
    BY <1>2 DEF PairAt, IsPair
  <2>2. IsString(StringBytes(s, steps), s) BY StringsLoad
  <2>3. IsSecond("fields", StringBytes(t, steps), t) BY StringIsSecond
  <2>4. "fields" \in PairKinds BY DEF PairKinds
  <2> QED BY Zenon, <2>1, <2>2, <2>3, <2>4, PairReads
<1> HIDE DEF pairs
<1>4. pieces = [i \in DOMAIN pairs |-> StringBytes(pairs[i][1], steps) \o StringBytes(pairs[i][2], steps)]
  BY Zenon DEF FieldPieces
<1>5. DOMAIN pieces = DOMAIN pairs BY Zenon, <1>4
<1>6. \A i \in DOMAIN pairs : pieces[i] = StringBytes(pairs[i][1], steps) \o StringBytes(pairs[i][2], steps)
  BY Zenon, <1>4
<1>7. pieces = [i \in DOMAIN pieces |-> pieces[i]] BY Zenon, <1>4, <1>5, <1>6
<1>8. \A i \in DOMAIN pairs : ReadsAs("fields", pieces[i], pairs[i]) BY Zenon, <1>3, <1>6
<1> HIDE DEF pieces
<1>9. Laid("fields", pieces, pairs) BY Zenon, <1>1, <1>5, <1>7, <1>8, PiecesLaid
<1> QED BY <1>9 DEF pieces, pairs

LEMMA PairsCounted ==
  \A k, pieces, list : \A steps \in Nat :
    Stocked(list) /\ Laid(k, pieces, Pairs(list)) => CountedAs(k, CountedOf(Pairs(list), pieces, steps), Pairs(list))
<1> TAKE k, pieces, list
<1> TAKE steps \in Nat
<1> HAVE Stocked(list) /\ Laid(k, pieces, Pairs(list))
<1>1. Pairs(list) \in Seq(Strings \X Strings) /\ Len(Pairs(list)) \in Word BY PairsAre
<1> QED BY Zenon, <1>1, CountedOfPieces

\* ParseObject, type 4: a hash
LEMMA HashRestores == \A list : Stocked(list) => Restores(4, list)
<1> TAKE list
<1> HAVE Stocked(list)
<1>1. ASSUME NEW steps \in Nat, NEW rest \in Bytes PROVE Restored(4, list, steps, rest)
  <2> DEFINE pairs == Pairs(list)
             bytes == CountedOf(pairs, FieldPieces(pairs, steps), steps)
  <2>1. CountedAs("fields", bytes, pairs) BY FieldsLaid, PairsCounted
  <2>2. ReadCounted(bytes \o rest, FieldPair) = Got(pairs, rest)
    <3> HIDE DEF bytes, pairs
    <3> QED BY Zenon, <2>1, CountedFields
  <2>3. ValueBytes(4, list, steps) = bytes BY ValueBytesOf
  <2>4. ValueOf(4, list) = Assigned(pairs) BY ValueOfIs
  <2>5. ParseObject(bytes \o rest, 4) = Convert(ReadCounted(bytes \o rest, FieldPair), Assigned)
    <3> HIDE DEF bytes
    <3>1. ParseObject(bytes \o rest, 4) = readHash(bytes \o rest) BY ParseObjectOf
    <3> QED BY Zenon, <3>1, HashReads
  <2>6. Convert(Got(pairs, rest), Assigned) = Got(Assigned(pairs), rest) BY ConvertGot
  <2> HIDE DEF bytes, pairs
  <2> QED BY Zenon, <2>2, <2>3, <2>4, <2>5, <2>6 DEF Restored
<1> QED BY <1>1 DEF Restores

---------------------------------------------------------------------------
(* Scores *)

FloatOf(text, left) == IF IsInteger(text) THEN Got(Float(ParseInt(text)), left) ELSE Panicked

FloatText(r) == IF r.ok THEN FloatOf(r.val, r.rest) ELSE Panicked

FloatAfter(u, rest) ==
  CASE u = 253 -> Got(NaN, rest)
    [] u = 254 -> Got(Inf(43), rest)
    [] u = 255 -> Got(Inf(45), rest)
    [] u < 253 /\ u > Len(rest) -> Got(Float(0), <<>>)
    [] OTHER -> FloatText(ReadBytes(rest, u))

LEMMA FloatBegins == \A rd, u, rest : ReadByte(rd) = Got(u, rest) => ReadFloat(rd) = FloatAfter(u, rest)
<1> TAKE rd, u, rest
<1> HAVE ReadByte(rd) = Got(u, rest)
<1> DEFINE r == ReadByte(rd)
<1>1. r.ok /\ r.val = u /\ r.rest = rest BY GotHas
<1>2. ReadFloat(rd) = IF r.ok THEN FloatAfter(r.val, r.rest) ELSE Panicked
  BY Zenon DEF ReadFloat, FloatAfter, FloatText, FloatOf, Bind
<1> HIDE DEF r
<1> QED BY Zenon, <1>1, <1>2

LEMMA FloatShort ==
  \A u \in Nat : \A rest : u < 253 /\ u <= Len(rest) /\ Len(rest) \in Nat
    => FloatAfter(u, rest) = FloatText(ReadBytes(rest, u))
  BY SMT DEF FloatAfter

LEMMA StoredNumber ==
  \A s \in Storable : IsNumber(s) =>
    /\ s \in Bytes /\ ParseInt(s) \in Int /\ Fits(ParseInt(s), 32) /\ FormatInt(ParseInt(s)) = s
    /\ IsInteger(s) /\ Len(s) \in Nat /\ Len(s) <= 11
<1> TAKE s \in Storable
<1> HAVE IsNumber(s)
<1>1. s \in Bytes BY StorableIs
<1>2. ParseInt(s) \in Int /\ FormatInt(ParseInt(s)) = s BY <1>1, ParseIntType
<1>3. Fits(ParseInt(s), 32) BY DEF Storable
<1>4. Len(FormatInt(ParseInt(s))) <= 11
  <2>1. PICK v \in Int : v = ParseInt(s) BY <1>2
  <2>2. -Greatest(32) - 1 <= v /\ v <= Greatest(32) BY Zenon, <1>3, <2>1 DEF Fits
  <2> QED BY Zenon, <2>1, <2>2, FormatIntLength
<1>5. IsInteger(s) BY DEF IsNumber
<1>6. Len(s) \in Nat BY <1>1 DEF Bytes
<1> QED BY <1>1, <1>2, <1>3, <1>4, <1>5, <1>6

LEMMA ElevenIsByte == \A n \in Nat : n <= 11 => n \in Byte
  BY DEF Byte

LEMMA ScoreIsSecond ==
  \A s \in Storable : IsNumber(s) => IsSecond("scores", FloatBytes(s), Float(ParseInt(s)))
<1> TAKE s \in Storable
<1> HAVE IsNumber(s)
<1>1. s \in Bytes /\ IsInteger(s) /\ Len(s) \in Nat /\ Len(s) <= 11 BY StoredNumber
<1>2. PICK u \in Byte : u = Len(s)
  <2>1. PICK n \in Nat : n = Len(s) /\ n <= 11 BY Zenon, <1>1
  <2>2. n \in Byte BY Zenon, <2>1, ElevenIsByte
  <2> QED BY Zenon, <2>1, <2>2
<1>3. <<u>> \in Bytes BY DEF Bytes
<1>4. FloatBytes(s) = <<u>> \o s BY <1>2 DEF FloatBytes
<1>5. FloatBytes(s) \in Bytes BY <1>1, <1>3, <1>4, BytesConcat
<1>6. ASSUME NEW rest \in Bytes PROVE SecondOf("scores", FloatBytes(s) \o rest) = Got(Float(ParseInt(s)), rest)
  <2>1. FloatBytes(s) \o rest = <<u>> \o (s \o rest) BY <1>1, <1>3, <1>4, BytesAssociate
  <2>2. s \o rest \in Bytes BY <1>1, BytesConcat
  <2>3. ReadByte(<<u>> \o (s \o rest)) = Got(u, s \o rest) BY <2>2, ByteRead
  <2>4. ReadFloat(FloatBytes(s) \o rest) = FloatAfter(u, s \o rest) BY <2>1, <2>3, FloatBegins
  <2>5. Len(s \o rest) = Len(s) + Len(rest) /\ Len(rest) \in Nat BY <1>1 DEF Bytes
  <2>6. FloatAfter(u, s \o rest) = FloatText(ReadBytes(s \o rest, u))
    <3>1. u \in Nat /\ u < 253 /\ u <= Len(s \o rest) /\ Len(s \o rest) \in Nat BY SMT, <1>1, <1>2, <2>5
    <3> QED BY Zenon, <3>1, FloatShort
  <2>7. ReadBytes(s \o rest, u) = Got(s, rest)
    <3>1. Begins(s \o rest, s, u, rest) BY <1>1, <1>2 DEF Begins
    <3> QED BY <3>1, BytesRead
  <2> DEFINE r == ReadBytes(s \o rest, u)
  <2>8. r.ok /\ r.val = s /\ r.rest = rest BY <2>7, GotHas
  <2> HIDE DEF r
  <2>9. FloatText(r) = Got(Float(ParseInt(s)), rest) BY Zenon, <1>1, <2>8 DEF FloatText, FloatOf
  <2>10. SecondOf("scores", FloatBytes(s) \o rest) = ReadFloat(FloatBytes(s) \o rest) BY Zenon DEF SecondOf
  <2> QED BY Zenon, <2>4, <2>6, <2>9, <2>10 DEF r
<1> QED BY Zenon, <1>5, <1>6 DEF IsSecond

---------------------------------------------------------------------------

ScoreKinds == {"scores", "doubles"}

ScoreBytes(k, s) == IF k = "scores" THEN FloatBytes(s) ELSE DoubleBytes(ParseInt(s))

KindPieces(k, pairs, steps) ==
  [i \in DOMAIN pairs |-> StringBytes(pairs[i][1], steps) \o ScoreBytes(k, pairs[i][2])]

\* Numbers are read back from a score of that kind.
ScoresRead(k) == \A s \in Storable : IsNumber(s) => IsSecond(k, ScoreBytes(k, s), Float(ParseInt(s)))

HasScores(list) == \A i \in DOMAIN list : i % 2 = 0 => IsNumber(list[i])

LEMMA TextScoresRead == ScoresRead("scores") BY Zenon, ScoreIsSecond DEF ScoresRead, ScoreBytes

LEMMA KindPiecesAre ==
  \A pairs, steps : /\ KindPieces("scores", pairs, steps) = ScorePieces(pairs, steps)
                    /\ KindPieces("doubles", pairs, steps) = DoublePieces(pairs, steps)
<1> TAKE pairs, steps
<1>1. \A s : ScoreBytes("scores", s) = FloatBytes(s) BY Zenon DEF ScoreBytes
<1>2. \A s : ScoreBytes("doubles", s) = DoubleBytes(ParseInt(s)) BY Zenon DEF ScoreBytes
<1>3. KindPieces("scores", pairs, steps) = ScorePieces(pairs, steps) BY Zenon, <1>1 DEF KindPieces, ScorePieces
<1>4. KindPieces("doubles", pairs, steps) = DoublePieces(pairs, steps) BY Zenon, <1>2 DEF KindPieces, DoublePieces
<1> QED BY <1>3, <1>4

LEMMA ScoredIs ==
  \A pairs : Len(pairs) \in Nat /\ DOMAIN pairs = 1 .. Len(pairs) =>
    /\ Len(Scored(pairs)) = Len(pairs)
    /\ \A i \in DOMAIN pairs : Scored(pairs)[i] = <<pairs[i][1], Float(ParseInt(pairs[i][2]))>>
    /\ \E S : Scored(pairs) \in Seq(S)
<1> TAKE pairs
<1> HAVE Len(pairs) \in Nat /\ DOMAIN pairs = 1 .. Len(pairs)
<1> DEFINE V(i) == <<pairs[i][1], Float(ParseInt(pairs[i][2]))>>
           n == Len(pairs)
           S == {V(i) : i \in 1 .. n}
           vals == [i \in 1 .. n |-> V(i)]
<1>1. Scored(pairs) = vals BY Zenon DEF Scored
<1>2. \A i \in 1 .. n : V(i) \in S BY Zenon
<1> SUFFICES Len(vals) = n /\ (\A i \in 1 .. n : vals[i] = V(i)) /\ \E T : vals \in Seq(T)
  BY Zenon, <1>1
<1> HIDE DEF V, S
<1>3. Len(vals) = n /\ vals \in Seq(S) BY <1>2
<1>4. \A i \in 1 .. n : vals[i] = V(i) BY Zenon
<1> QED BY Zenon, <1>3, <1>4

LEMMA ScoresLaid ==
  \A k \in ScoreKinds : \A list : ScoresRead(k) /\ Stocked(list) /\ HasScores(list) => \A steps \in Nat :
    Laid(k, KindPieces(k, Pairs(list), steps), Scored(Pairs(list)))
<1> TAKE k \in ScoreKinds
<1> TAKE list
<1> HAVE ScoresRead(k) /\ Stocked(list) /\ HasScores(list)
<1> TAKE steps \in Nat
<1> DEFINE pairs == Pairs(list)
           pieces == KindPieces(k, pairs, steps)
           vals == Scored(pairs)
<1>1. Len(pairs) \in Nat /\ DOMAIN pairs = 1 .. Len(pairs) BY PairsAre
<1>2. \A i \in DOMAIN pairs : PairAt(list, i) BY PairsAre
<1>3. ASSUME NEW i \in DOMAIN pairs
      PROVE  ReadsAs(k, StringBytes(pairs[i][1], steps) \o ScoreBytes(k, pairs[i][2]),
                     <<pairs[i][1], Float(ParseInt(pairs[i][2]))>>)
  <2>1. PICK s \in Strings, t \in Strings : s = pairs[i][1] /\ t = pairs[i][2] /\ pairs[i] = <<s, t>>
    BY <1>2 DEF PairAt, IsPair
  <2>2. IsString(StringBytes(s, steps), s) BY StringsLoad
  <2>3. t \in Storable /\ IsNumber(t)
    <3>1. 2 * i \in DOMAIN list /\ (2 * i) % 2 = 0 /\ t = list[2 * i] BY <1>2, <2>1 DEF PairAt
    <3>2. list \in Seq(Storable) BY StockedIs
    <3> QED BY <3>1, <3>2 DEF HasScores
  <2>4. IsSecond(k, ScoreBytes(k, t), Float(ParseInt(t))) BY Zenon, <2>3 DEF ScoresRead
  <2>5. k \in PairKinds BY DEF PairKinds, ScoreKinds
  <2> QED BY Zenon, <2>1, <2>2, <2>4, <2>5, PairReads
<1> HIDE DEF pairs
<1>4. pieces = [i \in DOMAIN pairs |-> StringBytes(pairs[i][1], steps) \o ScoreBytes(k, pairs[i][2])]
  BY Zenon DEF KindPieces
<1>5. DOMAIN pieces = DOMAIN pairs BY Zenon, <1>4
<1>6. \A i \in DOMAIN pairs : pieces[i] = StringBytes(pairs[i][1], steps) \o ScoreBytes(k, pairs[i][2])
  BY Zenon, <1>4
<1>7. pieces = [i \in DOMAIN pieces |-> pieces[i]] BY Zenon, <1>4, <1>5, <1>6
<1>8. Len(vals) = Len(pairs) /\ \A i \in DOMAIN pairs : vals[i] = <<pairs[i][1], Float(ParseInt(pairs[i][2]))>>
  BY Zenon, <1>1, ScoredIs
<1> HIDE DEF pieces, vals
<1>9. \A i \in DOMAIN pairs : ReadsAs(k, pieces[i], vals[i]) BY Zenon, <1>3, <1>6, <1>8
<1>10. DOMAIN pieces = 1 .. Len(vals) /\ Len(vals) \in Nat BY Zenon, <1>1, <1>5, <1>8
<1>11. \A i \in 1 .. Len(vals) : ReadsAs(k, pieces[i], vals[i]) BY Zenon, <1>1, <1>8, <1>9
<1>12. Laid(k, pieces, vals) BY Zenon, <1>7, <1>10, <1>11, PiecesLaid
<1> QED BY <1>12 DEF pieces, pairs, vals

LEMMA ScoresCounted ==
  \A k \in ScoreKinds : \A list : ScoresRead(k) /\ Stocked(list) /\ HasScores(list) => \A steps \in Nat :
    CountedAs(k, CountedOf(Pairs(list), KindPieces(k, Pairs(list), steps), steps), Scored(Pairs(list)))
<1> TAKE k \in ScoreKinds
<1> TAKE list
<1> HAVE ScoresRead(k) /\ Stocked(list) /\ HasScores(list)
<1> TAKE steps \in Nat
<1> DEFINE pairs == Pairs(list)
           pieces == KindPieces(k, pairs, steps)
           vals == Scored(pairs)
<1>1. Len(pairs) \in Nat /\ Len(pairs) \in Word /\ DOMAIN pairs = 1 .. Len(pairs) BY PairsAre
<1>2. Laid(k, pieces, vals) BY ScoresLaid
<1> HIDE DEF pairs, pieces
<1>3. Len(vals) = Len(pairs) /\ \E S : vals \in Seq(S) BY Zenon, <1>1, ScoredIs
<1>4. CountedOf(vals, pieces, steps) = CountedOf(pairs, pieces, steps) BY Zenon, <1>3 DEF CountedOf
<1>5. CountedAs(k, CountedOf(vals, pieces, steps), vals)
  <2> HIDE DEF vals
  <2>1. PICK S : vals \in Seq(S) BY Zenon, <1>3
  <2> QED BY Zenon, <1>1, <1>2, <1>3, <2>1, CountedOfPieces
<1> QED BY Zenon, <1>4, <1>5 DEF pairs, pieces

\* ParseObject, type 3: a sorted set whose scores are text
LEMMA ZsetRestores == \A list : Stocked(list) /\ HasScores(list) => Restores(3, list)
<1> TAKE list
<1> HAVE Stocked(list) /\ HasScores(list)
<1>1. ASSUME NEW steps \in Nat, NEW rest \in Bytes PROVE Restored(3, list, steps, rest)
  <2> DEFINE pairs == Pairs(list)
             bytes == CountedOf(pairs, ScorePieces(pairs, steps), steps)
             vals == Scored(pairs)
  <2>1. CountedAs("scores", bytes, vals)
    <3>1. "scores" \in ScoreKinds BY DEF ScoreKinds
    <3>2. CountedAs("scores", CountedOf(pairs, KindPieces("scores", pairs, steps), steps), vals)
      BY <3>1, TextScoresRead, ScoresCounted
    <3> QED BY Zenon, <3>2, KindPiecesAre
  <2>3. ValueBytes(3, list, steps) = bytes BY ValueBytesOf
  <2>4. ValueOf(3, list) = vals BY ValueOfIs
  <2> HIDE DEF bytes, vals
  <2>2. ReadCounted(bytes \o rest, ScorePair) = Got(vals, rest) BY Zenon, <2>1, CountedScores
  <2>5. ParseObject(bytes \o rest, 3) = ReadCounted(bytes \o rest, ScorePair)
    <3>1. ParseObject(bytes \o rest, 3) = readZset(bytes \o rest) BY ParseObjectOf
    <3> QED BY Zenon, <3>1, ZsetReads
  <2> QED BY Zenon, <2>2, <2>3, <2>4, <2>5 DEF Restored
<1> QED BY <1>1 DEF Restores

\* ParseObject, type 5: a sorted set whose scores are doubles
LEMMA Zset2Restores == ScoresRead("doubles") => \A list : Stocked(list) /\ HasScores(list) => Restores(5, list)
<1> HAVE ScoresRead("doubles")
<1> TAKE list
<1> HAVE Stocked(list) /\ HasScores(list)
<1>1. ASSUME NEW steps \in Nat, NEW rest \in Bytes PROVE Restored(5, list, steps, rest)
  <2> DEFINE pairs == Pairs(list)
             bytes == CountedOf(pairs, DoublePieces(pairs, steps), steps)
             vals == Scored(pairs)
  <2>1. CountedAs("doubles", bytes, vals)
    <3>1. "doubles" \in ScoreKinds BY DEF ScoreKinds
    <3>2. CountedAs("doubles", CountedOf(pairs, KindPieces("doubles", pairs, steps), steps), vals)
      BY <3>1, ScoresCounted
    <3> QED BY Zenon, <3>2, KindPiecesAre
  <2>3. ValueBytes(5, list, steps) = bytes BY ValueBytesOf
  <2>4. ValueOf(5, list) = vals BY ValueOfIs
  <2> HIDE DEF bytes, vals
  <2>2. ReadCounted(bytes \o rest, DoublePair) = Got(vals, rest) BY Zenon, <2>1, CountedDoubles
  <2>5. ParseObject(bytes \o rest, 5) = ReadCounted(bytes \o rest, DoublePair)
    <3>1. ParseObject(bytes \o rest, 5) = readZset2(bytes \o rest) BY ParseObjectOf
    <3> QED BY Zenon, <3>1, Zset2Reads
  <2> QED BY Zenon, <2>2, <2>3, <2>4, <2>5 DEF Restored
<1> QED BY <1>1 DEF Restores

---------------------------------------------------------------------------
(* Quicklists: nodes of up to two elements *)

LEMMA SubSeqJoins ==
  \A S : \A s \in Seq(S), a, b \in Nat :
    a <= b /\ b <= Len(s) => SubSeq(s, 1, a) \o SubSeq(s, a + 1, b) = SubSeq(s, 1, b)
<1> TAKE S
<1> TAKE s \in Seq(S), a, b \in Nat
<1> HAVE a <= b /\ b <= Len(s)
<1> DEFINE x == SubSeq(s, 1, a)
           y == SubSeq(s, a + 1, b)
           z == SubSeq(s, 1, b)
<1>1. x \in Seq(S) /\ Len(x) = a /\ \A i \in 1 .. a : x[i] = s[i] OBVIOUS
<1>2. y \in Seq(S) /\ Len(y) = b - a /\ \A i \in 1 .. b - a : y[i] = s[a + i] OBVIOUS
<1>3. z \in Seq(S) /\ Len(z) = b /\ \A i \in 1 .. b : z[i] = s[i] OBVIOUS
<1> HIDE DEF x, y, z
<1> DEFINE w == x \o y
<1>4. w \in Seq(S) /\ Len(w) = b
  <2>1. w \in Seq(S) BY <1>1, <1>2
  <2>2. Len(w) = Len(x) + Len(y) BY <1>1, <1>2, LenOfConcat
  <2>3. a + (b - a) = b OBVIOUS
  <2> QED BY Zenon, <1>1, <1>2, <2>1, <2>2, <2>3
<1>5. \A i \in 1 .. b : w[i] = s[i]
  <2> TAKE i \in 1 .. b
  <2>1. CASE i <= a
    <3>1. i \in 1 .. a BY <2>1
    <3>2. w[i] = x[i] BY <1>1, <1>2, <3>1
    <3> QED BY <1>1, <3>1, <3>2
  <2>2. CASE ~(i <= a)
    <3>1. i - a \in 1 .. b - a /\ a + (i - a) = i BY <2>2
    <3>2. w[i] = y[i - a] BY <1>1, <1>2, <2>2, <3>1
    <3> QED BY <1>2, <3>1, <3>2
  <2> QED BY <2>1, <2>2
<1> HIDE DEF w
<1>6. w = z BY <1>3, <1>4, <1>5
<1> QED BY <1>6 DEF w, x, y, z

\* Where the i-th node ends.
NodeEnd(list, i) == IF 2 * i <= Len(list) THEN 2 * i ELSE Len(list)

NodeCount(list) == (Len(list) + 1) \div 2

IsNode(node) == Stocked(node) /\ Len(node) \in 1 .. 2

LEMMA NodeEnds ==
  \A list : Len(list) \in Nat => \A i \in 1 .. NodeCount(list) :
    /\ NodeCount(list) \in Nat /\ NodeEnd(list, i) \in Nat /\ NodeEnd(list, i) <= Len(list)
    /\ NodeEnd(list, i) - 2 * (i - 1) \in 1 .. 2 /\ 2 * (i - 1) \in Nat
    /\ i > 1 => NodeEnd(list, i - 1) = 2 * (i - 1)
  BY SMT DEF NodeEnd, NodeCount

LEMMA LastNodeEnds ==
  \A list : Len(list) \in Nat =>
    /\ NodeCount(list) \in Nat /\ (Len(list) # 0 => NodeCount(list) > 0) /\ NodeCount(list) <= Len(list)
    /\ NodeEnd(list, NodeCount(list)) = Len(list)
  BY SMT DEF NodeEnd, NodeCount

LEMMA NodesAre ==
  \A list : Stocked(list) =>
    /\ Chunks(list, 2) = [i \in 1 .. NodeCount(list) |-> SubSeq(list, 2 * (i - 1) + 1, NodeEnd(list, i))]
    /\ \A i \in 1 .. NodeCount(list) : IsNode(SubSeq(list, 2 * (i - 1) + 1, NodeEnd(list, i)))
<1> TAKE list
<1> HAVE Stocked(list)
<1>1. list \in Seq(Storable) /\ Len(list) \in Nat BY StockedIs
<1> DEFINE n == NodeCount(list)
           Old(i) == SubSeq(list, (i - 1) * 2 + 1, Min({i * 2, Len(list)}))
           New(i) == SubSeq(list, 2 * (i - 1) + 1, NodeEnd(list, i))
<1>2. n \in Nat BY <1>1, LastNodeEnds
<1>3. ASSUME NEW i \in 1 .. n PROVE Old(i) = New(i)
  <2>1. i \in Int /\ (i - 1) * 2 + 1 = 2 * (i - 1) + 1 /\ i * 2 = 2 * i /\ 2 * i \in Int BY <1>2
  <2>2. Min({i * 2, Len(list)}) = NodeEnd(list, i)
    <3>1. Min({2 * i, Len(list)}) = IF 2 * i <= Len(list) THEN 2 * i ELSE Len(list)
      <4>1. PICK k \in Int : k = Len(list) BY <1>1
      <4> QED BY Zenon, <2>1, <4>1, LeastOfTwo
    <3> QED BY Zenon, <2>1, <3>1 DEF NodeEnd
  <2> QED BY Zenon, <2>1, <2>2
<1>4. Chunks(list, 2) = [i \in 1 .. n |-> New(i)]
  <2>1. Chunks(list, 2) = [i \in 1 .. (Len(list) + 2 - 1) \div 2 |-> Old(i)] BY Zenon DEF Chunks
  <2>2. (Len(list) + 2 - 1) \div 2 = n BY <1>1 DEF NodeCount
  <2> HIDE DEF Old, New, n
  <2> QED BY Zenon, <1>3, <2>1, <2>2
<1>5. ASSUME NEW i \in 1 .. n PROVE IsNode(New(i))
  <2> DEFINE e == NodeEnd(list, i)
             b == 2 * (i - 1)
  <2>1. e \in Nat /\ e <= Len(list) /\ e - b \in 1 .. 2 /\ b \in Nat BY <1>1, NodeEnds
  <2> HIDE DEF e, b
  <2>2. Len(SubSeq(list, b + 1, e)) = e - b /\ SubSeq(list, b + 1, e) \in Seq(Storable) BY <1>1, <2>1
  <2> DEFINE node == SubSeq(list, b + 1, e)
  <2>3. node \in Seq(Storable) /\ Len(node) \in 1 .. 2 BY <2>1, <2>2
  <2> HIDE DEF node
  <2>4. Len(node) <= 1000
    <3>1. PICK k \in 1 .. 2 : k = Len(node) BY <2>3
    <3>2. k <= 1000 BY SMT, <3>1
    <3> QED BY <3>1, <3>2
  <2>5. IsNode(node) BY <2>3, <2>4 DEF IsNode, Stocked
  <2> QED BY <2>5 DEF node, b, e
<1> QED BY Zenon, <1>4, <1>5

LEMMA NodesJoin ==
  \A list : Stocked(list) =>
    /\ Len(Chunks(list, 2)) = NodeCount(list) /\ FlattenSeq(Chunks(list, 2)) = list
    /\ \A i \in 1 .. NodeCount(list) : IsNode(Chunks(list, 2)[i])
    /\ NodeCount(list) \in Nat /\ NodeCount(list) \in Word /\ \E S : Chunks(list, 2) \in Seq(S)
<1> TAKE list
<1> HAVE Stocked(list)
<1> DEFINE nodes == Chunks(list, 2)
           n == NodeCount(list)
           New(i) == SubSeq(list, 2 * (i - 1) + 1, NodeEnd(list, i))
<1>1. list \in Seq(Storable) /\ Len(list) \in Nat BY StockedIs
<1>2. n \in Nat /\ (Len(list) # 0 => n > 0) /\ n <= Len(list) /\ NodeEnd(list, n) = Len(list)
  BY <1>1, LastNodeEnds
<1>3. nodes = [i \in 1 .. n |-> New(i)] /\ \A i \in 1 .. n : IsNode(New(i)) BY Zenon, NodesAre
<1>4. n \in Word
  <2>1. n <= 1000000000
    <3>1. Len(list) <= 1000 BY DEF Stocked
    <3> QED BY SMT, <1>1, <1>2, <3>1
  <2> QED BY SMT, <1>2, <2>1, SmallIsWord
<1>5. \A i \in 1 .. n : nodes[i] = New(i) BY Zenon, <1>3
<1>6. Len(nodes) = n
  <2> HIDE DEF New
  <2> QED BY <1>2, <1>3
<1>7. nodes \in Seq(Seq(Storable))
  <2>1. \A i \in 1 .. n : New(i) \in Seq(Storable) BY ZenonT(40), <1>3 DEF IsNode, Stocked
  <2> HIDE DEF New
  <2> QED BY <1>2, <1>3, <2>1
<1>8. FlattenSeq(nodes) = list
  <2>1. CASE n = 0
    <3>1. nodes = <<>> BY <1>6, <1>7, <2>1
    <3>2. list = <<>> BY <1>1, <1>2, <2>1
    <3> QED BY <3>1, <3>2, FlattenOfNone
  <2>2. CASE n # 0
    <3> HIDE DEF nodes, n, New
    <3>1. PICK f : Flattens(f, n, nodes) /\ FlattenSeq(nodes) = f[n]
      <4>1. Len(nodes) \in Nat \ {0} BY <1>2, <1>6, <2>2
      <4> QED BY Zenon, <1>6, <4>1, FlattenSeqFlattens
    <3> DEFINE Upto(i) == SubSeq(list, 1, NodeEnd(list, i))
               M == {i \in Nat : i + 1 <= n => f[i + 1] = Upto(i + 1)}
    <3>2. 0 \in M
      <4>1. 1 \in 1 .. n BY <1>2, <2>2
      <4>2. f[1] = nodes[1] BY <3>1, <4>1 DEF Flattens
      <4>3. nodes[1] = Upto(1)
        <5>1. nodes[1] = New(1) BY <1>5, <4>1
        <5>2. 2 * (1 - 1) + 1 = 1 OBVIOUS
        <5> QED BY <5>1, <5>2 DEF New
      <4>4. 0 + 1 = 1 OBVIOUS
      <4> QED BY <4>2, <4>3, <4>4
    <3>3. ASSUME NEW i \in M PROVE i + 1 \in M
      <4> SUFFICES ASSUME i + 1 + 1 <= n PROVE f[i + 1 + 1] = Upto(i + 1 + 1) OBVIOUS
      <4>1. i \in Nat OBVIOUS
      <4>2. PICK k \in Nat : k = i + 1 + 1 BY <4>1
      <4>3. k \in 1 .. n /\ k > 1 /\ k # 1 /\ k - 1 = i + 1 /\ i + 1 <= n BY <1>2, <4>1, <4>2
      <4>4. f[k - 1] = Upto(k - 1) BY <4>3
      <4>5. f[k] = f[k - 1] \o nodes[k] BY <3>1, <4>3 DEF Flattens
      <4>6. nodes[k] = SubSeq(list, 2 * (k - 1) + 1, NodeEnd(list, k)) BY <1>5, <4>3 DEF New
      <4> DEFINE a == NodeEnd(list, k - 1)
                 b == NodeEnd(list, k)
      <4>7. /\ b \in Nat /\ b <= Len(list) /\ b - 2 * (k - 1) \in 1 .. 2
            /\ 2 * (k - 1) \in Nat /\ a = 2 * (k - 1)
        BY <1>1, <4>3, NodeEnds DEF n
      <4> HIDE DEF a, b
      <4>8. a \in Nat /\ a <= b BY <4>7
      <4>9. SubSeq(list, 1, a) \o SubSeq(list, a + 1, b) = SubSeq(list, 1, b)
        BY Zenon, <1>1, <4>7, <4>8, SubSeqJoins
      <4>10. f[k] = Upto(k) BY Zenon, <4>4, <4>5, <4>6, <4>7, <4>9 DEF a, b
      <4> QED BY <4>2, <4>10
    <3>4. M = Nat
      <4> HIDE DEF M
      <4>1. M \in SUBSET Nat BY DEF M
      <4> QED BY <3>2, <3>3, <4>1, NumberInduction
    <3>5. n - 1 \in Nat /\ (n - 1) + 1 = n BY <1>2, <2>2
    <3>6. n - 1 \in M
      <4> HIDE DEF M
      <4> QED BY <3>4, <3>5
    <3>7. f[n] = Upto(n) BY <1>2, <3>5, <3>6
    <3>8. SubSeq(list, 1, Len(list)) = list BY <1>1
    <3>9. NodeEnd(list, n) = Len(list) BY <1>2
    <3> QED BY Zenon, <3>1, <3>7, <3>8, <3>9
  <2> QED BY <2>1, <2>2
<1>9. \A i \in 1 .. n : IsNode(nodes[i]) BY Zenon, <1>3, <1>5
<1>10. \E S : nodes \in Seq(S) BY Zenon, <1>7
<1> QED BY Zenon, <1>2, <1>4, <1>6, <1>8, <1>9, <1>10

---------------------------------------------------------------------------
(* What a quicklist is read as *)

LEMMA BlobType == \A s \in Strings, steps \in Nat : Blob(s, steps) \in Bytes
<1> TAKE s \in Strings, steps \in Nat
<1>1. s \in Bytes /\ Len(s) \in Word BY DEF Strings
<1> QED BY <1>1, BlobsLoad DEF IsString

LEMMA CompactIsBytes ==
  \A list : Stocked(list) => \A steps \in Nat :
    ZipListBytes(list, steps) \in Bytes /\ ListpackBytes(list, steps) \in Bytes
<1> TAKE list
<1> HAVE Stocked(list)
<1> TAKE steps \in Nat
<1>1. list \in Seq(Moderate) /\ Len(list) \in Nat BY StockedIs
<1>2. Len(list) <= 1000 BY DEF Stocked
<1>3. Packable(list, steps) /\ Zippable(list, steps) BY ZenonT(40), <1>1, <1>2, ModerateListsFit
<1>4. ZipListBytes(list, steps) = Blob(ZipOf(list, steps), steps) BY Zenon DEF ZipListBytes, ZipOf
<1>5. ZipOf(list, steps) \in Strings BY Zenon, <1>3, ZipParts
<1> DEFINE counter == CountBytes(Len(list))
<1>6. counter \in Bytes /\ Len(counter) = 2 BY <1>1, CountRead
<1> HIDE DEF counter
<1>7. PackOf(counter, list, steps) \in Strings BY Zenon, <1>3, <1>6, PackParts
<1>8. ListpackBytes(list, steps) = Blob(PackOf(counter, list, steps), steps)
  BY Zenon DEF ListpackBytes, ListpackWith, PackOf, EntriesOf, counter
<1> QED BY Zenon, <1>4, <1>5, <1>7, <1>8, BlobType

LEMMA NodeIs ==
  \A node : IsNode(node) =>
    /\ Stocked(node) /\ Len(node) < Unknown
    /\ (Len(node) = 1 => node = <<node[1]>> /\ node[1] \in Strings)
    /\ (Len(node) # 1 => Len(node) = 2)
<1> TAKE node
<1> HAVE IsNode(node)
<1>1. Stocked(node) /\ Len(node) \in 1 .. 2 BY DEF IsNode
<1>2. node \in Seq(Strings) BY <1>1, StockedIs
<1>3. Len(node) < Unknown BY SMTT(30), <1>1, NodesAssumption, UnknownAssumption
<1>4. Len(node) = 1 => node = <<node[1]>> /\ node[1] \in Strings BY <1>2
<1> QED BY <1>1, <1>3, <1>4

LEMMA ZipNodeReads ==
  \A node : IsNode(node) => \A steps \in Nat : ReadsAs("ziplists", ZipListBytes(node, steps), node)
<1> TAKE node
<1> HAVE IsNode(node)
<1> TAKE steps \in Nat
<1>1. Stocked(node) /\ Len(node) < Unknown BY NodeIs
<1>2. \A r : Reader("ziplists", r) = ReadZipList(r) BY Zenon DEF Reader
<1>3. \A rest \in Bytes : ReadZipList(ZipListBytes(node, steps) \o rest) = Got(node, rest)
  BY Zenon, <1>1, CompactReads
<1>4. ZipListBytes(node, steps) \in Bytes BY Zenon, <1>1, CompactIsBytes
<1> QED BY Zenon, <1>2, <1>3, <1>4 DEF ReadsAs

\* The nodes of a quicklist, version 2: plain ones and packed ones.
PlainNode(r) == IF r.ok THEN Got(<<r.val>>, r.rest) ELSE Panicked

NodeAfter(container, rest) ==
  CASE container = 1 -> PlainNode(ReadString(rest))
    [] container = 2 -> ReadListpack(rest)
    [] OTHER         -> Panicked

LEMMA NodeBegins ==
  \A rd, container, rest : ReadLength(rd) = Got(container, rest) => QuickListNode(rd) = NodeAfter(container, rest)
<1> TAKE rd, container, rest
<1> HAVE ReadLength(rd) = Got(container, rest)
<1> DEFINE r == ReadLength(rd)
<1>1. r.ok /\ r.val = container /\ r.rest = rest BY GotHas
<1>2. QuickListNode(rd) = IF r.ok THEN NodeAfter(r.val, r.rest) ELSE Panicked
  BY Zenon DEF QuickListNode, NodeAfter, PlainNode, Bind, Convert
<1> HIDE DEF r
<1> QED BY Zenon, <1>1, <1>2

LEMMA NodeKinds ==
  \A rest : NodeAfter(1, rest) = PlainNode(ReadString(rest)) /\ NodeAfter(2, rest) = ReadListpack(rest)
  BY SMT DEF NodeAfter

LEMMA ContainerRead ==
  \A n \in 1 .. 2, more \in Bytes :
    <<n>> \in Bytes /\ ReadLength(<<n>> \o more) = Got(n, more)
<1> TAKE n \in 1 .. 2, more \in Bytes
<1>1. n \in 0 .. 63 /\ n \in Byte BY DEF Byte
<1>2. IsLength(<<n>>, n) BY <1>1, SixBits
<1>3. <<n>> \in Bytes BY <1>1 DEF Bytes
<1> QED BY <1>2, <1>3, LengthRead

LEMMA NodeReads ==
  \A node : IsNode(node) => \A steps \in Nat : ReadsAs("nodes", NodePiece(node, steps), node)
<1> TAKE node
<1> HAVE IsNode(node)
<1> TAKE steps \in Nat
<1>1. \A r : Reader("nodes", r) = QuickListNode(r) BY Zenon DEF Reader
<1>2. CASE Len(node) = 1
  <2>1. PICK s \in Strings : s = node[1] /\ node = <<s>> BY <1>2, NodeIs
  <2>2. PICK bytes \in Bytes : bytes = StringBytes(s, steps) /\ IsString(bytes, s)
    BY StringsLoad DEF IsString
  <2>3. NodePiece(node, steps) = <<1>> \o bytes BY Zenon, <1>2, <2>1, <2>2 DEF NodePiece
  <2>4. 1 \in 1 .. 2 OBVIOUS
  <2>5. <<1>> \in Bytes BY <2>4, ContainerRead
  <2>6. <<1>> \o bytes \in Bytes BY <2>5, BytesConcat
  <2>7. ASSUME NEW rest \in Bytes PROVE QuickListNode((<<1>> \o bytes) \o rest) = Got(node, rest)
    <3>1. (<<1>> \o bytes) \o rest = <<1>> \o (bytes \o rest) BY <2>5, BytesAssociate
    <3>2. bytes \o rest \in Bytes BY BytesConcat
    <3>3. ReadLength(<<1>> \o (bytes \o rest)) = Got(1, bytes \o rest) BY <2>4, <3>2, ContainerRead
    <3>4. QuickListNode((<<1>> \o bytes) \o rest) = NodeAfter(1, bytes \o rest) BY Zenon, <3>1, <3>3, NodeBegins
    <3> DEFINE r == ReadString(bytes \o rest)
    <3>5. r = Got(s, rest) BY Zenon, <2>2 DEF IsString
    <3>6. NodeAfter(1, bytes \o rest) = PlainNode(r) BY NodeKinds
    <3> HIDE DEF r
    <3>7. r.ok /\ r.val = s /\ r.rest = rest BY <3>5, GotHas
    <3>8. PlainNode(r) = Got(node, rest) BY Zenon, <2>1, <3>7 DEF PlainNode
    <3> QED BY Zenon, <3>4, <3>6, <3>8
  <2> QED BY Zenon, <1>1, <2>3, <2>6, <2>7 DEF ReadsAs
<1>3. CASE Len(node) # 1
  <2>1. Stocked(node) /\ Len(node) < Unknown BY NodeIs
  <2>2. PICK bytes \in Bytes : bytes = ListpackBytes(node, steps) BY <2>1, CompactIsBytes
  <2>3. NodePiece(node, steps) = <<2>> \o bytes BY Zenon, <1>3, <2>2 DEF NodePiece
  <2>4. 2 \in 1 .. 2 OBVIOUS
  <2>5. <<2>> \in Bytes BY <2>4, ContainerRead
  <2>6. <<2>> \o bytes \in Bytes BY <2>5, BytesConcat
  <2>7. ASSUME NEW rest \in Bytes PROVE QuickListNode((<<2>> \o bytes) \o rest) = Got(node, rest)
    <3>1. (<<2>> \o bytes) \o rest = <<2>> \o (bytes \o rest) BY <2>5, BytesAssociate
    <3>2. bytes \o rest \in Bytes BY BytesConcat
    <3>3. ReadLength(<<2>> \o (bytes \o rest)) = Got(2, bytes \o rest) BY <2>4, <3>2, ContainerRead
    <3>4. QuickListNode((<<2>> \o bytes) \o rest) = NodeAfter(2, bytes \o rest) BY Zenon, <3>1, <3>3, NodeBegins
    <3>5. ReadListpack(bytes \o rest) = Got(node, rest) BY Zenon, <2>1, <2>2, CompactReads
    <3>6. NodeAfter(2, bytes \o rest) = ReadListpack(bytes \o rest) BY NodeKinds
    <3> QED BY Zenon, <3>4, <3>5, <3>6
  <2> QED BY Zenon, <1>1, <2>3, <2>6, <2>7 DEF ReadsAs
<1> QED BY <1>2, <1>3

LEMMA NodesLaid ==
  \A list : Stocked(list) => \A steps \in Nat :
    /\ Laid("ziplists", ZipPieces(Chunks(list, 2), steps), Chunks(list, 2))
    /\ Laid("nodes", NodePieces(Chunks(list, 2), steps), Chunks(list, 2))
<1> TAKE list
<1> HAVE Stocked(list)
<1> TAKE steps \in Nat
<1> DEFINE nodes == Chunks(list, 2)
           n == NodeCount(list)
           zips == ZipPieces(nodes, steps)
           packs == NodePieces(nodes, steps)
<1>1. Len(nodes) = n /\ n \in Nat /\ (\A i \in 1 .. n : IsNode(nodes[i])) /\ \E S : nodes \in Seq(S)
  BY NodesJoin
<1> HIDE DEF nodes, n
<1>2. DOMAIN nodes = 1 .. n BY <1>1
<1>3. /\ zips = [i \in 1 .. n |-> ZipListBytes(nodes[i], steps)]
      /\ packs = [i \in 1 .. n |-> NodePiece(nodes[i], steps)]
  BY Zenon, <1>2 DEF ZipPieces, NodePieces
<1> HIDE DEF zips, packs
<1>4. /\ DOMAIN zips = 1 .. n /\ \A i \in 1 .. n : zips[i] = ZipListBytes(nodes[i], steps)
      /\ DOMAIN packs = 1 .. n /\ \A i \in 1 .. n : packs[i] = NodePiece(nodes[i], steps)
  BY Zenon, <1>3
<1>5. zips = [i \in DOMAIN zips |-> zips[i]] /\ packs = [i \in DOMAIN packs |-> packs[i]]
  BY Zenon, <1>3, <1>4
<1>6. \A i \in 1 .. n : ReadsAs("ziplists", zips[i], nodes[i]) BY Zenon, <1>1, <1>4, ZipNodeReads
<1>7. \A i \in 1 .. n : ReadsAs("nodes", packs[i], nodes[i]) BY Zenon, <1>1, <1>4, NodeReads
<1>8. Laid("ziplists", zips, nodes) BY Zenon, <1>1, <1>4, <1>5, <1>6, PiecesLaid
<1>9. Laid("nodes", packs, nodes) BY Zenon, <1>1, <1>4, <1>5, <1>7, PiecesLaid
<1> QED BY <1>8, <1>9 DEF zips, packs, nodes

LEMMA NodesCounted ==
  \A k, pieces, list : \A steps \in Nat :
    Stocked(list) /\ Laid(k, pieces, Chunks(list, 2))
      => CountedAs(k, CountedOf(Chunks(list, 2), pieces, steps), Chunks(list, 2))
<1> TAKE k, pieces, list
<1> TAKE steps \in Nat
<1> HAVE Stocked(list) /\ Laid(k, pieces, Chunks(list, 2))
<1> DEFINE nodes == Chunks(list, 2)
<1>1. Len(nodes) \in Word /\ \E S : nodes \in Seq(S) BY Zenon, NodesJoin
<1>2. PICK S : nodes \in Seq(S) BY Zenon, <1>1
<1> QED BY Zenon, <1>1, <1>2, CountedOfPieces

\* ParseObject, types 14 and 18: quicklists of ziplists, of listpacks
LEMMA QuickListRestores == \A list : Stocked(list) => Restores(14, list) /\ Restores(18, list)
<1> TAKE list
<1> HAVE Stocked(list)
<1>1. ASSUME NEW steps \in Nat, NEW rest \in Bytes
      PROVE  Restored(14, list, steps, rest) /\ Restored(18, list, steps, rest)
  <2> DEFINE nodes == Chunks(list, 2)
             zips == CountedOf(nodes, ZipPieces(nodes, steps), steps)
             packs == CountedOf(nodes, NodePieces(nodes, steps), steps)
  <2>1. CountedAs("ziplists", zips, nodes) BY Zenon, NodesLaid, NodesCounted
  <2>2. CountedAs("nodes", packs, nodes) BY Zenon, NodesLaid, NodesCounted
  <2>3. FlattenSeq(nodes) = list BY NodesJoin
  <2>4. ValueBytes(14, list, steps) = zips BY ValueBytesOf DEF ZipsOf
  <2>5. ValueBytes(18, list, steps) = packs BY ValueBytesOf DEF NodesOf
  <2>6. ValueOf(14, list) = list /\ ValueOf(18, list) = list BY ValueOfIs
  <2> HIDE DEF nodes, zips, packs
  <2>7. ReadCounted(zips \o rest, ReadZipList) = Got(nodes, rest) BY Zenon, <2>1, CountedZipLists
  <2>8. ReadCounted(packs \o rest, QuickListNode) = Got(nodes, rest) BY Zenon, <2>2, CountedNodes
  <2>9. Convert(Got(nodes, rest), FlattenSeq) = Got(FlattenSeq(nodes), rest) BY ConvertGot
  <2>10. ParseObject(zips \o rest, 14) = Convert(ReadCounted(zips \o rest, ReadZipList), FlattenSeq)
    <3>1. ParseObject(zips \o rest, 14) = readQuickList(zips \o rest) BY ParseObjectOf
    <3> QED BY Zenon, <3>1 DEF readQuickList
  <2>11. ParseObject(packs \o rest, 18) = Convert(ReadCounted(packs \o rest, QuickListNode), FlattenSeq)
    <3>1. ParseObject(packs \o rest, 18) = readQuickList2(packs \o rest) BY ParseObjectOf
    <3> QED BY Zenon, <3>1 DEF readQuickList2
  <2>12. Restored(14, list, steps, rest) BY Zenon, <2>3, <2>4, <2>6, <2>7, <2>9, <2>10 DEF Restored
  <2>13. Restored(18, list, steps, rest) BY Zenon, <2>3, <2>5, <2>6, <2>8, <2>9, <2>11 DEF Restored
  <2> QED BY <2>12, <2>13
<1> QED BY <1>1 DEF Restores

---------------------------------------------------------------------------
(* Numbers in base 2 *)

Bit == {0, 1}

BitStrings == Seq(Bit)

Binaries(f) == f = [m \in Nat |-> IF m < 2 THEN <<m>> ELSE Append(f[m \div 2], m % 2)]

LEMMA BinariesExist == \E f : Binaries(f)
<1> DEFINE More(g, m) == IF m < 2 THEN <<m>> ELSE Append(g[m \div 2], m % 2)
           step == [g \in [Nat -> BitStrings] |-> [m \in Nat |-> More(g, m)]]
           rank == [m \in Nat |-> m]
<1>1. ASSUME NEW g \in [Nat -> BitStrings], NEW m \in Nat PROVE More(g, m) \in BitStrings
  <2>1. CASE m < 2
    <3>1. m \in Bit BY <2>1 DEF Bit
    <3> QED BY <2>1, <3>1 DEF BitStrings
  <2>2. CASE ~(m < 2)
    <3>1. m % 2 \in Bit BY DEF Bit
    <3>2. m \div 2 \in Nat OBVIOUS
    <3>3. g[m \div 2] \in BitStrings BY <3>2
    <3> QED BY <2>2, <3>1, <3>3 DEF BitStrings
  <2> QED BY <2>1, <2>2
<1>2. ASSUME NEW g \in [Nat -> BitStrings], NEW h \in [Nat -> BitStrings], NEW m \in Nat,
             \A q \in Nat : rank[q] < rank[m] => g[q] = h[q]
      PROVE  More(g, m) = More(h, m)
  <2>1. CASE m < 2 BY <2>1
  <2>2. CASE ~(m < 2)
    <3>1. m \div 2 \in Nat /\ rank[m \div 2] < rank[m] BY <2>2
    <3>2. g[m \div 2] = h[m \div 2] BY <1>2, <3>1
    <3> QED BY <2>2, <3>2
  <2> QED BY <2>1, <2>2
<1>3. rank \in [Nat -> Nat] OBVIOUS
<1> HIDE DEF rank, More
<1>4. Descends(step, rank, Nat, BitStrings)
  <2>1. \A g \in [Nat -> BitStrings] : step[g] = [m \in Nat |-> More(g, m)] OBVIOUS
  <2>2. step \in [[Nat -> BitStrings] -> [Nat -> BitStrings]] BY <1>1
  <2> HIDE DEF step
  <2>3. \A g \in [Nat -> BitStrings], m \in Nat : step[g][m] = More(g, m) BY <2>1
  <2> QED BY <1>2, <1>3, <2>2, <2>3 DEF Descends
<1>5. BitStrings # {}
  <2>1. <<>> \in BitStrings BY DEF BitStrings
  <2> QED BY <2>1
<1>6. PICK f : f \in [Nat -> BitStrings] /\ f = step[f]
  <2> HIDE DEF step
  <2> QED BY <1>4, <1>5, RecursionByRank
<1>7. f = [m \in Nat |-> More(f, m)] BY <1>6 DEF step
<1>8. Binaries(f) BY Zenon, <1>7 DEF Binaries, More
<1> QED BY <1>8

LEMMA BinaryUnfolds ==
  \A n \in Nat : Binary(n) = IF n < 2 THEN <<n>> ELSE Append(Binary(n \div 2), n % 2)
<1> DEFINE f == CHOOSE g : Binaries(g)
<1>1. Binaries(f) BY BinariesExist
<1>2. \A n : Binary(n) = f[n] BY Zenon DEF Binary, Binaries
<1> HIDE DEF f
<1> TAKE n \in Nat
<1>3. n \div 2 \in Nat OBVIOUS
<1>4. f[n] = IF n < 2 THEN <<n>> ELSE Append(f[n \div 2], n % 2) BY <1>1 DEF Binaries
<1> QED BY Zenon, <1>2, <1>4

\* digits are n in base 2, and begin with a 1.
Spells(digits, n) ==
  /\ digits \in Seq(Bit) /\ digits # <<>> /\ digits[1] = 1 /\ Horner(0, 2, digits) = n

LEMMA SpellsMore ==
  \A digits : \A n \in Nat, d \in Bit : Spells(digits, n) => Spells(Append(digits, d), 2 * n + d)
<1> TAKE digits
<1> TAKE n \in Nat, d \in Bit
<1> HAVE Spells(digits, n)
<1>1. digits \in Seq(Bit) /\ digits # <<>> /\ digits[1] = 1 /\ Horner(0, 2, digits) = n BY DEF Spells
<1>2. d \in Int /\ digits \in Seq(Int)
  <2>1. \A b \in Bit : b \in Int BY DEF Bit
  <2> QED BY <1>1, <2>1
<1>3. Horner(0, 2, Append(digits, d)) = 2 * Horner(0, 2, digits) + d BY <1>2, HornerAppends
<1>4. Append(digits, d) \in Seq(Bit) /\ Append(digits, d) # <<>> /\ Append(digits, d)[1] = 1 BY <1>1
<1> QED BY <1>1, <1>3, <1>4 DEF Spells

LEMMA SpellsOne == Spells(<<1>>, 1)
<1>1. 1 \in Bit BY DEF Bit
<1>2. Horner(0, 2, Append(<<>>, 1)) = 2 * Horner(0, 2, <<>>) + 1
  <2>1. <<>> \in Seq(Int) /\ 1 \in Int OBVIOUS
  <2> QED BY <2>1, HornerAppends
<1>3. Append(<<>>, 1) = <<1>> OBVIOUS
<1>4. Horner(0, 2, <<>>) = 0 BY HornerOfNone
<1>5. 2 * 0 + 1 = 1 OBVIOUS
<1>6. Horner(0, 2, <<1>>) = 1 BY Zenon, <1>2, <1>3, <1>4, <1>5
<1> QED BY <1>1, <1>6 DEF Spells

LEMMA BinarySpells == \A n \in Nat : n > 0 => Spells(Binary(n), n)
<1> DEFINE N == {n \in Nat : \A k \in Nat : k > 0 /\ k < n => Spells(Binary(k), k)}
<1>1. 0 \in N OBVIOUS
<1>2. ASSUME NEW n \in N PROVE n + 1 \in N
  <2> SUFFICES ASSUME NEW k \in Nat, k > 0, k < n + 1 PROVE Spells(Binary(k), k) OBVIOUS
  <2>1. CASE k < 2
    <3>1. k = 1 BY <2>1
    <3>2. Binary(k) = <<1>> BY <2>1, <3>1, BinaryUnfolds
    <3> QED BY <3>1, <3>2, SpellsOne
  <2>2. CASE ~(k < 2)
    <3>1. k \div 2 \in Nat /\ k \div 2 > 0 /\ k \div 2 < n BY <2>2
    <3>2. Spells(Binary(k \div 2), k \div 2) BY <3>1
    <3>3. k % 2 \in Bit /\ k = 2 * (k \div 2) + (k % 2) BY DEF Bit
    <3>4. Spells(Append(Binary(k \div 2), k % 2), 2 * (k \div 2) + (k % 2)) BY <3>1, <3>2, <3>3, SpellsMore
    <3>5. Binary(k) = Append(Binary(k \div 2), k % 2) BY <2>2, BinaryUnfolds
    <3> QED BY <3>3, <3>4, <3>5
  <2> QED BY <2>1, <2>2
<1>3. N = Nat
  <2> HIDE DEF N
  <2>1. N \in SUBSET Nat BY DEF N
  <2> QED BY <1>1, <1>2, <2>1, NumberInduction
<1> TAKE n \in Nat
<1> HAVE n > 0
<1>4. n + 1 \in N
  <2> HIDE DEF N
  <2> QED BY <1>3
<1>5. n < n + 1 OBVIOUS
<1> QED BY <1>4, <1>5

\* The numbers from least on up to most have so many digits.
Digits(least, most, digits) ==
  \A n \in Nat : least <= n /\ n <= most => Len(Binary(n)) = digits

Doubled(a, b, k, c, d, l) ==
  a \in Nat /\ b \in Nat /\ k \in Nat /\ a > 0 /\ c = 2 * a /\ d = 2 * b + 1 /\ l = k + 1

LEMMA DigitsDouble ==
  \A a, b, k, c, d, l : Doubled(a, b, k, c, d, l) /\ Digits(a, b, k) => Digits(c, d, l)
<1> TAKE a, b, k, c, d, l
<1> HAVE Doubled(a, b, k, c, d, l) /\ Digits(a, b, k)
<1>1. a \in Nat /\ b \in Nat /\ k \in Nat /\ a > 0 /\ c = 2 * a /\ d = 2 * b + 1 /\ l = k + 1 BY DEF Doubled
<1> SUFFICES ASSUME NEW n \in Nat, c <= n, n <= d PROVE Len(Binary(n)) = l BY DEF Digits
<1>2. ~(n < 2) /\ n \div 2 \in Nat /\ a <= n \div 2 /\ n \div 2 <= b /\ n \div 2 > 0 BY <1>1
<1>3. Binary(n) = Append(Binary(n \div 2), n % 2) BY <1>2, BinaryUnfolds
<1>4. Len(Binary(n \div 2)) = k BY <1>2 DEF Digits
<1>5. Binary(n \div 2) \in Seq(Bit) BY <1>2, BinarySpells DEF Spells
<1>6. n % 2 \in Bit BY DEF Bit
<1> QED BY <1>1, <1>3, <1>4, <1>5, <1>6

\* Exponents of doubles from 1 on, that is from 1023 on, have ten digits or eleven.
LEMMA ExponentDigits == Digits(1023, 1023, 10) /\ Digits(1024, 1060, 11)
<1>1. PICK a1, a2, a3, a4, a5, a6, a7, a8, a9, a10, a11 \in Nat :
        /\ a1 = 1 /\ a2 = 2 * a1 /\ a3 = 2 * a2 /\ a4 = 2 * a3 /\ a5 = 2 * a4 /\ a6 = 2 * a5
        /\ a7 = 2 * a6 /\ a8 = 2 * a7 /\ a9 = 2 * a8 /\ a10 = 2 * a9 /\ a11 = 2 * a10
  OBVIOUS
<1>2. PICK b1, b2, b3, b4, b5, b6, b7, b8, b9, b10, b11 \in Nat :
        /\ b1 = 1 /\ b2 = 2 * b1 + 1 /\ b3 = 2 * b2 + 1 /\ b4 = 2 * b3 + 1 /\ b5 = 2 * b4 + 1
        /\ b6 = 2 * b5 + 1 /\ b7 = 2 * b6 + 1 /\ b8 = 2 * b7 + 1 /\ b9 = 2 * b8 + 1
        /\ b10 = 2 * b9 + 1 /\ b11 = 2 * b10 + 1
  OBVIOUS
<1>3. PICK k1, k2, k3, k4, k5, k6, k7, k8, k9, k10, k11 \in Nat :
        /\ k1 = 1 /\ k2 = k1 + 1 /\ k3 = k2 + 1 /\ k4 = k3 + 1 /\ k5 = k4 + 1 /\ k6 = k5 + 1
        /\ k7 = k6 + 1 /\ k8 = k7 + 1 /\ k9 = k8 + 1 /\ k10 = k9 + 1 /\ k11 = k10 + 1
  OBVIOUS
<1>4. /\ Doubled(a1, b1, k1, a2, b2, k2) /\ Doubled(a2, b2, k2, a3, b3, k3)
      /\ Doubled(a3, b3, k3, a4, b4, k4) /\ Doubled(a4, b4, k4, a5, b5, k5)
      /\ Doubled(a5, b5, k5, a6, b6, k6) /\ Doubled(a6, b6, k6, a7, b7, k7)
      /\ Doubled(a7, b7, k7, a8, b8, k8) /\ Doubled(a8, b8, k8, a9, b9, k9)
      /\ Doubled(a9, b9, k9, a10, b10, k10) /\ Doubled(a10, b10, k10, a11, b11, k11)
  BY SMT, <1>1, <1>2, <1>3 DEF Doubled
<1>5. Digits(a1, b1, k1)
  <2> SUFFICES ASSUME NEW n \in Nat, a1 <= n, n <= b1 PROVE Len(Binary(n)) = k1 BY DEF Digits
  <2>1. n = 1 /\ n < 2 BY <1>1, <1>2
  <2>2. Binary(n) = <<n>> BY <2>1, BinaryUnfolds
  <2>3. k1 = 1 BY <1>3
  <2> QED BY <2>2, <2>3
<1>6. /\ Digits(a2, b2, k2) /\ Digits(a3, b3, k3) /\ Digits(a4, b4, k4) /\ Digits(a5, b5, k5)
      /\ Digits(a6, b6, k6) /\ Digits(a7, b7, k7) /\ Digits(a8, b8, k8) /\ Digits(a9, b9, k9)
      /\ Digits(a10, b10, k10) /\ Digits(a11, b11, k11)
  <2>1. Digits(a2, b2, k2) BY <1>4, <1>5, DigitsDouble
  <2>2. Digits(a3, b3, k3) BY <1>4, <2>1, DigitsDouble
  <2>3. Digits(a4, b4, k4) BY <1>4, <2>2, DigitsDouble
  <2>4. Digits(a5, b5, k5) BY <1>4, <2>3, DigitsDouble
  <2>5. Digits(a6, b6, k6) BY <1>4, <2>4, DigitsDouble
  <2>6. Digits(a7, b7, k7) BY <1>4, <2>5, DigitsDouble
  <2>7. Digits(a8, b8, k8) BY <1>4, <2>6, DigitsDouble
  <2>8. Digits(a9, b9, k9) BY <1>4, <2>7, DigitsDouble
  <2>9. Digits(a10, b10, k10) BY <1>4, <2>8, DigitsDouble
  <2>10. Digits(a11, b11, k11) BY <1>4, <2>9, DigitsDouble
  <2> QED BY <2>1, <2>2, <2>3, <2>4, <2>5, <2>6, <2>7, <2>8, <2>9, <2>10
<1>9. a10 = 512 /\ b10 = 1023 /\ k10 = 10 /\ a11 = 1024 /\ b11 = 2047 /\ k11 = 11 BY SMT, <1>1, <1>2, <1>3
<1>10. Digits(1023, 1023, 10)
  <2> SUFFICES ASSUME NEW n \in Nat, 1023 <= n, n <= 1023 PROVE Len(Binary(n)) = 10 BY SMT DEF Digits
  <2>1. a10 <= n /\ n <= b10 BY SMT, <1>9
  <2> QED BY SMT, <1>6, <1>9, <2>1 DEF Digits
<1>11. Digits(1024, 1060, 11)
  <2> SUFFICES ASSUME NEW n \in Nat, 1024 <= n, n <= 1060 PROVE Len(Binary(n)) = 11 BY SMT DEF Digits
  <2>1. a11 <= n /\ n <= b11 BY SMT, <1>9
  <2> QED BY SMT, <1>6, <1>9, <2>1 DEF Digits
<1> QED BY SMT, <1>10, <1>11

\* A number up to most has so many digits at most.
UpToDigits(most, digits) == \A n \in Nat : n > 0 /\ n <= most => Len(Binary(n)) <= digits

Sixteenfold(a, k, b, l) == a \in Nat /\ k \in Nat /\ b = 16 * a + 15 /\ l = k + 4
Twofold(a, k, b, l) == a \in Nat /\ k \in Nat \ {0} /\ b = 2 * a + 1 /\ l = k + 1

LEMMA DigitsOneMore == \A a, k, b, l : Twofold(a, k, b, l) /\ UpToDigits(a, k) => UpToDigits(b, l)
<1> TAKE a, k, b, l
<1> HAVE Twofold(a, k, b, l) /\ UpToDigits(a, k)
<1>1. a \in Nat /\ k \in Nat /\ k > 0 /\ b = 2 * a + 1 /\ l = k + 1 BY DEF Twofold
<1> SUFFICES ASSUME NEW n \in Nat, n > 0, n <= b PROVE Len(Binary(n)) <= l BY DEF UpToDigits
<1>2. CASE n < 2
  <2>1. Binary(n) = <<n>> BY <1>2, BinaryUnfolds
  <2>2. Len(<<n>>) = 1 OBVIOUS
  <2>3. 1 <= l BY <1>1
  <2> QED BY Zenon, <2>1, <2>2, <2>3
<1>3. CASE ~(n < 2)
  <2>1. n \div 2 \in Nat /\ n \div 2 > 0 /\ n \div 2 <= a BY <1>1, <1>3
  <2>2. Binary(n) = Append(Binary(n \div 2), n % 2) BY <1>3, BinaryUnfolds
  <2>3. Len(Binary(n \div 2)) <= k BY <2>1 DEF UpToDigits
  <2>4. Binary(n \div 2) \in Seq(Bit) BY <2>1, BinarySpells DEF Spells
  <2>5. n % 2 \in Bit BY DEF Bit
  <2>6. Len(Binary(n)) = Len(Binary(n \div 2)) + 1 /\ Len(Binary(n \div 2)) \in Nat BY <2>2, <2>4, <2>5
  <2>7. PICK i \in Nat : i = Len(Binary(n \div 2)) BY <2>6
  <2>8. i + 1 <= l BY <1>1, <2>3, <2>7
  <2> QED BY <2>6, <2>7, <2>8
<1> QED BY <1>2, <1>3

LEMMA DigitsFourMore == \A a, k, b, l : Sixteenfold(a, k, b, l) /\ k > 0 /\ UpToDigits(a, k) => UpToDigits(b, l)
<1> TAKE a, k, b, l
<1> HAVE Sixteenfold(a, k, b, l) /\ k > 0 /\ UpToDigits(a, k)
<1>1. a \in Nat /\ k \in Nat /\ b = 16 * a + 15 /\ l = k + 4 BY DEF Sixteenfold
<1>2. PICK a1, a2, a3 \in Nat : a1 = 2 * a + 1 /\ a2 = 2 * a1 + 1 /\ a3 = 2 * a2 + 1 BY <1>1
<1>3. PICK k1, k2, k3 \in Nat : k1 = k + 1 /\ k2 = k1 + 1 /\ k3 = k2 + 1 BY <1>1
<1>4. Twofold(a, k, a1, k1) /\ Twofold(a1, k1, a2, k2) /\ Twofold(a2, k2, a3, k3) /\ Twofold(a3, k3, b, l)
  BY SMT, <1>1, <1>2, <1>3 DEF Twofold
<1>5. UpToDigits(a1, k1) BY <1>4, DigitsOneMore
<1>6. UpToDigits(a2, k2) BY <1>4, <1>5, DigitsOneMore
<1>7. UpToDigits(a3, k3) BY <1>4, <1>6, DigitsOneMore
<1> QED BY <1>4, <1>7, DigitsOneMore

\* An integer of 32 bits.
LEMMA WordDigits == \A n \in Nat : n > 0 /\ n <= Greatest(32) + 1 => Len(Binary(n)) <= 32
<1>1. PICK a0, a1, a2, a3, a4, a5, a6, a7, a8 \in Nat :
        /\ a0 = 0 /\ a1 = 16 * a0 + 15 /\ a2 = 16 * a1 + 15 /\ a3 = 16 * a2 + 15 /\ a4 = 16 * a3 + 15
        /\ a5 = 16 * a4 + 15 /\ a6 = 16 * a5 + 15 /\ a7 = 16 * a6 + 15 /\ a8 = 16 * a7 + 15
  OBVIOUS
<1>2. PICK k1, k2, k3, k4, k5, k6, k7, k8 \in Nat :
        /\ k1 = 4 /\ k2 = k1 + 4 /\ k3 = k2 + 4 /\ k4 = k3 + 4
        /\ k5 = k4 + 4 /\ k6 = k5 + 4 /\ k7 = k6 + 4 /\ k8 = k7 + 4
  OBVIOUS
<1>3. /\ Sixteenfold(a1, k1, a2, k2) /\ Sixteenfold(a2, k2, a3, k3) /\ Sixteenfold(a3, k3, a4, k4)
      /\ Sixteenfold(a4, k4, a5, k5) /\ Sixteenfold(a5, k5, a6, k6) /\ Sixteenfold(a6, k6, a7, k7)
      /\ Sixteenfold(a7, k7, a8, k8)
  BY SMT, <1>1, <1>2 DEF Sixteenfold
<1>4. k1 > 0 /\ k2 > 0 /\ k3 > 0 /\ k4 > 0 /\ k5 > 0 /\ k6 > 0 /\ k7 > 0 BY SMT, <1>2
<1>5. UpToDigits(a1, k1)
  <2>1. PICK c1, c2, c3, c4 \in Nat : c1 = 1 /\ c2 = 2 * c1 + 1 /\ c3 = 2 * c2 + 1 /\ c4 = 2 * c3 + 1 OBVIOUS
  <2>2. PICK l1, l2, l3 \in Nat : l1 = 1 /\ l2 = l1 + 1 /\ l3 = l2 + 1 OBVIOUS
  <2>3. Twofold(c1, l1, c2, l2) /\ Twofold(c2, l2, c3, l3) /\ Twofold(c3, l3, a1, k1)
    BY SMT, <1>1, <1>2, <2>1, <2>2 DEF Twofold
  <2>4. UpToDigits(c1, l1)
    <3> SUFFICES ASSUME NEW n \in Nat, n > 0, n <= c1 PROVE Len(Binary(n)) <= l1 BY DEF UpToDigits
    <3>1. n < 2 BY <2>1
    <3>2. Binary(n) = <<n>> BY <3>1, BinaryUnfolds
    <3>3. Len(<<n>>) = 1 /\ 1 <= l1 BY <2>2
    <3> QED BY Zenon, <3>2, <3>3
  <2>5. UpToDigits(c2, l2) BY Zenon, <2>3, <2>4, DigitsOneMore
  <2>6. UpToDigits(c3, l3) BY Zenon, <2>3, <2>5, DigitsOneMore
  <2> QED BY Zenon, <2>3, <2>6, DigitsOneMore
<1>6. UpToDigits(a2, k2) /\ UpToDigits(a3, k3) /\ UpToDigits(a4, k4) /\ UpToDigits(a5, k5)
  BY Zenon, <1>3, <1>4, <1>5, DigitsFourMore
<1>7. UpToDigits(a6, k6) /\ UpToDigits(a7, k7) /\ UpToDigits(a8, k8)
  BY Zenon, <1>3, <1>4, <1>6, DigitsFourMore
<1> TAKE n \in Nat
<1> HAVE n > 0 /\ n <= Greatest(32) + 1
<1>8. k8 = 32 /\ n <= a8 BY SMT, <1>1, <1>2 DEF Greatest
<1> QED BY SMT, <1>7, <1>8 DEF UpToDigits

---------------------------------------------------------------------------
(* Doubles *)

LEMMA HornerShifts ==
  \A base, start, d \in Int, digits \in Seq(Int) :
    Horner(start, base, <<d>> \o digits) = Horner(base * start + d, base, digits)
<1> TAKE base, start, d \in Int
<1> DEFINE Shifts(digits) == Horner(start, base, <<d>> \o digits) = Horner(base * start + d, base, digits)
           T == {digits \in Seq(Int) : Shifts(digits)}
<1>0. base * start + d \in Int OBVIOUS
<1>1. <<>> \in T
  <2>1. <<d>> \o <<>> = Append(<<>>, d) /\ <<>> \in Seq(Int) OBVIOUS
  <2>2. Horner(start, base, Append(<<>>, d)) = base * Horner(start, base, <<>>) + d BY <2>1, HornerAppends
  <2>3. Horner(start, base, <<>>) = start BY HornerOfNone
  <2>4. Horner(base * start + d, base, <<>>) = base * start + d BY HornerOfNone
  <2>5. Shifts(<<>>) BY Zenon, <2>1, <2>2, <2>3, <2>4
  <2> HIDE DEF Shifts
  <2> QED BY <2>5
<1>2. ASSUME NEW digits \in T, NEW e \in Int PROVE Append(digits, e) \in T
  <2>1. digits \in Seq(Int) /\ Shifts(digits) OBVIOUS
  <2> DEFINE longer == <<d>> \o digits
  <2>2. longer \in Seq(Int) /\ <<d>> \o Append(digits, e) = Append(longer, e) BY <2>1
  <2> HIDE DEF longer
  <2>3. Horner(start, base, Append(longer, e)) = base * Horner(start, base, longer) + e BY <2>2, HornerAppends
  <2>4. Horner(base * start + d, base, Append(digits, e)) = base * Horner(base * start + d, base, digits) + e
    BY <2>1, HornerAppends
  <2>5. Shifts(Append(digits, e)) BY Zenon, <2>1, <2>2, <2>3, <2>4 DEF longer
  <2>6. Append(digits, e) \in Seq(Int) BY <2>1
  <2> HIDE DEF Shifts
  <2> QED BY <2>5, <2>6
<1>3. T = Seq(Int)
  <2> HIDE DEF T
  <2>1. T \in SUBSET Seq(Int) BY DEF T
  <2> QED BY <1>1, <1>2, <2>1, SequenceInduction
<1> TAKE digits \in Seq(Int)
<1>4. digits \in T
  <2> HIDE DEF T
  <2> QED BY <1>3
<1> QED BY <1>4

LEMMA HornerOfZeros ==
  \A base \in Int, digits \in Seq(Int) :
    (\A i \in 1 .. Len(digits) : digits[i] = 0) => Horner(0, base, digits) = 0
<1> TAKE base \in Int, digits \in Seq(Int)
<1> HAVE \A i \in 1 .. Len(digits) : digits[i] = 0
<1> DEFINE n == Len(digits)
<1>1. n \in Nat OBVIOUS
<1>2. PICK f : Evaluates(f, n, 0, base, digits) /\ Horner(0, base, digits) = f[n] BY <1>1, HornerEvaluates
<1> DEFINE M == {i \in Nat : i <= n => f[i] = 0}
<1>3. 0 \in M BY <1>1, <1>2 DEF Evaluates
<1>4. ASSUME NEW i \in M PROVE i + 1 \in M
  <2> SUFFICES ASSUME i + 1 <= n PROVE f[i + 1] = 0 OBVIOUS
  <2>1. i + 1 \in 1 .. n /\ (i + 1) - 1 = i BY <1>1
  <2>2. f[i] = 0 /\ digits[i + 1] = 0 BY <1>1, <2>1
  <2>3. f[i + 1] = base * f[i] + digits[i + 1] BY <1>1, <1>2, <2>1 DEF Evaluates
  <2>4. base * 0 + 0 = 0 OBVIOUS
  <2> QED BY <2>2, <2>3, <2>4
<1>5. M = Nat
  <2> HIDE DEF M
  <2>1. M \in SUBSET Nat BY DEF M
  <2> QED BY <1>3, <1>4, <2>1, NumberInduction
<1> QED BY <1>1, <1>2, <1>5

\* The bits of a byte, by their worth.
Units == <<128, 64, 32, 16, 8, 4, 2, 1>>

HasBits(n, o) == \A j \in 1 .. 8 : (n \div Units[j]) % 2 = o[j]

LEMMA DigitShifts ==
  \A p, b, n \in Nat : b <= 1 /\ n = 2 * p + b => n \div 2 = p /\ n % 2 = b
OBVIOUS

LEMMA HalvesOfHalves ==
  \A n \in Nat : /\ n \div 1 = n
                /\ n \div 4 = (n \div 2) \div 2 /\ n \div 8 = (n \div 4) \div 2
                /\ n \div 16 = (n \div 8) \div 2 /\ n \div 32 = (n \div 16) \div 2
                /\ n \div 64 = (n \div 32) \div 2 /\ n \div 128 = (n \div 64) \div 2
OBVIOUS

LEMMA BitAt == \A o \in BitStrings, i \in Nat : i \in 1 .. Len(o) => o[i] \in Bit
BY DEF BitStrings

\* The digits of o, and the numbers their beginnings spell.
Octet(f, o) == f[0] = 0 /\ \A i \in 1 .. 8 : o[i] \in Bit /\ f[i] = 2 * f[i - 1] + o[i]

LEMMA OctetDigits == \A f, o : Octet(f, o) => f[8] \in Byte /\ HasBits(f[8], o)
<1> TAKE f, o
<1> HAVE Octet(f, o)
<1>a. f[0] = 0 /\ \A i \in 1 .. 8 : o[i] \in Bit /\ f[i] = 2 * f[i - 1] + o[i] BY DEF Octet
<1>0. /\ f[0] = 0 /\ f[1] = 2 * f[0] + o[1] /\ f[2] = 2 * f[1] + o[2] /\ f[3] = 2 * f[2] + o[3]
      /\ f[4] = 2 * f[3] + o[4] /\ f[5] = 2 * f[4] + o[5] /\ f[6] = 2 * f[5] + o[6]
      /\ f[7] = 2 * f[6] + o[7] /\ f[8] = 2 * f[7] + o[8]
      /\ o[1] \in Nat /\ o[1] <= 1 /\ o[2] \in Nat /\ o[2] <= 1
      /\ o[3] \in Nat /\ o[3] <= 1 /\ o[4] \in Nat /\ o[4] <= 1
      /\ o[5] \in Nat /\ o[5] <= 1 /\ o[6] \in Nat /\ o[6] <= 1
      /\ o[7] \in Nat /\ o[7] <= 1 /\ o[8] \in Nat /\ o[8] <= 1
  BY <1>a DEF Bit
<1>1. f[1] \in Nat /\ f[1] <= 1 /\ f[1] = o[1] BY <1>0
<1>2. f[2] \in Nat /\ f[2] <= 3 BY <1>0, <1>1
<1>3. f[3] \in Nat /\ f[3] <= 7 BY <1>0, <1>2
<1>4. f[4] \in Nat /\ f[4] <= 15 BY <1>0, <1>3
<1>5. f[5] \in Nat /\ f[5] <= 31 BY <1>0, <1>4
<1>6. f[6] \in Nat /\ f[6] <= 63 BY <1>0, <1>5
<1>7. f[7] \in Nat /\ f[7] <= 127 BY <1>0, <1>6
<1>8. f[8] \in Nat /\ f[8] <= 255 BY <1>0, <1>7
<1>9. f[8] \div 2 = f[7] /\ f[8] % 2 = o[8]
  <2>1. f[8] = 2 * f[7] + o[8] /\ o[8] \in Nat /\ o[8] <= 1 BY Zenon, <1>0
  <2>2. f[7] \in Nat BY Zenon, <1>7
  <2> QED BY <2>1, <2>2
<1>10. f[7] \div 2 = f[6] /\ f[7] % 2 = o[7]
  <2>1. f[7] = 2 * f[6] + o[7] /\ o[7] \in Nat /\ o[7] <= 1 BY Zenon, <1>0
  <2>2. f[6] \in Nat BY Zenon, <1>6
  <2> QED BY <2>1, <2>2
<1>11. f[6] \div 2 = f[5] /\ f[6] % 2 = o[6]
  <2>1. f[6] = 2 * f[5] + o[6] /\ o[6] \in Nat /\ o[6] <= 1 BY Zenon, <1>0
  <2>2. f[5] \in Nat BY Zenon, <1>5
  <2> QED BY <2>1, <2>2
<1>12. f[5] \div 2 = f[4] /\ f[5] % 2 = o[5]
  <2>1. f[5] = 2 * f[4] + o[5] /\ o[5] \in Nat /\ o[5] <= 1 BY Zenon, <1>0
  <2>2. f[4] \in Nat BY Zenon, <1>4
  <2> QED BY <2>1, <2>2
<1>13. f[4] \div 2 = f[3] /\ f[4] % 2 = o[4]
  <2>1. f[4] = 2 * f[3] + o[4] /\ o[4] \in Nat /\ o[4] <= 1 BY Zenon, <1>0
  <2>2. f[3] \in Nat BY Zenon, <1>3
  <2> QED BY <2>1, <2>2
<1>14. f[3] \div 2 = f[2] /\ f[3] % 2 = o[3]
  <2>1. f[3] = 2 * f[2] + o[3] /\ o[3] \in Nat /\ o[3] <= 1 BY Zenon, <1>0
  <2>2. f[2] \in Nat BY Zenon, <1>2
  <2> QED BY <2>1, <2>2
<1>15. f[2] \div 2 = f[1] /\ f[2] % 2 = o[2]
  <2>1. f[2] = 2 * f[1] + o[2] /\ o[2] \in Nat /\ o[2] <= 1 BY Zenon, <1>0
  <2>2. f[1] \in Nat BY Zenon, <1>1
  <2>3. PICK p \in Nat, b \in Nat : p = f[1] /\ b = o[2] BY <2>1, <2>2
  <2>4. (2 * p + b) \div 2 = p /\ (2 * p + b) % 2 = b BY <2>1, <2>3
  <2> QED BY Zenon, <2>1, <2>3, <2>4
<1>16. f[1] % 2 = o[1] BY <1>0, <1>1
<1>17. /\ f[8] \div 1 = f[8]
       /\ f[8] \div 4 = (f[8] \div 2) \div 2 /\ f[8] \div 8 = (f[8] \div 4) \div 2
       /\ f[8] \div 16 = (f[8] \div 8) \div 2 /\ f[8] \div 32 = (f[8] \div 16) \div 2
       /\ f[8] \div 64 = (f[8] \div 32) \div 2 /\ f[8] \div 128 = (f[8] \div 64) \div 2
  BY <1>8, HalvesOfHalves
<1>18. f[8] \div 4 = f[6] BY <1>17, <1>9, <1>10
<1>19. f[8] \div 8 = f[5] BY <1>17, <1>18, <1>11
<1>20. f[8] \div 16 = f[4] BY <1>17, <1>19, <1>12
<1>21. f[8] \div 32 = f[3] BY <1>17, <1>20, <1>13
<1>22. f[8] \div 64 = f[2] BY <1>17, <1>21, <1>14
<1>23. f[8] \div 128 = f[1] BY <1>17, <1>22, <1>15
<1>24. f[8] \in Byte BY <1>8 DEF Byte
<1>25. HasBits(f[8], o)
  <2>1. /\ Units[1] = 128 /\ Units[2] = 64 /\ Units[3] = 32 /\ Units[4] = 16
        /\ Units[5] = 8 /\ Units[6] = 4 /\ Units[7] = 2 /\ Units[8] = 1
    BY DEF Units
  <2> SUFFICES ASSUME NEW j \in 1 .. 8 PROVE (f[8] \div Units[j]) % 2 = o[j] BY DEF HasBits
  <2>2. j = 1 \/ j = 2 \/ j = 3 \/ j = 4 \/ j = 5 \/ j = 6 \/ j = 7 \/ j = 8 OBVIOUS
  <2>3. /\ (f[8] \div 128) % 2 = o[1] /\ (f[8] \div 64) % 2 = o[2] /\ (f[8] \div 32) % 2 = o[3]
        /\ (f[8] \div 16) % 2 = o[4] /\ (f[8] \div 8) % 2 = o[5] /\ (f[8] \div 4) % 2 = o[6]
        /\ (f[8] \div 2) % 2 = o[7] /\ (f[8] \div 1) % 2 = o[8]
    BY Zenon, <1>9, <1>10, <1>11, <1>12, <1>13, <1>14, <1>15, <1>16, <1>17, <1>18, <1>19, <1>20, <1>21, <1>22, <1>23
  <2> QED BY <2>1, <2>2, <2>3
<1> QED BY <1>24, <1>25

LEMMA OctetHolds ==
  \A o \in BitStrings : Len(o) = 8 => Horner(0, 2, o) \in Byte /\ HasBits(Horner(0, 2, o), o)
<1> TAKE o \in BitStrings
<1> HAVE Len(o) = 8
<1>1. o \in Seq(Bit) BY DEF BitStrings
<1>2. PICK n \in Nat : n = Len(o) BY <1>1
<1>3. \A i \in 1 .. n : o[i] \in Bit
  <2>1. \A i \in 1 .. n : i \in Nat /\ i \in 1 .. Len(o) BY <1>2
  <2> QED BY Zenon, <2>1, BitAt
<1>4. PICK f : Evaluates(f, n, 0, 2, o) /\ Horner(0, 2, o) = f[n] BY <1>2, HornerEvaluates
<1>5. f = [i \in 0 .. n |-> IF i = 0 THEN 0 ELSE 2 * f[i - 1] + o[i]] BY <1>4 DEF Evaluates
<1>6. f[0] = 0 /\ \A i \in 1 .. n : f[i] = 2 * f[i - 1] + o[i] BY <1>5
<1>7. Octet(f, o) BY <1>2, <1>3, <1>6 DEF Octet
<1> QED BY <1>2, <1>4, <1>7, OctetDigits

\* 64 bits in eight bytes.
Packed(bits) == [b \in 1 .. 8 |-> Horner(0, 2, SubSeq(bits, 8 * b - 7, 8 * b))]

LEMMA PackedBits ==
  \A bits \in BitStrings : Len(bits) = 64 =>
    Packed(bits) \in Bytes /\ Len(Packed(bits)) = 8 /\ Bits(Packed(bits)) = bits
<1> TAKE bits \in BitStrings
<1> HAVE Len(bits) = 64
<1>1. bits \in Seq(Bit) BY DEF BitStrings
<1> DEFINE O(b) == SubSeq(bits, 8 * b - 7, 8 * b)
           bytes == Packed(bits)
<1>2. ASSUME NEW b \in 1 .. 8
      PROVE  O(b) \in BitStrings /\ Len(O(b)) = 8 /\ \A j \in 1 .. 8 : O(b)[j] = bits[8 * b - 8 + j]
  <2>1. PICK l \in Nat, h \in Nat : l = 8 * b - 7 /\ h = 8 * b /\ l >= 1 /\ h <= 64 /\ h - l + 1 = 8 OBVIOUS
  <2>2. SubSeq(bits, l, h) \in Seq(Bit) /\ Len(SubSeq(bits, l, h)) = 8
    <3>1. l <= h + 1 /\ h <= Len(bits) BY <2>1
    <3>2. ASSUME NEW i \in l .. h PROVE bits[i] \in Bit
      <4>1. i \in Nat /\ i \in 1 .. Len(bits) BY <2>1
      <4> QED BY Zenon, <4>1, BitAt
    <3>3. Len(SubSeq(bits, l, h)) = 8 BY <1>1, <2>1
    <3>4. SubSeq(bits, l, h) \in Seq(Bit) BY <1>1, <2>1, <3>1, <3>2
    <3> QED BY <3>3, <3>4
  <2>3. ASSUME NEW j \in 1 .. 8 PROVE SubSeq(bits, l, h)[j] = bits[8 * b - 8 + j]
    <3>1. l + j - 1 = 8 * b - 8 + j /\ j \in 1 .. h - l + 1 BY <2>1
    <3>2. SubSeq(bits, l, h)[j] = bits[l + j - 1] BY <1>1, <2>1, <3>1
    <3> QED BY <3>1, <3>2
  <2> QED BY <2>1, <2>2, <2>3 DEF BitStrings
<1>3. bytes = [b \in 1 .. 8 |-> Horner(0, 2, O(b))] BY Zenon DEF Packed
<1> HIDE DEF O, bytes
<1>4. \A b \in 1 .. 8 : bytes[b] = Horner(0, 2, O(b)) BY Zenon, <1>3
<1>5. \A b \in 1 .. 8 : bytes[b] \in Byte /\ HasBits(bytes[b], O(b)) BY Zenon, <1>2, <1>4, OctetHolds
<1>6. bytes \in Bytes /\ Len(bytes) = 8
  <2>1. bytes = [b \in 1 .. 8 |-> bytes[b]] BY Zenon, <1>3, <1>4
  <2> QED BY <1>5, <2>1 DEF Bytes
<1>7. Bits(bytes) = [i \in 1 .. 8 * Len(bytes) |-> (bytes[1 + (i - 1) \div 8] \div Units[1 + ((i - 1) % 8)]) % 2]
  BY Zenon DEF Bits, Units
<1> DEFINE V(i) == (bytes[1 + (i - 1) \div 8] \div Units[1 + ((i - 1) % 8)]) % 2
<1>8. ASSUME NEW i \in 1 .. 64 PROVE V(i) = bits[i]
  <2>1. PICK b \in 1 .. 8, j \in 1 .. 8 : b = 1 + (i - 1) \div 8 /\ j = 1 + ((i - 1) % 8) /\ 8 * b - 8 + j = i
    OBVIOUS
  <2>2. HasBits(bytes[b], O(b)) BY <1>5
  <2>3. (bytes[b] \div Units[j]) % 2 = O(b)[j] BY <2>2 DEF HasBits
  <2>4. O(b)[j] = bits[8 * b - 8 + j] BY <1>2
  <2> QED BY Zenon, <2>1, <2>3, <2>4
<1>9. 8 * Len(bytes) = 64 BY <1>6
<1>10. Bits(bytes) = [i \in 1 .. 64 |-> V(i)] BY Zenon, <1>7, <1>9
<1> HIDE DEF V
<1>11. Bits(bytes) = [i \in 1 .. 64 |-> bits[i]] BY Zenon, <1>8, <1>10
<1>12. bits = [i \in 1 .. 64 |-> bits[i]] BY <1>1
<1> QED BY Zenon, <1>6, <1>11, <1>12 DEF bytes

LEMMA ReversedBack == \A s \in Bytes : Reverse(Reverse(s)) = s
<1> TAKE s \in Bytes
<1> DEFINE r == Reverse(s)
           t == Reverse(r)
<1>1. /\ s \in Seq(Byte) /\ Len(s) \in Nat /\ r \in Seq(Byte) /\ Len(r) = Len(s)
      /\ \A i \in 1 .. Len(s) : r[i] = s[(Len(s) - i) + 1]
  BY DEF Bytes, Reverse
<1> HIDE DEF r
<1>2. t \in Seq(Byte) /\ Len(t) = Len(s) /\ \A i \in 1 .. Len(s) : t[i] = r[(Len(s) - i) + 1]
  BY <1>1 DEF Reverse
<1> HIDE DEF t
<1>3. ASSUME NEW i \in 1 .. Len(t) PROVE t[i] = s[i]
  <2>1. (Len(s) - i) + 1 \in 1 .. Len(s) /\ (Len(s) - ((Len(s) - i) + 1)) + 1 = i BY <1>1, <1>2
  <2> QED BY <1>1, <1>2, <2>1
<1>4. t = s BY <1>1, <1>2, <1>3, SeqEqual
<1> QED BY <1>4 DEF t, r

\* ReadDouble: eight bytes, the last of them first.
LEMMA DoubleReads ==
  \A bits \in BitStrings, rest \in Bytes : Len(bits) = 64 =>
    /\ Reverse(Packed(bits)) \in Bytes
    /\ ReadDouble(Reverse(Packed(bits)) \o rest) = Got(FloatFromBits(bits), rest)
<1> TAKE bits \in BitStrings, rest \in Bytes
<1> HAVE Len(bits) = 64
<1>1. Packed(bits) \in Bytes /\ Len(Packed(bits)) = 8 /\ Bits(Packed(bits)) = bits BY PackedBits
<1> DEFINE bytes == Reverse(Packed(bits))
<1>2. bytes \in Bytes /\ Len(bytes) = 8 BY <1>1, ReversedTwice
<1>3. Reverse(bytes) = Packed(bits) BY <1>1, ReversedBack
<1> HIDE DEF bytes
<1>4. Begins(bytes \o rest, bytes, 8, rest) BY <1>2 DEF Begins
<1> DEFINE r == ReadBytes(bytes \o rest, 8)
<1>5. r = Got(bytes, rest) BY <1>4, BytesRead
<1>6. ReadDouble(bytes \o rest) = IF r.ok THEN Got(FloatFromBits(Bits(Reverse(r.val))), r.rest) ELSE Panicked
  BY Zenon DEF ReadDouble, Convert, Bind
<1> HIDE DEF r
<1>7. r.ok /\ r.val = bytes /\ r.rest = rest BY <1>5, GotHas
<1>8. ReadDouble(bytes \o rest) = Got(FloatFromBits(bits), rest) BY Zenon, <1>1, <1>3, <1>6, <1>7
<1> QED BY <1>2, <1>8 DEF bytes

---------------------------------------------------------------------------
(* The bits of a double *)

LEMMA BitsAreInts == \A s \in BitStrings : s \in Seq(Int)
<1> TAKE s \in BitStrings
<1>1. s \in Seq(Bit) BY DEF BitStrings
<1>2. \A b \in Bit : b \in Int BY DEF Bit
<1> QED BY <1>1, <1>2

LEMMA BitsJoin ==
  \A a, b, c \in BitStrings :
    /\ a \o b \in BitStrings /\ Len(a \o b) = Len(a) + Len(b) /\ Len(a) \in Nat
    /\ (a \o b) \o c = a \o (b \o c)
<1> TAKE a, b, c \in BitStrings
<1>1. a \in Seq(Bit) /\ b \in Seq(Bit) /\ c \in Seq(Bit) BY DEF BitStrings
<1>2. a \o b \in Seq(Bit) /\ Len(a \o b) = Len(a) + Len(b) /\ Len(a) \in Nat BY <1>1
<1>3. (a \o b) \o c = a \o (b \o c) BY <1>1
<1> QED BY <1>2, <1>3 DEF BitStrings

\* A sign, an exponent and a fraction.
DoubleOf(s, x, y) == <<s>> \o (x \o y)

LEMMA BitsAt ==
  \A x, y \in BitStrings :
    /\ x \o y \in BitStrings /\ Len(x \o y) = Len(x) + Len(y) /\ Len(x) \in Nat /\ Len(y) \in Nat
    /\ \A i \in 1 .. Len(x) : (x \o y)[i] = x[i]
    /\ \A i \in 1 .. Len(y) : (x \o y)[Len(x) + i] = y[i]
BY DEF BitStrings

LEMMA BitsBetween ==
  \A bits \in BitStrings, z \in BitStrings : \A l, n \in Nat :
    l + n <= Len(bits) /\ Len(z) = n /\ (\A i \in 1 .. n : bits[l + i] = z[i]) => SubSeq(bits, l + 1, l + n) = z
<1> TAKE bits \in BitStrings, z \in BitStrings
<1> TAKE l, n \in Nat
<1> HAVE l + n <= Len(bits) /\ Len(z) = n /\ \A i \in 1 .. n : bits[l + i] = z[i]
<1>1. bits \in Seq(Bit) /\ z \in Seq(Bit) BY DEF BitStrings
<1> DEFINE x == SubSeq(bits, l + 1, l + n)
<1>2. Len(x) = n BY <1>1
<1>3. x \in Seq(Bit)
  <2>1. \A i \in l + 1 .. l + n : bits[i] \in Bit
    <3> TAKE i \in l + 1 .. l + n
    <3>1. i \in Nat /\ i \in 1 .. Len(bits) BY <1>1
    <3> QED BY Zenon, <3>1, BitAt
  <2> QED BY <1>1, <2>1
<1>4. \A i \in 1 .. n : x[i] = bits[l + i] BY <1>1
<1> HIDE DEF x
<1>5. \A i \in 1 .. Len(x) : x[i] = z[i] BY Zenon, <1>2, <1>4
<1>6. x = z BY <1>1, <1>2, <1>3, <1>5, SeqEqual
<1> QED BY <1>6 DEF x

Parts(bits, o, x, y, k, n, m) ==
  /\ bits \in BitStrings /\ Len(bits) = k + (n + m)
  /\ \A i \in 1 .. k : bits[i] = o[i]
  /\ SubSeq(bits, k + 1, k + n) = x
  /\ SubSeq(bits, (k + n) + 1, (k + n) + m) = y

LEMMA PartsAt ==
  \A o, x, y \in BitStrings : \A k, n, m \in Nat :
    Len(o) = k /\ Len(x) = n /\ Len(y) = m => Parts(o \o (x \o y), o, x, y, k, n, m)
<1> TAKE o, x, y \in BitStrings
<1> TAKE k, n, m \in Nat
<1> HAVE Len(o) = k /\ Len(x) = n /\ Len(y) = m
<1> DEFINE xy == x \o y
           bits == o \o xy
<1>1. /\ xy \in BitStrings /\ Len(xy) = n + m
      /\ \A i \in 1 .. n : xy[i] = x[i]
      /\ \A i \in 1 .. m : xy[n + i] = y[i]
  BY Zenon, BitsAt
<1> HIDE DEF xy
<1>2. /\ bits \in BitStrings /\ Len(bits) = Len(o) + Len(xy)
      /\ \A i \in 1 .. Len(o) : bits[i] = o[i]
      /\ \A i \in 1 .. Len(xy) : bits[Len(o) + i] = xy[i]
  BY Zenon, <1>1, BitsAt
<1> HIDE DEF bits
<1>3. Len(bits) = k + (n + m) BY Zenon, <1>1, <1>2
<1>4. SubSeq(bits, k + 1, k + n) = x
  <2>1. ASSUME NEW i \in 1 .. n PROVE bits[k + i] = x[i]
    <3>1. i \in 1 .. n + m OBVIOUS
    <3> QED BY Zenon, <3>1, <1>1, <1>2
  <2>2. k + n <= Len(bits) BY <1>3
  <2> QED BY Zenon, <1>2, <1>3, <2>1, <2>2, BitsBetween
<1>5. SubSeq(bits, (k + n) + 1, (k + n) + m) = y
  <2>1. ASSUME NEW i \in 1 .. m PROVE bits[(k + n) + i] = y[i]
    <3>1. n + i \in 1 .. n + m /\ (k + n) + i = k + (n + i) OBVIOUS
    <3> QED BY ZenonT(40), <3>1, <1>1, <1>2
  <2>2. (k + n) + m <= Len(bits) /\ k + n \in Nat BY <1>3
  <2> QED BY ZenonT(40), <1>2, <1>3, <2>1, <2>2, BitsBetween
<1>6. Parts(bits, o, x, y, k, n, m) BY Zenon, <1>2, <1>3, <1>4, <1>5 DEF Parts
<1> QED BY Zenon, <1>6 DEF bits, xy

DoubleIs(bits, s, x, y) ==
  /\ bits \in BitStrings /\ Len(bits) = 64 /\ bits[1] = s
  /\ SubSeq(bits, 2, 12) = x /\ SubSeq(bits, 13, 64) = y

LEMMA DoubleParts ==
  \A s \in Bit, x, y \in BitStrings : Len(x) = 11 /\ Len(y) = 52 => DoubleIs(DoubleOf(s, x, y), s, x, y)
<1> TAKE s \in Bit, x, y \in BitStrings
<1>1. PICK k, n, m \in Nat : k = 1 /\ n = 11 /\ m = 52 OBVIOUS
<1>2. k + (n + m) = 64 /\ k + 1 = 2 /\ k + n = 12 /\ (k + n) + 1 = 13 /\ (k + n) + m = 64 BY <1>1
<1>3. <<s>> \in BitStrings BY DEF BitStrings
<1>4. Len(<<s>>) = k /\ <<s>>[1] = s /\ 1 \in 1 .. k BY <1>1
<1> HAVE Len(x) = 11 /\ Len(y) = 52
<1>5. Len(x) = n /\ Len(y) = m BY Zenon, <1>1
<1> DEFINE bits == <<s>> \o (x \o y)
<1>0. Parts(bits, <<s>>, x, y, k, n, m)
  <2>1. PICK o \in BitStrings : o = <<s>> BY <1>3
  <2>2. Len(o) = k BY Zenon, <1>4, <2>1
  <2>3. Parts(o \o (x \o y), o, x, y, k, n, m) BY Zenon, <2>2, <1>5, PartsAt
  <2> QED BY Zenon, <2>1, <2>3
<1>6. /\ bits \in BitStrings /\ Len(bits) = k + (n + m)
      /\ \A i \in 1 .. k : bits[i] = <<s>>[i]
      /\ SubSeq(bits, k + 1, k + n) = x
      /\ SubSeq(bits, (k + n) + 1, (k + n) + m) = y
  BY Zenon, <1>0 DEF Parts
<1> HIDE DEF bits
<1>7. bits \in BitStrings /\ Len(bits) = 64 /\ bits[1] = s BY Zenon, <1>2, <1>4, <1>6
<1>8. SubSeq(bits, 2, 12) = x
  <2>1. SubSeq(bits, k + 1, k + n) = x BY Zenon, <1>6
  <2>2. k + 1 = 2 /\ k + n = 12 BY Zenon, <1>2
  <2> QED BY Zenon, <2>1, <2>2
<1>9. SubSeq(bits, 13, 64) = y
  <2>1. SubSeq(bits, (k + n) + 1, (k + n) + m) = y BY Zenon, <1>6
  <2>2. (k + n) + 1 = 13 /\ (k + n) + m = 64 BY Zenon, <1>2
  <2> QED BY Zenon, <2>1, <2>2
<1>10. DoubleOf(s, x, y) = bits BY Zenon DEF bits, DoubleOf
<1>11. DoubleIs(bits, s, x, y) BY Zenon, <1>7, <1>8, <1>9 DEF DoubleIs
<1> QED BY Zenon, <1>10, <1>11

Magnitude(e, fraction) == IF e < 0 THEN 0 ELSE Horner(1, 2, SubSeq(fraction, 1, e))

DoubleText(e, fraction, sign) ==
  CASE e = 1024 /\ 1 \in ToSet(fraction)    -> NaN
    [] e = 1024 /\ 1 \notin ToSet(fraction) -> Inf(IF sign = 1 THEN 45 ELSE 43)
    [] OTHER -> Float(IF sign = 1 THEN -Magnitude(e, fraction) ELSE Magnitude(e, fraction))

ExponentOf(x) == Horner(0, 2, x) - 1023

LEMMA FloatFromBitsIs ==
  \A bits : FloatFromBits(bits) =
    DoubleText(ExponentOf(SubSeq(bits, 2, 12)), SubSeq(bits, 13, 64), bits[1])
BY Zenon DEF FloatFromBits, DoubleText, Magnitude, ExponentOf

IsFinite(e) == e # 1024

LEMMA DoubleTextIs ==
  \A e, fraction, sign : IsFinite(e) =>
    DoubleText(e, fraction, sign) =
      Float(IF sign = 1 THEN -Magnitude(e, fraction) ELSE Magnitude(e, fraction))
BY DEF DoubleText, IsFinite

BitsOf(v) ==
  LET digits == Binary(IF v < 0 THEN -v ELSE v)
      exponent == Binary(Len(digits) + 1022)
  IN IF v = 0 THEN Zeros(64)
     ELSE <<IF v < 0 THEN 1 ELSE 0>> \o Zeros(11 - Len(exponent)) \o exponent
            \o Tail(digits) \o Zeros(53 - Len(digits))

LEMMA DoubleBytesIs == \A v : DoubleBytes(v) = Reverse(Packed(BitsOf(v)))
BY Zenon DEF DoubleBytes, BitsOf, Packed

LEMMA ZerosAre ==
  \A n \in Nat : /\ Zeros(n) \in BitStrings /\ Len(Zeros(n)) = n /\ \A i \in 1 .. n : Zeros(n)[i] = 0
<1> TAKE n \in Nat
<1>1. 0 \in Bit BY DEF Bit
<1> QED BY <1>1 DEF Zeros, BitStrings

LEMMA NoughtFromBits ==
  /\ BitsOf(0) \in BitStrings /\ Len(BitsOf(0)) = 64
  /\ FloatFromBits(BitsOf(0)) = Float(0)
<1> DEFINE bits == BitsOf(0)
<1>1. bits = Zeros(64) BY Zenon DEF BitsOf
<1> HIDE DEF bits
<1>2. bits \in BitStrings /\ Len(bits) = 64 /\ \A i \in 1 .. 64 : bits[i] = 0
  <2>1. PICK n \in Nat : n = 64 OBVIOUS
  <2>2. bits \in BitStrings /\ Len(bits) = n /\ \A i \in 1 .. n : bits[i] = 0 BY Zenon, <1>1, <2>1, ZerosAre
  <2> QED BY Zenon, <2>1, <2>2
<1> DEFINE x == SubSeq(bits, 2, 12)
<1>4. x = Zeros(11)
  <2>1. PICK l, n \in Nat : l = 1 /\ n = 11 /\ l + 1 = 2 /\ l + n = 12 OBVIOUS
  <2>2. Zeros(n) \in BitStrings /\ Len(Zeros(n)) = n /\ \A i \in 1 .. n : Zeros(n)[i] = 0 BY ZerosAre
  <2>3. \A i \in 1 .. n : bits[l + i] = Zeros(n)[i]
    <3> TAKE i \in 1 .. n
    <3>1. l + i \in 1 .. 64 BY <2>1
    <3>2. bits[l + i] = 0 BY Zenon, <3>1, <1>2
    <3>3. Zeros(n)[i] = 0 BY Zenon, <2>2
    <3> QED BY Zenon, <3>2, <3>3
  <2>4. l + n <= Len(bits) BY <1>2, <2>1
  <2>5. SubSeq(bits, l + 1, l + n) = Zeros(n)
    <3>1. PICK z \in BitStrings : z = Zeros(n) BY <2>2
    <3>2. Len(z) = n /\ \A i \in 1 .. n : bits[l + i] = z[i] BY Zenon, <2>2, <2>3, <3>1
    <3>3. bits \in BitStrings BY Zenon, <1>2
    <3>4. SubSeq(bits, l + 1, l + n) = z BY Zenon, <2>4, <3>2, <3>3, BitsBetween
    <3> QED BY Zenon, <3>1, <3>4
  <2> QED BY Zenon, <2>1, <2>5
<1> HIDE DEF x
<1>6. x \in Seq(Int) /\ \A i \in 1 .. Len(x) : x[i] = 0
  <2>1. PICK n \in Nat : n = 11 OBVIOUS
  <2>2. Zeros(n) \in BitStrings /\ Len(Zeros(n)) = n /\ \A i \in 1 .. n : Zeros(n)[i] = 0 BY ZerosAre
  <2> QED BY Zenon, <1>4, <2>1, <2>2, BitsAreInts
<1>7. Horner(0, 2, x) = 0
  <2>1. PICK two \in Int : two = 2 OBVIOUS
  <2> QED BY Zenon, <2>1, <1>4, <1>6, HornerOfZeros
<1>8. bits[1] = 0
  <2>1. 1 \in 1 .. 64 OBVIOUS
  <2> QED BY Zenon, <1>2, <2>1
<1>9. PICK e : e = ExponentOf(x) /\ e < 0 /\ IsFinite(e) BY <1>7 DEF ExponentOf, IsFinite
<1>10. FloatFromBits(bits) = DoubleText(e, SubSeq(bits, 13, 64), 0) BY Zenon, <1>8, <1>9, FloatFromBitsIs DEF x
<1>11. DoubleText(e, SubSeq(bits, 13, 64), 0) = Float(0)
  <2>1. Magnitude(e, SubSeq(bits, 13, 64)) = 0 BY Zenon, <1>9 DEF Magnitude
  <2>2. 0 # 1 OBVIOUS
  <2> QED BY Zenon, <1>9, <2>1, <2>2, DoubleTextIs
<1> QED BY Zenon, <1>2, <1>10, <1>11 DEF bits

\* The exponent of a number: eleven bits, whose first may be a zero.
ExponentBits(e) == Zeros(11 - Len(e)) \o e

LEMMA ExponentIs ==
  \A m \in Nat : \A e : Spells(e, m) /\ (Len(e) = 10 \/ Len(e) = 11) =>
    /\ e \in BitStrings /\ Zeros(11 - Len(e)) \in BitStrings
    /\ ExponentBits(e) \in BitStrings /\ Len(ExponentBits(e)) = 11
    /\ Horner(0, 2, ExponentBits(e)) = m
<1> TAKE m \in Nat
<1> TAKE e
<1> HAVE Spells(e, m) /\ (Len(e) = 10 \/ Len(e) = 11)
<1>3. e \in BitStrings /\ Horner(0, 2, e) = m BY DEF Spells, BitStrings
<1>5. CASE Len(e) = 11
  <2>1. 11 - Len(e) = 0 BY <1>5
  <2>2. Zeros(0) = <<>> BY DEF Zeros
  <2>3. <<>> \o e = e BY <1>3 DEF BitStrings
  <2>4. <<>> \in BitStrings BY DEF BitStrings
  <2>6. Zeros(11 - Len(e)) = <<>> BY Zenon, <2>1, <2>2
  <2>7. ExponentBits(e) = e BY Zenon, <2>3, <2>6 DEF ExponentBits
  <2> QED BY Zenon, <1>3, <1>5, <2>4, <2>6, <2>7
<1>6. CASE Len(e) = 10
  <2>1. 11 - Len(e) = 1 BY <1>6
  <2>2. Zeros(1) = <<0>> BY DEF Zeros
  <2>3. 0 \in Bit BY DEF Bit
  <2>4. <<0>> \in BitStrings BY <2>3 DEF BitStrings
  <2>6. Zeros(11 - Len(e)) = <<0>> BY Zenon, <2>1, <2>2
  <2>7. <<0>> \o e \in BitStrings /\ Len(<<0>> \o e) = Len(<<0>>) + Len(e)
    <3>1. PICK o \in BitStrings : o = <<0>> BY <2>4
    <3>2. o \o e \in BitStrings /\ Len(o \o e) = Len(o) + Len(e) BY Zenon, <1>3, BitsAt
    <3> QED BY Zenon, <3>1, <3>2
  <2>8. Len(<<0>>) + Len(e) = 11
    <3>1. Len(<<0>>) = 1 OBVIOUS
    <3>2. 1 + 10 = 11 OBVIOUS
    <3> QED BY Zenon, <1>6, <3>1, <3>2
  <2>9. Horner(0, 2, <<0>> \o e) = Horner(2 * 0 + 0, 2, e)
    <3>1. e \in Seq(Int) BY <1>3, BitsAreInts
    <3>2. PICK z, t \in Int : z = 0 /\ t = 2 OBVIOUS
    <3>3. Horner(z, t, <<z>> \o e) = Horner(t * z + z, t, e) BY <3>1, HornerShifts
    <3> QED BY Zenon, <3>2, <3>3
  <2>10. 2 * 0 + 0 = 0 OBVIOUS
  <2>11. ExponentBits(e) = <<0>> \o e BY Zenon, <2>6 DEF ExponentBits
  <2> QED BY Zenon, <1>3, <2>4, <2>6, <2>7, <2>8, <2>9, <2>10, <2>11
<1> QED BY <1>5, <1>6

\* The fraction of a number: its digits after the first, and zeros.
FractionBits(d) == Tail(d) \o Zeros(53 - Len(d))

LEMMA FractionIs ==
  \A n \in Nat : \A d : Spells(d, n) /\ Len(d) <= 32 =>
    /\ Tail(d) \in BitStrings /\ Zeros(53 - Len(d)) \in BitStrings
    /\ FractionBits(d) \in BitStrings /\ Len(FractionBits(d)) = 52
    /\ Magnitude(Len(d) - 1, FractionBits(d)) = n
<1> TAKE n \in Nat
<1> TAKE d
<1> HAVE Spells(d, n) /\ Len(d) <= 32
<1>0. PICK l : l = Len(d) OBVIOUS
<1>1. d \in Seq(Bit) /\ d # <<>> /\ d[1] = 1 /\ Horner(0, 2, d) = n BY DEF Spells
<1>2. l \in Nat /\ l >= 1 /\ l <= 32 /\ l - 1 \in Nat
  <2>1. l \in Nat BY <1>0, <1>1
  <2>2. l # 0 BY <1>0, <1>1
  <2>3. l <= 32 BY Zenon, <1>0
  <2> QED BY <2>1, <2>2, <2>3
<1> DEFINE t == Tail(d)
           z == Zeros(53 - l)
<1>3. t \in Seq(Bit) /\ Len(t) = l - 1 BY <1>0, <1>1
<1>4. PICK m \in Nat : m = 53 - l BY <1>2
<1>5. z \in BitStrings /\ Len(z) = 53 - l BY Zenon, <1>4, ZerosAre
<1>6. d = <<1>> \o t BY <1>1
<1> HIDE DEF t, z
<1>7. t \o z \in BitStrings /\ Len(t \o z) = Len(t) + Len(z) BY Zenon, <1>3, <1>5, BitsAt DEF BitStrings
<1>8. Len(t) + Len(z) = 52 BY <1>2, <1>3, <1>5
<1>9. SubSeq(t \o z, 1, l - 1) = t
  <2>1. z \in Seq(Bit) BY <1>5 DEF BitStrings
  <2>2. SubSeq(t \o z, 1, Len(t)) = t BY <1>3, <2>1
  <2> QED BY Zenon, <1>3, <2>2
<1>10. Horner(1, 2, t) = n
  <2>1. t \in Seq(Int) BY <1>3, BitsAreInts DEF BitStrings
  <2>2. Horner(0, 2, <<1>> \o t) = Horner(2 * 0 + 1, 2, t)
    <3>1. PICK o, u, w \in Int : o = 0 /\ u = 1 /\ w = 2 OBVIOUS
    <3>2. Horner(o, w, <<u>> \o t) = Horner(w * o + u, w, t) BY <2>1, HornerShifts
    <3> QED BY Zenon, <3>1, <3>2
  <2>3. 2 * 0 + 1 = 1 OBVIOUS
  <2> QED BY Zenon, <1>1, <1>6, <2>2, <2>3
<1>11. ~(l - 1 < 0) BY <1>2
<1>12. Magnitude(l - 1, t \o z) = n BY Zenon, <1>9, <1>10, <1>11 DEF Magnitude
<1>13. t \in BitStrings BY <1>3 DEF BitStrings
<1>14. FractionBits(d) = t \o z BY Zenon, <1>0 DEF FractionBits, t, z
<1> QED BY Zenon, <1>0, <1>5, <1>7, <1>8, <1>12, <1>13, <1>14 DEF t, z

LEMMA BitsAssociate == \A a, b, c \in BitStrings : Associates(a, b, c)
<1> TAKE a, b, c \in BitStrings
<1>1. (a \o b) \o c = a \o (b \o c) BY ZenonT(40), BitsJoin
<1> QED BY Zenon, <1>1 DEF Associates

AssociatesFive(a, b, c, d, e) == a \o b \o c \o d \o e = a \o ((b \o c) \o (d \o e))

LEMMA DoubleAssociates == \A a, b, c, d, e \in BitStrings : AssociatesFive(a, b, c, d, e)
<1> TAKE a, b, c, d, e \in BitStrings
<1>1. a \o b \o c = a \o (b \o c) BY ZenonT(40), BitsAssociate DEF Associates
<1> DEFINE x == b \o c
           y == a \o x
           z == d \o e
<1>2. x \in BitStrings /\ z \in BitStrings BY BitsAt
<1> HIDE DEF x, z
<1>3. y \in BitStrings BY <1>2, BitsAt
<1>4. Associates(a, x, z) BY Zenon, <1>2, BitsAssociate
<1> HIDE DEF y
<1>5. Associates(y, d, e) BY Zenon, <1>3, BitsAssociate
<1>6. (y \o d) \o e = y \o z BY Zenon, <1>5 DEF Associates, z
<1>7. y \o z = a \o (x \o z) BY Zenon, <1>4 DEF Associates, y
<1>8. a \o b \o c = y BY Zenon, <1>1 DEF x, y
<1>9. a \o b \o c \o d \o e = a \o (x \o z) BY Zenon, <1>6, <1>7, <1>8
<1> QED BY Zenon, <1>9 DEF AssociatesFive, x, z

\* A sign, an exponent of eleven bits and a fraction of 52 are read back.
LEMMA DoubleTextOf ==
  \A s \in Bit, x, y \in BitStrings : Len(x) = 11 /\ Len(y) = 52 =>
    /\ DoubleOf(s, x, y) \in BitStrings /\ Len(DoubleOf(s, x, y)) = 64
    /\ FloatFromBits(DoubleOf(s, x, y)) = DoubleText(ExponentOf(x), y, s)
<1> TAKE s \in Bit, x, y \in BitStrings
<1> HAVE Len(x) = 11 /\ Len(y) = 52
<1> DEFINE bits == DoubleOf(s, x, y)
<1>0. DoubleIs(bits, s, x, y) BY Zenon, DoubleParts
<1> HIDE DEF bits
<1>1. /\ bits \in BitStrings /\ Len(bits) = 64 /\ bits[1] = s
      /\ SubSeq(bits, 2, 12) = x /\ SubSeq(bits, 13, 64) = y
  BY Zenon, <1>0 DEF DoubleIs
<1>2. FloatFromBits(bits) = DoubleText(ExponentOf(x), y, s) BY Zenon, <1>1, FloatFromBitsIs
<1> QED BY Zenon, <1>1, <1>2 DEF bits

\* The digits of a number of 32 bits and those of its exponent.
Digital(n, d, e) ==
  /\ n \in Nat /\ Spells(d, n) /\ Len(d) \in 1 .. 32
  /\ Spells(e, Len(d) + 1022) /\ (Len(e) = 10 \/ Len(e) = 11)

LEMMA DigitalIs ==
  \A n \in Nat : n > 0 /\ n <= Greatest(32) + 1 => Digital(n, Binary(n), Binary(Len(Binary(n)) + 1022))
<1> TAKE n \in Nat
<1> HAVE n > 0 /\ n <= Greatest(32) + 1
<1>1. PICK d : d = Binary(n) OBVIOUS
<1>2. Spells(d, n) BY Zenon, <1>1, BinarySpells
<1>3. PICK l : l = Len(d) OBVIOUS
<1>4. l <= 32 BY Zenon, <1>1, <1>3, WordDigits
<1>5. l \in Nat /\ l # 0 BY <1>2, <1>3 DEF Spells
<1>6. l \in 1 .. 32 BY <1>4, <1>5
<1>7. PICK m \in Nat : m = l + 1022 /\ m > 0 /\ ((1023 <= m /\ m <= 1023) \/ (1024 <= m /\ m <= 1060)) BY <1>6
<1>8. PICK e : e = Binary(m) OBVIOUS
<1>9. Spells(e, m) BY <1>7, <1>8, BinarySpells
<1>10. Len(Binary(m)) = 10 \/ Len(Binary(m)) = 11 BY <1>7, ExponentDigits DEF Digits
<1>11. Digital(n, d, e)
  <2>1. Spells(e, Len(d) + 1022) BY <1>3, <1>7, <1>9
  <2>2. Len(e) = 10 \/ Len(e) = 11 BY Zenon, <1>8, <1>10
  <2>3. Len(d) \in 1 .. 32 BY Zenon, <1>3, <1>6
  <2> QED BY <1>2, <2>1, <2>2, <2>3 DEF Digital
<1> QED BY <1>1, <1>3, <1>7, <1>8, <1>11

BitsWith(s, d, e) == <<s>> \o Zeros(11 - Len(e)) \o e \o Tail(d) \o Zeros(53 - Len(d))

IsDouble(bits, v) == bits \in BitStrings /\ Len(bits) = 64 /\ FloatFromBits(bits) = Float(v)

LEMMA DigitalReads ==
  \A n, d, e : \A s \in Bit : Digital(n, d, e) => IsDouble(BitsWith(s, d, e), IF s = 1 THEN -n ELSE n)
<1> TAKE n, d, e
<1> TAKE s \in Bit
<1> HAVE Digital(n, d, e)
<1> DEFINE x == ExponentBits(e)
           y == FractionBits(d)
           b == <<s>> \o Zeros(11 - Len(e)) \o e \o Tail(d) \o Zeros(53 - Len(d))
<1>1. PICK l : l = Len(d) OBVIOUS
<1>2. /\ n \in Nat /\ Spells(d, n) /\ l \in 1 .. 32
      /\ Spells(e, l + 1022) /\ (Len(e) = 10 \/ Len(e) = 11)
  BY Zenon, <1>1 DEF Digital
<1>3. PICK m \in Nat : m = l + 1022 BY <1>2
<1>4. l <= 32 BY <1>2
<1>5. /\ e \in BitStrings /\ Zeros(11 - Len(e)) \in BitStrings
      /\ x \in BitStrings /\ Len(x) = 11 /\ Horner(0, 2, x) = m
  <2>1. Spells(e, m) BY <1>2, <1>3
  <2>2. Len(e) = 10 \/ Len(e) = 11 BY <1>2
  <2> QED BY <2>1, <2>2, ExponentIs
<1>6. /\ Tail(d) \in BitStrings /\ Zeros(53 - Len(d)) \in BitStrings
      /\ y \in BitStrings /\ Len(y) = 52 /\ Magnitude(Len(d) - 1, y) = n
  <2>1. Spells(d, n) /\ n \in Nat /\ Len(d) <= 32 BY <1>1, <1>2, <1>4
  <2> QED BY <2>1, FractionIs
<1> HIDE DEF x, y
<1>7. b = DoubleOf(s, x, y)
  <2>1. PICK o \in BitStrings : o = <<s>>
    <3>1. <<s>> \in BitStrings BY DEF BitStrings
    <3> QED BY <3>1
  <2>2. o \o Zeros(11 - Len(e)) \o e \o Tail(d) \o Zeros(53 - Len(d))
          = o \o ((Zeros(11 - Len(e)) \o e) \o (Tail(d) \o Zeros(53 - Len(d))))
    <3>1. PICK p \in BitStrings : p = Zeros(11 - Len(e)) BY <1>5
    <3>2. PICK q \in BitStrings : q = Tail(d) BY <1>6
    <3>3. PICK r \in BitStrings : r = Zeros(53 - Len(d)) BY <1>6
    <3>4. e \in BitStrings BY <1>5
    <3>6. AssociatesFive(o, p, e, q, r) BY Zenon, <2>1, <3>1, <3>2, <3>3, <3>4, DoubleAssociates
    <3>5. o \o p \o e \o q \o r = o \o ((p \o e) \o (q \o r)) BY Zenon, <3>6 DEF AssociatesFive
    <3> QED BY Zenon, <3>1, <3>2, <3>3, <3>5
  <2> QED BY Zenon, <2>1, <2>2 DEF DoubleOf, x, y, ExponentBits, FractionBits
<1> HIDE DEF b
<1>8. b \in BitStrings /\ Len(b) = 64 /\ FloatFromBits(b) = DoubleText(ExponentOf(x), y, s)
  <2>1. x \in BitStrings /\ Len(x) = 11 /\ y \in BitStrings /\ Len(y) = 52 BY Zenon, <1>5, <1>6
  <2>2. /\ DoubleOf(s, x, y) \in BitStrings /\ Len(DoubleOf(s, x, y)) = 64
        /\ FloatFromBits(DoubleOf(s, x, y)) = DoubleText(ExponentOf(x), y, s)
    BY Zenon, <2>1, DoubleTextOf
  <2> QED BY Zenon, <1>7, <2>2
<1>9. ExponentOf(x) = Len(d) - 1
  <2>1. ExponentOf(x) = m - 1023 BY Zenon, <1>5 DEF ExponentOf
  <2>2. m - 1023 = l - 1 BY <1>2, <1>3
  <2> QED BY ZenonT(40), <1>1, <2>1, <2>2
<1>10. PICK k : k = Len(d) - 1 OBVIOUS
<1>11. IsFinite(k)
  <2>1. k = l - 1 BY Zenon, <1>1, <1>10
  <2>2. l - 1 # 1024 BY <1>2
  <2> QED BY Zenon, <2>1, <2>2 DEF IsFinite
<1>12. FloatFromBits(b) = DoubleText(k, y, s) BY Zenon, <1>8, <1>9, <1>10
<1>13. Magnitude(k, y) = n BY Zenon, <1>6, <1>10
<1>14. DoubleText(k, y, s) = Float(IF s = 1 THEN -Magnitude(k, y) ELSE Magnitude(k, y)) BY Zenon, <1>11, DoubleTextIs
<1>15. FloatFromBits(b) = Float(IF s = 1 THEN -n ELSE n) BY Zenon, <1>12, <1>13, <1>14
<1>16. b = BitsWith(s, d, e) BY Zenon DEF b, BitsWith
<1> QED BY Zenon, <1>8, <1>15, <1>16 DEF IsDouble

NonzeroBits(s, n) == BitsWith(s, Binary(n), Binary(Len(Binary(n)) + 1022))

\* An integer of 32 bits as a double.
LEMMA DoubleFromBits ==
  \A v \in Int : Fits(v, 32) => IsDouble(BitsOf(v), v)
<1> TAKE v \in Int
<1> HAVE Fits(v, 32)
<1>1. CASE v = 0 BY Zenon, <1>1, NoughtFromBits DEF IsDouble
<1>2. CASE v # 0
  <2>1. PICK n \in Nat, s \in Bit :
          n = (IF v < 0 THEN -v ELSE v) /\ s = (IF v < 0 THEN 1 ELSE 0) /\ v = (IF s = 1 THEN -n ELSE n) /\ n > 0
    BY <1>2 DEF Bit
  <2>2. n <= Greatest(32) + 1
    <3>1. -Greatest(32) - 1 <= v /\ v <= Greatest(32) BY DEF Fits
    <3>2. Greatest(32) \in Int BY DEF Greatest
    <3> QED BY <2>1, <3>1, <3>2
  <2> DEFINE d == Binary(n)
             e == Binary(Len(d) + 1022)
             bits == BitsWith(s, d, e)
  <2>3. Digital(n, d, e) BY <2>1, <2>2, DigitalIs
  <2>4. BitsOf(v) = bits
    <3>1. BitsOf(v) = IF v = 0 THEN Zeros(64) ELSE NonzeroBits(IF v < 0 THEN 1 ELSE 0, IF v < 0 THEN -v ELSE v)
      BY Zenon DEF BitsOf, NonzeroBits, BitsWith
    <3>2. n = (IF v < 0 THEN -v ELSE v) BY Zenon, <2>1
    <3>3. s = (IF v < 0 THEN 1 ELSE 0) BY Zenon, <2>1
    <3>4. BitsOf(v) = NonzeroBits(s, n) BY Zenon, <1>2, <3>1, <3>2, <3>3
    <3> QED BY Zenon, <3>4 DEF NonzeroBits, d, e
  <2> HIDE DEF d, e
  <2>5. s \in Bit BY <2>1
  <2>6. IsDouble(bits, IF s = 1 THEN -n ELSE n)
    BY Zenon, <2>3, <2>5, DigitalReads
  <2> HIDE DEF bits
  <2> QED BY Zenon, <2>1, <2>4, <2>6
<1> QED BY <1>1, <1>2

LEMMA DoubleScoresRead == ScoresRead("doubles")
<1>1. ASSUME NEW s \in Storable, IsNumber(s) PROVE IsSecond("doubles", ScoreBytes("doubles", s), Float(ParseInt(s)))
  <2>1. PICK v \in Int : v = ParseInt(s) /\ Fits(v, 32) BY <1>1, StoredNumber
  <2> DEFINE bits == BitsOf(v)
             bytes == Reverse(Packed(bits))
  <2>2. bits \in BitStrings /\ Len(bits) = 64 /\ FloatFromBits(bits) = Float(v) BY Zenon, <2>1, DoubleFromBits DEF IsDouble
  <2> HIDE DEF bits
  <2>3. bytes \in Bytes
    <3>1. <<>> \in Bytes BY DEF Bytes
    <3> QED BY Zenon, <2>2, <3>1, DoubleReads
  <2>4. \A rest \in Bytes : ReadDouble(bytes \o rest) = Got(Float(v), rest) BY Zenon, <2>2, DoubleReads
  <2>5. ScoreBytes("doubles", s) = bytes
    <3>1. ScoreBytes("doubles", s) = DoubleBytes(v) BY <2>1 DEF ScoreBytes
    <3> QED BY Zenon, <3>1, DoubleBytesIs DEF bits
  <2>6. \A rd : SecondOf("doubles", rd) = ReadDouble(rd) BY DEF SecondOf
  <2> HIDE DEF bytes
  <2>7. IsSecond("doubles", bytes, Float(v)) BY Zenon, <2>3, <2>4, <2>6 DEF IsSecond
  <2> QED BY Zenon, <2>1, <2>5, <2>7
<1> QED BY Zenon, <1>1 DEF ScoresRead

LEMMA DoubleSetRestores == \A list : Stocked(list) /\ HasScores(list) => Restores(5, list)
BY Zenon, DoubleScoresRead, Zset2Restores

---------------------------------------------------------------------------
(* Every value the walk reaches *)

\* A string that begins with a letter, or does not begin, is not an integer.
LEMMA LettersAreNoNumber ==
  \A s \in Bytes : (s = <<>> \/ s[1] >= 65) => ~IsNumber(s)
<1> TAKE s \in Bytes
<1> HAVE s = <<>> \/ s[1] >= 65
<1>1. CASE s = <<>> BY <1>1 DEF IsNumber, IsInteger
<1>2. CASE s # <<>> /\ s[1] >= 65
  <2>1. s \in Seq(Byte) /\ 1 \in DOMAIN s BY <1>2 DEF Bytes
  <2>2. Head(s) = s[1] /\ Head(s) \notin {43, 45} /\ s[1] \notin 48 .. 57 BY <1>2, <2>1
  <2> QED BY <2>1, <2>2 DEF IsNumber, IsInteger
<1> QED BY <1>1, <1>2

LEMMA NumbersAreStorable == \A v \in Numbers : FormatInt(v) \in Storable
<1> TAKE v \in Numbers
<1>1. v \in Int /\ Fits(v, 32) BY SMT DEF Numbers, Fits, Greatest
<1>2. ParseInt(FormatInt(v)) = v BY <1>1, FormatIntParses
<1>3. FormatInt(v) \in Moderate BY NumbersAreModerate
<1> QED BY Zenon, <1>1, <1>2, <1>3 DEF Storable

LEMMA TextsAreStorable == \A n \in Lengths \cup LongLengths : Text(n) \in Storable
<1> TAKE n \in Lengths \cup LongLengths
<1>1. n \in Nat BY LengthsAssumption
<1>2. Text(n) \in Moderate BY TextsAreModerate
<1>3. Text(n) \in Bytes BY <1>2 DEF Moderate
<1>4. Text(n) = <<>> \/ Text(n)[1] >= 65
  <2>1. CASE n = 0
    <3>1. Text(0) = <<>> BY DEF Text
    <3> QED BY <2>1, <3>1
  <2>2. CASE n # 0
    <3>1. 1 \in 1 .. n BY <1>1, <2>2
    <3>2. Text(n)[1] = 65 BY <3>1 DEF Text
    <3> QED BY <3>2
  <2> QED BY <2>1, <2>2
<1>5. ~IsNumber(Text(n)) BY <1>3, <1>4, LettersAreNoNumber
<1> QED BY Zenon, <1>2, <1>5 DEF Storable

LEMMA RepeatsAreStorable == \A r \in Repeats : Repeated(r[1], r[2]) \in Storable
<1> TAKE r \in Repeats
<1>1. PICK period \in Nat, n \in Nat : r[1] = period /\ r[2] = n /\ period > 0 /\ n > 0
  BY SMT DEF Repeats
<1>2. PICK s : s = Repeated(period, n) OBVIOUS
<1>3. s \in Moderate BY Zenon, <1>1, <1>2, RepeatsAreModerate
<1>4. s \in Bytes BY <1>3 DEF Moderate
<1>5. s[1] >= 65
  <2>1. 1 \in 1 .. n BY <1>1
  <2>2. s[1] = 97 + (((1 - 1) % period) % 149) BY <1>2, <2>1 DEF Repeated
  <2>3. PICK p \in Nat : p = (1 - 1) % period BY <1>1
  <2>4. 97 + (p % 149) >= 65 OBVIOUS
  <2> QED BY Zenon, <2>2, <2>3, <2>4
<1>6. ~IsNumber(s) BY <1>4, <1>5, LettersAreNoNumber
<1>7. s \in Storable BY Zenon, <1>3, <1>6 DEF Storable
<1> QED BY Zenon, <1>1, <1>2, <1>7

LEMMA ElementsAreStorable == Elements \cup LongElements \cup Few \subseteq Storable
<1>1. Elements \subseteq Storable
  BY Zenon, NumbersAreStorable, TextsAreStorable, RepeatsAreStorable DEF Elements
<1>2. LongElements \subseteq Storable BY Zenon, TextsAreStorable DEF LongElements
<1>3. Few \subseteq Storable BY Zenon, NumbersAreStorable, TextsAreStorable DEF Few
<1> QED BY Zenon, <1>1, <1>2, <1>3

\* The walk stays within a thousand strings of a million bytes, whose integers
\* are those of 32 bits.
Walked == slack \in Nat /\ (kind = "strings" => Stocked(value))

LEMMA WalkedInvariant == Spec => []Walked
<1>1. Init => Walked
  <2> SUFFICES ASSUME Init PROVE Walked OBVIOUS
  <2>1. slack \in Nat BY DEF Init
  <2>2. kind = "strings" => value = <<>> BY DEF Init
  <2>3. <<>> \in Seq(Storable) /\ Len(<<>>) = 0 OBVIOUS
  <2>4. 0 <= 1000 OBVIOUS
  <2>5. Stocked(<<>>) BY SMT, <2>3, <2>4 DEF Stocked
  <2> QED BY <2>1, <2>2, <2>5 DEF Walked
<1>2. ASSUME Walked, [Next]_vars PROVE Walked'
  <2>1. CASE Push
    <3>1. kind = "strings" /\ kind' = kind /\ slack' = slack BY <2>1 DEF Push
    <3>2. value \in Seq(Storable) /\ Len(value) <= 1000 BY <1>2, <3>1 DEF Walked, Stocked
    <3>3. PICK e \in Elements \cup LongElements \cup Few :
            \/ value' = <<e>>
            \/ value' = Append(value, e) /\ Len(value) + 1 <= 1000
      <4>1. MaxElements \in Nat /\ MaxElements <= 1000 BY MaxElementsAssumption
      <4> QED BY <2>1, <3>2, <4>1 DEF Push
    <3>4. e \in Storable BY ElementsAreStorable
    <3>5. value' \in Seq(Storable) /\ Len(value') <= 1000
      <4>1. CASE value' = <<e>> BY <3>4, <4>1
      <4>2. CASE value' = Append(value, e) /\ Len(value) + 1 <= 1000 BY <3>2, <3>4, <4>2
      <4> QED BY <3>3, <4>1, <4>2
    <3> QED BY <1>2, <3>1, <3>5 DEF Walked, Stocked
  <2>2. CASE ExtendKey BY <1>2, <2>2 DEF ExtendKey, Walked
  <2>3. CASE Xadd BY <1>2, <2>3 DEF Xadd, Walked
  <2>4. CASE Xdel BY <1>2, <2>4 DEF Xdel, Walked
  <2>5. CASE XgroupCreate BY <1>2, <2>5 DEF XgroupCreate, Walked
  <2>6. CASE Xreadgroup BY <1>2, <2>6 DEF Xreadgroup, Walked
  <2>7. CASE UNCHANGED vars BY <1>2, <2>7 DEF vars, Walked
  <2> QED BY <1>2, <2>1, <2>2, <2>3, <2>4, <2>5, <2>6, <2>7 DEF Next
<1> QED BY <1>1, <1>2, PTL DEF Spec

\* What ValuesLoad asks of a type byte.
LoadsAs(typeByte, list, steps, rest) ==
  ParseObject(ValueBytes(typeByte, list, steps) \o rest, typeByte) =
    IF typeByte \in PairTypes /\ Len(list) % 2 = 1 THEN Panicked ELSE Got(ValueOf(typeByte, list), rest)

LEMMA RestoredLoads ==
  \A typeByte, list, steps, rest :
    Restored(typeByte, list, steps, rest) /\ ~(typeByte \in PairTypes /\ Len(list) % 2 = 1) =>
      LoadsAs(typeByte, list, steps, rest)
BY Zenon DEF Restored, LoadsAs

LEMMA RefusedLoads ==
  \A typeByte \in PairTypes : \A list, steps, rest :
    Len(list) \in Nat /\ RefusedOr(typeByte, list, steps, rest) => LoadsAs(typeByte, list, steps, rest)
<1> TAKE typeByte \in PairTypes
<1> TAKE list, steps, rest
<1> HAVE Len(list) \in Nat /\ RefusedOr(typeByte, list, steps, rest)
<1>1. CASE Len(list) % 2 = 0
  <2>1. ~(Len(list) % 2 = 1) BY <1>1
  <2>2. Restored(typeByte, list, steps, rest) BY Zenon, <1>1 DEF RefusedOr
  <2> QED BY Zenon, <2>1, <2>2, RestoredLoads
<1>2. CASE Len(list) % 2 # 0
  <2>1. Len(list) % 2 = 1 BY <1>2
  <2>2. ParseObject(ValueBytes(typeByte, list, steps) \o rest, typeByte) = Panicked BY Zenon, <1>2 DEF RefusedOr
  <2> QED BY Zenon, <2>1, <2>2 DEF LoadsAs
<1> QED BY <1>1, <1>2

LEMMA TypesLoad ==
  ASSUME NEW list, Stocked(list), NEW steps \in Nat, NEW rest \in Bytes
  PROVE  /\ \A typeByte \in {1, 2, 14, 18} : LoadsAs(typeByte, list, steps, rest)
         /\ Len(list) = 1 => LoadsAs(0, list, steps, rest)
         /\ (\A i \in DOMAIN list : IsNumber(list[i])) => LoadsAs(11, list, steps, rest)
         /\ Len(list) < Unknown =>
              \A typeByte \in {10, 12, 13, 16, 17} : LoadsAs(typeByte, list, steps, rest)
         /\ Len(list) % 2 = 0 => LoadsAs(4, list, steps, rest)
         /\ Len(list) % 2 = 0 /\ HasScores(list) =>
              \A typeByte \in {3, 5} : LoadsAs(typeByte, list, steps, rest)
<1>1. Len(list) \in Nat BY StockedIs
<1>2. 0 \notin PairTypes /\ 1 \notin PairTypes /\ 2 \notin PairTypes /\ 10 \notin PairTypes
      /\ 11 \notin PairTypes /\ 14 \notin PairTypes /\ 18 \notin PairTypes
  BY DEF PairTypes
<1>3. 12 \in PairTypes /\ 13 \in PairTypes /\ 16 \in PairTypes /\ 17 \in PairTypes BY DEF PairTypes
<1>4. \A typeByte : Restores(typeByte, list) => Restored(typeByte, list, steps, rest) BY Zenon DEF Restores
<1>5. \A typeByte : Refuses(typeByte, list) => RefusedOr(typeByte, list, steps, rest) BY Zenon DEF Refuses
<1>6. \A typeByte \in {1, 2, 14, 18} : LoadsAs(typeByte, list, steps, rest)
  BY Zenon, <1>2, <1>4, ListRestores, QuickListRestores, RestoredLoads
<1>7. Len(list) = 1 => LoadsAs(0, list, steps, rest) BY Zenon, <1>2, <1>4, StringRestores, RestoredLoads
<1>8. (\A i \in DOMAIN list : IsNumber(list[i])) => LoadsAs(11, list, steps, rest)
  BY Zenon, <1>2, <1>4, IntsetRestores, RestoredLoads
<1>9. Len(list) < Unknown => \A typeByte \in {10, 12, 13, 16, 17} : LoadsAs(typeByte, list, steps, rest)
  <2> SUFFICES ASSUME Len(list) < Unknown
               PROVE  \A typeByte \in {10, 12, 13, 16, 17} : LoadsAs(typeByte, list, steps, rest)
    OBVIOUS
  <2>1. LoadsAs(10, list, steps, rest) BY Zenon, <1>2, <1>4, ZipListRestores, RestoredLoads
  <2>2. LoadsAs(12, list, steps, rest) /\ LoadsAs(17, list, steps, rest)
    BY Zenon, <1>1, <1>3, <1>5, CompactZsetRefuses, RefusedLoads
  <2>3. LoadsAs(13, list, steps, rest) /\ LoadsAs(16, list, steps, rest)
    BY Zenon, <1>1, <1>3, <1>5, CompactHashRefuses, RefusedLoads
  <2> QED BY Zenon, <2>1, <2>2, <2>3
<1>10. ASSUME Len(list) % 2 = 0
       PROVE  /\ LoadsAs(4, list, steps, rest)
              /\ HasScores(list) => \A typeByte \in {3, 5} : LoadsAs(typeByte, list, steps, rest)
  <2>1. ~(Len(list) % 2 = 1) BY <1>1, <1>10
  <2>2. LoadsAs(4, list, steps, rest) BY Zenon, <1>4, <2>1, HashRestores, RestoredLoads
  <2>3. ASSUME HasScores(list) PROVE LoadsAs(3, list, steps, rest) /\ LoadsAs(5, list, steps, rest)
    BY Zenon, <1>4, <2>1, <2>3, ZsetRestores, DoubleSetRestores, RestoredLoads
  <2> QED BY Zenon, <2>2, <2>3
<1> QED BY Zenon, <1>6, <1>7, <1>8, <1>9, <1>10

\* ParseObject: whatever a string, list, set, hash or sorted set of a thousand
\* elements of a million bytes was stored with, it is read back and not a byte
\* more, and a map with an odd number of entries never is.
THEOREM ValuesAreLoaded == Spec => []ValuesLoad
<1>1. Walked => ValuesLoad
  <2> SUFFICES ASSUME Walked, kind = "strings", NEW typeByte \in Types
               PROVE  LoadsAs(typeByte, value, slack, Following)
    BY Zenon DEF ValuesLoad, Loaded, LoadsAs
  <2>1. slack \in Nat /\ Stocked(value) BY DEF Walked
  <2>2. Following \in Bytes
    <3>1. 255 \in Byte /\ 254 \in Byte /\ 0 \in Byte BY DEF Byte
    <3> QED BY <3>1 DEF Following, Bytes
  <2>3. /\ \A t \in {1, 2, 14, 18} : LoadsAs(t, value, slack, Following)
        /\ Len(value) = 1 => LoadsAs(0, value, slack, Following)
        /\ (\A i \in DOMAIN value : IsNumber(value[i])) => LoadsAs(11, value, slack, Following)
        /\ Len(value) < Unknown => \A t \in {10, 12, 13, 16, 17} : LoadsAs(t, value, slack, Following)
        /\ Len(value) % 2 = 0 => LoadsAs(4, value, slack, Following)
        /\ Len(value) % 2 = 0 /\ HasScores(value) => \A t \in {3, 5} : LoadsAs(t, value, slack, Following)
    BY Zenon, <2>1, <2>2, TypesLoad
  <2> QED BY Zenon, <2>3 DEF Types, AllNumbers, ScoresAreNumbers, HasScores
<1>2. Spec => []Walked BY WalkedInvariant
<1> QED BY <1>1, <1>2, PTL

---------------------------------------------------------------------------
(* What a decoder leaves of the reader, whatever the bytes are *)

Leaves(result, n) == result.ok => result.rest \in Bytes /\ Len(result.rest) <= n

LEMMA PanicLeaves == \A n : Leaves(Panicked, n)
<1>1. ~Panicked.ok BY DEF Panicked
<1> QED BY Zenon, <1>1 DEF Leaves

LEMMA GotLeaves == \A x, n : \A rest \in Bytes : Len(rest) <= n => Leaves(Got(x, rest), n)
<1> TAKE x, n
<1> TAKE rest \in Bytes
<1>1. Got(x, rest).rest = rest BY DEF Got
<1> QED BY Zenon, <1>1 DEF Leaves

LEMMA LeavesLess == \A result : \A n, m \in Nat : Leaves(result, n) /\ n <= m => Leaves(result, m)
<1> TAKE result
<1> TAKE n, m \in Nat
<1> HAVE Leaves(result, n) /\ n <= m
<1>1. CASE result.ok
  <2>1. PICK rest : rest = result.rest /\ rest \in Bytes /\ Len(rest) <= n BY Zenon, <1>1 DEF Leaves
  <2>2. Len(rest) \in Nat BY <2>1 DEF Bytes
  <2>3. Len(rest) <= m BY <2>1, <2>2
  <2> QED BY Zenon, <2>1, <2>3 DEF Leaves
<1>2. CASE ~result.ok BY Zenon, <1>2 DEF Leaves
<1> QED BY <1>1, <1>2

\* What follows a decoder that left at most n bytes leaves no more.
LEMMA LeavesThen ==
  \A r, next : \A n \in Nat :
    /\ Leaves(r, n)
    /\ r.ok /\ r.rest \in Bytes => Leaves(next, Len(r.rest))
    => Leaves(IF r.ok THEN next ELSE Panicked, n)
<1> TAKE r, next
<1> TAKE n \in Nat
<1> HAVE /\ Leaves(r, n)
         /\ r.ok /\ r.rest \in Bytes => Leaves(next, Len(r.rest))
<1>1. CASE r.ok
  <2>1. PICK rest : rest = r.rest /\ rest \in Bytes /\ Len(rest) <= n BY Zenon, <1>1 DEF Leaves
  <2>2. Len(rest) \in Nat BY <2>1 DEF Bytes
  <2>3. Leaves(next, Len(rest)) BY Zenon, <1>1, <2>1
  <2>4. Leaves(next, n) BY Zenon, <2>1, <2>2, <2>3, LeavesLess
  <2> QED BY Zenon, <1>1, <2>4
<1>2. CASE ~r.ok BY Zenon, <1>2, PanicLeaves
<1> QED BY <1>1, <1>2

LEMMA ByteLeaves == \A rd \in Bytes : Leaves(ReadByte(rd), Len(rd))
<1> TAKE rd \in Bytes
<1>1. CASE ReadByte(rd) = Panicked BY Zenon, <1>1, PanicLeaves
<1>2. CASE \E b \in Byte, rest \in Bytes : ReadByte(rd) = Got(b, rest) /\ Len(rest) < Len(rd)
  <2>1. PICK b \in Byte, rest \in Bytes : ReadByte(rd) = Got(b, rest) /\ Len(rest) < Len(rd) BY <1>2
  <2>2. Len(rest) \in Nat /\ Len(rd) \in Nat BY DEF Bytes
  <2>3. Len(rest) <= Len(rd) BY <2>1, <2>2
  <2> QED BY Zenon, <2>1, <2>3, GotLeaves
<1> QED BY <1>1, <1>2, ByteReturns

LEMMA BytesLeave == \A rd \in Bytes : \A n : Leaves(ReadBytes(rd, n), Len(rd))
<1> TAKE rd \in Bytes
<1> TAKE n
<1>1. CASE ReadBytes(rd, n) = Panicked BY Zenon, <1>1, PanicLeaves
<1>2. CASE \E x \in Bytes, rest \in Bytes : ReadBytes(rd, n) = Got(x, rest) /\ Len(rest) <= Len(rd)
  BY Zenon, <1>2, GotLeaves
<1> QED BY <1>1, <1>2, BytesReturn

\* Convert changes the value only.
LEMMA SameLeaves ==
  \A r, x, n : Leaves(r, n) => Leaves(IF r.ok THEN Got(x, r.rest) ELSE Panicked, n)
<1> TAKE r, x, n
<1> HAVE Leaves(r, n)
<1>1. CASE r.ok BY Zenon, <1>1, GotLeaves DEF Leaves
<1>2. CASE ~r.ok BY Zenon, <1>2, PanicLeaves
<1> QED BY <1>1, <1>2

LEMMA IntLeaves == \A rd \in Bytes : \A w : Leaves(Convert(ReadInt(rd, w), FormatInt), Len(rd))
<1> TAKE rd \in Bytes
<1> TAKE w
<1> DEFINE r == ReadBytes(rd, w)
           s == ReadInt(rd, w)
<1>1. Leaves(r, Len(rd)) BY BytesLeave
<1>2. s = IF r.ok THEN Got(Signed(r.val), r.rest) ELSE Panicked BY Zenon DEF ReadInt, Convert, Bind
<1> HIDE DEF r
<1>3. Leaves(s, Len(rd)) BY Zenon, <1>1, <1>2, SameLeaves
<1>4. Convert(s, FormatInt) = IF s.ok THEN Got(FormatInt(s.val), s.rest) ELSE Panicked
  BY Zenon DEF Convert, Bind
<1> HIDE DEF s
<1>5. Leaves(Convert(s, FormatInt), Len(rd)) BY Zenon, <1>3, <1>4, SameLeaves
<1> QED BY <1>5 DEF s

LEMMA DoubleLeaves == \A rd \in Bytes : Leaves(ReadDouble(rd), Len(rd))
<1> TAKE rd \in Bytes
<1> DEFINE r == ReadBytes(rd, 8)
<1>1. Leaves(r, Len(rd)) BY BytesLeave
<1>2. ReadDouble(rd) = IF r.ok THEN Got(FloatFromBits(Bits(Reverse(r.val))), r.rest) ELSE Panicked
  BY Zenon DEF ReadDouble, Convert, Bind
<1> HIDE DEF r
<1> QED BY Zenon, <1>1, <1>2, SameLeaves

LEMMA EncodedLengthLeaves == \A rd \in Bytes : Leaves(readEncodedLength(rd), Len(rd))
<1> TAKE rd \in Bytes
<1> DEFINE r == ReadByte(rd)
           next == LengthAfter(r.val, r.rest)
<1>1. Leaves(r, Len(rd)) BY ByteLeaves
<1>2. readEncodedLength(rd) = IF r.ok THEN next ELSE Panicked
  BY Zenon DEF readEncodedLength, LengthAfter, Plainly, Bind
<1>3. ASSUME r.ok, r.rest \in Bytes PROVE Leaves(next, Len(r.rest))
  <2> DEFINE first == r.val
             rest == r.rest
  <2> HIDE DEF r
  <2> DEFINE low == ReadByte(rest)
             four == ReadBytes(rest, 4)
             eight == ReadBytes(rest, 8)
             a == Plainly(first, rest)
             b == IF low.ok THEN Got([len |-> (first - 64) * 256 + low.val, special |-> FALSE], low.rest) ELSE Panicked
             c == IF four.ok THEN Got([len |-> BigEndian(four.val), special |-> FALSE], four.rest) ELSE Panicked
             d == IF eight.ok THEN Got([len |-> BigEndian(eight.val), special |-> FALSE], eight.rest) ELSE Panicked
             e == Got([len |-> first - 192, special |-> TRUE], rest)
  <2>1. rest \in Bytes BY <1>3
  <2>2. Len(rest) <= Len(rest)
    <3>1. Len(rest) \in Nat BY <2>1 DEF Bytes
    <3> QED BY <3>1
  <2>3. Leaves(low, Len(rest)) /\ Leaves(four, Len(rest)) /\ Leaves(eight, Len(rest))
    BY Zenon, <2>1, ByteLeaves, BytesLeave
  <2>4. Leaves(a, Len(rest)) /\ Leaves(e, Len(rest)) BY Zenon, <2>1, <2>2, GotLeaves DEF Plainly
  <2>5. next = CASE first < 64 -> a
                 [] first \in 64 .. 127 -> b
                 [] first = 128 -> c
                 [] first = 129 -> d
                 [] first \in 130 .. 191 -> Panicked
                 [] OTHER -> e
    BY Zenon DEF LengthAfter, Convert, Bind
  <2> HIDE DEF low, four, eight, next
  <2>6. Leaves(b, Len(rest)) /\ Leaves(c, Len(rest)) /\ Leaves(d, Len(rest))
    BY Zenon, <2>3, SameLeaves
  <2> HIDE DEF a, b, c, d, e
  <2>7. next \in {a, b, c, d, e, Panicked} BY SMT, <2>5
  <2> QED BY Zenon, <2>4, <2>6, <2>7, PanicLeaves
<1> HIDE DEF r, next
<1>4. Len(rd) \in Nat BY DEF Bytes
<1> QED BY Zenon, <1>1, <1>2, <1>3, <1>4, LeavesThen

LEMMA LengthLeaves == \A rd \in Bytes : Leaves(ReadLength(rd), Len(rd))
<1> TAKE rd \in Bytes
<1> DEFINE r == readEncodedLength(rd)
           next == IF r.val.special THEN Panicked ELSE Got(r.val.len, r.rest)
<1>1. Leaves(r, Len(rd)) BY EncodedLengthLeaves
<1>2. ReadLength(rd) = IF r.ok THEN next ELSE Panicked BY Zenon DEF ReadLength, Bind
<1> HIDE DEF r
<1>3. ASSUME r.ok, r.rest \in Bytes PROVE Leaves(next, Len(r.rest))
  <2>1. Len(r.rest) <= Len(r.rest)
    <3>1. Len(r.rest) \in Nat BY <1>3 DEF Bytes
    <3> QED BY <3>1
  <2> QED BY Zenon, <1>3, <2>1, GotLeaves, PanicLeaves
<1> HIDE DEF next
<1>4. Len(rd) \in Nat BY DEF Bytes
<1> QED BY Zenon, <1>1, <1>2, <1>3, <1>4, LeavesThen

LEMMA FloatTextLeaves == \A r : \A n \in Nat : Leaves(r, n) => Leaves(FloatText(r), n)
<1> TAKE r
<1> TAKE n \in Nat
<1> HAVE Leaves(r, n)
<1> DEFINE next == IF IsInteger(r.val) THEN Got(Float(ParseInt(r.val)), r.rest) ELSE Panicked
<1>1. FloatText(r) = IF r.ok THEN next ELSE Panicked BY Zenon DEF FloatText, FloatOf
<1>2. ASSUME r.ok, r.rest \in Bytes PROVE Leaves(next, Len(r.rest))
  <2>1. Len(r.rest) <= Len(r.rest)
    <3>1. Len(r.rest) \in Nat BY <1>2 DEF Bytes
    <3> QED BY <3>1
  <2> QED BY Zenon, <1>2, <2>1, GotLeaves, PanicLeaves
<1> HIDE DEF next
<1> QED BY Zenon, <1>1, <1>2, LeavesThen

LEMMA FloatLeaves == \A rd \in Bytes : Leaves(ReadFloat(rd), Len(rd))
<1> TAKE rd \in Bytes
<1>1. CASE ReadByte(rd) = Panicked
  <2> DEFINE r == ReadByte(rd)
  <2>1. ~r.ok BY Zenon, <1>1, PanicIsNot
  <2>2. ReadFloat(rd) = Panicked BY <2>1 DEF ReadFloat, Bind
  <2> QED BY <2>2, PanicLeaves
<1>2. CASE \E u \in Byte, rest \in Bytes : ReadByte(rd) = Got(u, rest) /\ Len(rest) < Len(rd)
  <2>1. PICK u \in Byte, rest \in Bytes : ReadByte(rd) = Got(u, rest) /\ Len(rest) < Len(rd) BY <1>2
  <2>2. ReadFloat(rd) = FloatAfter(u, rest) BY Zenon, <2>1, FloatBegins
  <2>3. Len(rest) \in Nat /\ Len(rd) \in Nat BY <2>1 DEF Bytes
  <2>4. Len(rest) <= Len(rest) /\ Len(rest) <= Len(rd) BY <2>1, <2>3
  <2> DEFINE a == Got(NaN, rest)
             b == Got(Inf(43), rest)
             c == Got(Inf(45), rest)
             d == Got(Float(0), <<>>)
             e == FloatText(ReadBytes(rest, u))
  <2>5. Leaves(a, Len(rest)) /\ Leaves(b, Len(rest)) /\ Leaves(c, Len(rest)) BY Zenon, <2>1, <2>4, GotLeaves
  <2>6. Leaves(d, Len(rest))
    <3>1. <<>> \in Bytes /\ Len(<<>>) <= Len(rest) BY <2>3 DEF Bytes
    <3> QED BY Zenon, <3>1, GotLeaves
  <2>7. Leaves(e, Len(rest)) BY Zenon, <2>1, <2>3, BytesLeave, FloatTextLeaves
  <2>8. FloatAfter(u, rest) \in {a, b, c, d, e}
    <3>1. FloatAfter(u, rest) = CASE u = 253 -> a
                                  [] u = 254 -> b
                                  [] u = 255 -> c
                                  [] u < 253 /\ u > Len(rest) -> d
                                  [] OTHER -> e
      BY DEF FloatAfter
    <3> HIDE DEF a, b, c, d, e
    <3> QED BY SMT, <3>1
  <2> HIDE DEF a, b, c, d, e
  <2>9. Leaves(FloatAfter(u, rest), Len(rest)) BY Zenon, <2>5, <2>6, <2>7, <2>8
  <2> QED BY Zenon, <2>2, <2>3, <2>4, <2>9, LeavesLess
<1> QED BY <1>1, <1>2, ByteReturns

LEMMA CompressedLeaves == \A rd \in Bytes : Leaves(ReadCompressed(rd), Len(rd))
<1> TAKE rd \in Bytes
<1> DEFINE r1 == ReadLength(rd)
           r2 == ReadLength(r1.rest)
           r3 == ReadBytes(r2.rest, r1.val)
           r4 == lzfDecompress(r3.val, r2.val)
           n4 == IF r4.ok THEN Got(r4.val, r3.rest) ELSE Panicked
           n3 == IF r3.ok THEN n4 ELSE Panicked
           n2 == IF r2.ok THEN n3 ELSE Panicked
           n1 == IF r1.ok THEN n2 ELSE Panicked
<1>0. ReadCompressed(rd) = n1 BY Zenon DEF ReadCompressed, Bind
<1>1. Leaves(r1, Len(rd)) BY LengthLeaves
<1>2. r1.rest \in Bytes => Leaves(r2, Len(r1.rest)) BY Zenon, LengthLeaves
<1>3. r2.rest \in Bytes => Leaves(r3, Len(r2.rest)) BY Zenon, BytesLeave
<1> HIDE DEF r1, r2, r3, r4
<1>5. \A s \in Bytes : Len(s) \in Nat /\ Len(s) <= Len(s) BY DEF Bytes
<1>6. r3.rest \in Bytes => Leaves(n4, Len(r3.rest)) BY Zenon, <1>5, GotLeaves, PanicLeaves
<1> HIDE DEF n4
<1>7. r2.rest \in Bytes => Leaves(n3, Len(r2.rest)) BY Zenon, <1>3, <1>5, <1>6, LeavesThen
<1> HIDE DEF n3
<1>8. r1.rest \in Bytes => Leaves(n2, Len(r1.rest)) BY Zenon, <1>2, <1>5, <1>7, LeavesThen
<1> HIDE DEF n2
<1>9. Leaves(n1, Len(rd)) BY Zenon, <1>1, <1>5, <1>8, LeavesThen
<1> QED BY <1>0, <1>9

LEMMA StringLeaves == \A rd \in Bytes : Leaves(ReadString(rd), Len(rd))
<1> TAKE rd \in Bytes
<1> DEFINE r == readEncodedLength(rd)
           next == StringAfter(r.val, r.rest)
<1>1. Leaves(r, Len(rd)) BY EncodedLengthLeaves
<1>2. ReadString(rd) = IF r.ok THEN next ELSE Panicked
  BY Zenon DEF ReadString, StringAfter, Bind
<1>3. ASSUME r.ok, r.rest \in Bytes PROVE Leaves(next, Len(r.rest))
  <2> DEFINE l == r.val
             rest == r.rest
  <2> HIDE DEF r
  <2> DEFINE a == ReadBytes(rest, l.len)
             b == Convert(ReadInt(rest, <<1, 2, 4>>[l.len + 1]), FormatInt)
             c == ReadCompressed(rest)
  <2>1. rest \in Bytes BY <1>3
  <2>2. Leaves(a, Len(rest)) BY Zenon, <2>1, BytesLeave
  <2>3. Leaves(b, Len(rest)) BY Zenon, <2>1, IntLeaves
  <2>4. Leaves(c, Len(rest)) BY Zenon, <2>1, CompressedLeaves
  <2>5. next = CASE ~l.special -> a
                 [] l.special /\ l.len \in 0 .. 2 -> b
                 [] l.special /\ l.len = 3 -> c
                 [] OTHER -> Panicked
    BY Zenon DEF StringAfter
  <2> HIDE DEF a, b, c, next
  <2>6. next \in {a, b, c, Panicked} BY Zenon, <2>5
  <2> QED BY Zenon, <2>2, <2>3, <2>4, <2>6, PanicLeaves
<1> HIDE DEF r, next
<1>4. Len(rd) \in Nat BY DEF Bytes
<1> QED BY Zenon, <1>1, <1>2, <1>3, <1>4, LeavesThen

LEMMA DropLeaves == \A r, n : Leaves(r, n) => Leaves(Drop(r), n)
<1> TAKE r, n
<1> HAVE Leaves(r, n)
<1>1. Drop(r) = IF r.ok THEN Got(<<>>, r.rest) ELSE Panicked BY Zenon DEF Drop, Convert, Bind
<1> QED BY Zenon, <1>1, SameLeaves

LEMMA OperandLeaves == \A rd \in Bytes : \A opcode : Leaves(ModuleOperand(rd, opcode), Len(rd))
<1> TAKE rd \in Bytes
<1> TAKE opcode
<1>1. Len(rd) <= Len(rd)
  <2>1. Len(rd) \in Nat BY DEF Bytes
  <2> QED BY <2>1
<1> DEFINE a == Got(<<>>, rd)
           b == Drop(ReadLength(rd))
           c == Drop(ReadFloat(rd))
           d == Drop(ReadDouble(rd))
           e == Drop(ReadString(rd))
<1>2. Leaves(a, Len(rd)) BY Zenon, <1>1, GotLeaves
<1>3. Leaves(b, Len(rd)) /\ Leaves(c, Len(rd)) /\ Leaves(d, Len(rd)) /\ Leaves(e, Len(rd))
  BY Zenon, DropLeaves, LengthLeaves, FloatLeaves, DoubleLeaves, StringLeaves
<1>4. ModuleOperand(rd, opcode) \in {a, b, c, d, e, Panicked} BY Zenon DEF ModuleOperand
<1> HIDE DEF a, b, c, d, e
<1> QED BY Zenon, <1>2, <1>3, <1>4, PanicLeaves

---------------------------------------------------------------------------
(* The operands of a module, one after the other *)

\* What f makes of the reader after an operand.
AfterOperand(f, result) == Bind(result, LAMBDA none, left : f[left])

\* What is made of a reader when f says what is made of the rest of it.
Operands(f, rd) ==
  Bind(ReadByte(rd), LAMBDA opcode, rest :
    IF opcode = 0 THEN Got(<<>>, rest) ELSE AfterOperand(f, ModuleOperand(rest, opcode)))

\* The function that ModuleOperands chooses.
ReadsOperands(f) == f = [rd \in Seq(Byte) |-> Operands(f, rd)]

LEMMA OperandsOf ==
  \A f, rd :
    /\ ReadByte(rd) = Panicked => Operands(f, rd) = Panicked
    /\ \A opcode, rest : ReadByte(rd) = Got(opcode, rest) =>
         Operands(f, rd) = IF opcode = 0 THEN Got(<<>>, rest)
                           ELSE AfterOperand(f, ModuleOperand(rest, opcode))
<1> TAKE f, rd
<1> DEFINE r == ReadByte(rd)
<1>1. Operands(f, rd) = IF r.ok
                        THEN IF r.val = 0 THEN Got(<<>>, r.rest)
                             ELSE AfterOperand(f, ModuleOperand(r.rest, r.val))
                        ELSE Panicked
  BY Zenon DEF Operands, Bind
<1> HIDE DEF r
<1>2. ASSUME r = Panicked PROVE Operands(f, rd) = Panicked BY Zenon, <1>1, <1>2, PanicIsNot
<1>3. ASSUME NEW opcode, NEW rest, r = Got(opcode, rest)
      PROVE  Operands(f, rd) = IF opcode = 0 THEN Got(<<>>, rest)
                               ELSE AfterOperand(f, ModuleOperand(rest, opcode))
  <2>1. r.ok /\ r.val = opcode /\ r.rest = rest BY Zenon, <1>3, GotHas
  <2> QED BY Zenon, <1>1, <2>1
<1> QED BY <1>2, <1>3 DEF r

LEMMA AfterOperandOf ==
  /\ \A f, r : ~r.ok => AfterOperand(f, r) = Panicked
  /\ \A f, r : r.ok => AfterOperand(f, r) = f[r.rest]
  /\ \A f, x, left : AfterOperand(f, Got(x, left)) = f[left]
<1>1. \A f, r : AfterOperand(f, r) = IF r.ok THEN f[r.rest] ELSE Panicked BY Zenon DEF AfterOperand, Bind
<1>2. \A f, x, left : AfterOperand(f, Got(x, left)) = f[left] BY Zenon, <1>1, GotHas
<1> QED BY Zenon, <1>1, <1>2

\* The ways to read on from rd.
NextOf(rd) ==
  \/ \A f : Operands(f, rd) = Panicked
  \/ \E rest \in Bytes : \A f : Operands(f, rd) = Got(<<>>, rest)
  \/ \E left \in Bytes : Len(left) < Len(rd) /\ \A f : Operands(f, rd) = f[left]

LEMMA NextIs == \A rd \in Bytes : NextOf(rd)
<1> TAKE rd \in Bytes
<1>1. CASE ReadByte(rd) = Panicked BY Zenon, <1>1, OperandsOf DEF NextOf
<1>2. CASE \E b \in Byte, rest \in Bytes : ReadByte(rd) = Got(b, rest) /\ Len(rest) < Len(rd)
  <2>1. PICK b \in Byte, rest \in Bytes : ReadByte(rd) = Got(b, rest) /\ Len(rest) < Len(rd)
    BY <1>2
  <2>2. CASE b = 0 BY Zenon, <2>1, <2>2, OperandsOf DEF NextOf
  <2>3. CASE b # 0
    <3> DEFINE r == ModuleOperand(rest, b)
    <3>1. Leaves(r, Len(rest)) BY OperandLeaves
    <3>2. \A f : Operands(f, rd) = AfterOperand(f, r) BY Zenon, <2>1, <2>3, OperandsOf
    <3> HIDE DEF r
    <3>3. CASE ~r.ok BY Zenon, <3>2, <3>3, AfterOperandOf DEF NextOf
    <3>4. CASE r.ok
      <4>1. PICK left : left = r.rest /\ left \in Bytes /\ Len(left) <= Len(rest)
        BY Zenon, <3>1, <3>4 DEF Leaves
      <4>2. Len(left) \in Nat /\ Len(rest) \in Nat /\ Len(rd) \in Nat BY <2>1, <4>1 DEF Bytes
      <4>3. Len(left) < Len(rd) BY <2>1, <4>1, <4>2
      <4>4. \A f : Operands(f, rd) = f[left] BY Zenon, <3>2, <3>4, <4>1, AfterOperandOf
      <4> QED BY Zenon, <4>1, <4>3, <4>4 DEF NextOf
    <3> QED BY <3>3, <3>4
  <2> QED BY <2>2, <2>3
<1> QED BY <1>1, <1>2, ByteReturns

LEMMA ReadsOperandsExists == \E f : ReadsOperands(f)
<1> DEFINE D == Bytes
           V == {Panicked} \cup {Got(<<>>, rest) : rest \in Bytes}
           step == [g \in [D -> V] |-> [p \in D |-> Operands(g, p)]]
           rank == [p \in D |-> Len(p)]
<1>0. Panicked \in V /\ \A rest \in Bytes : Got(<<>>, rest) \in V BY Zenon
<1> HIDE DEF V
<1>1. ASSUME NEW g \in [D -> V], NEW p \in D PROVE Operands(g, p) \in V
  <2>1. NextOf(p) BY NextIs
  <2>2. CASE \A f : Operands(f, p) = Panicked BY <1>0, <2>2
  <2>3. CASE \E rest \in Bytes : \A f : Operands(f, p) = Got(<<>>, rest)
    <3>1. PICK rest \in Bytes : Operands(g, p) = Got(<<>>, rest) BY <2>3
    <3> QED BY Zenon, <1>0, <3>1
  <2>4. CASE \E left \in Bytes : Len(left) < Len(p) /\ \A f : Operands(f, p) = f[left]
    <3>1. PICK left \in Bytes : Operands(g, p) = g[left] BY <2>4
    <3> QED BY <3>1
  <2> QED BY <2>1, <2>2, <2>3, <2>4 DEF NextOf
<1>2. ASSUME NEW g \in [D -> V], NEW h \in [D -> V], NEW p \in D,
             \A q \in D : rank[q] < rank[p] => g[q] = h[q]
      PROVE  Operands(g, p) = Operands(h, p)
  <2>1. NextOf(p) BY NextIs
  <2>2. CASE \A f : Operands(f, p) = Panicked BY <2>2
  <2>3. CASE \E rest \in Bytes : \A f : Operands(f, p) = Got(<<>>, rest) BY <2>3
  <2>4. CASE \E left \in Bytes : Len(left) < Len(p) /\ \A f : Operands(f, p) = f[left]
    <3>1. PICK left \in Bytes : Len(left) < Len(p) /\ \A f : Operands(f, p) = f[left] BY <2>4
    <3>2. rank[left] < rank[p] BY <3>1
    <3>3. g[left] = h[left] BY <1>2, <3>2
    <3> QED BY <3>1, <3>3
  <2> QED BY <2>1, <2>2, <2>3, <2>4 DEF NextOf
<1>3. rank \in [D -> Nat] BY DEF Bytes
<1> HIDE DEF rank, D
<1>4. Descends(step, rank, D, V)
  <2>1. \A g \in [D -> V] : step[g] = [p \in D |-> Operands(g, p)] OBVIOUS
  <2>2. step \in [[D -> V] -> [D -> V]] BY <1>1
  <2> HIDE DEF step
  <2>3. \A g \in [D -> V], p \in D : step[g][p] = Operands(g, p) BY <2>1
  <2> QED BY <1>2, <1>3, <2>2, <2>3 DEF Descends
<1>5. V # {} BY <1>0
<1>6. PICK f : f \in [D -> V] /\ f = step[f]
  <2> HIDE DEF step
  <2> QED BY <1>4, <1>5, RecursionByRank
<1>7. f = [p \in D |-> Operands(f, p)] BY <1>6 DEF step
<1>8. ReadsOperands(f) BY Zenon, <1>7 DEF ReadsOperands, D, Bytes
<1> QED BY <1>8

LEMMA ModuleOperandsAreOne ==
  \E f : /\ \A rd \in Bytes : f[rd] = Operands(f, rd)
         /\ \A rd : ModuleOperands(rd) = f[rd]
<1> DEFINE f == CHOOSE g : ReadsOperands(g)
<1>1. ReadsOperands(f) BY ReadsOperandsExists
<1>2. \A rd : ModuleOperands(rd) = f[rd]
  BY Zenon DEF ModuleOperands, ReadsOperands, Operands, AfterOperand
<1> HIDE DEF f
<1>3. \A rd \in Bytes : f[rd] = Operands(f, rd) BY <1>1 DEF ReadsOperands, Bytes
<1> QED BY <1>2, <1>3

---------------------------------------------------------------------------
(* Module values *)

ModulePiece(s, steps, signed) ==
  CASE ~IsNumber(s) -> <<5>> \o StringBytes(s, steps)
    [] IsNumber(s) /\ ParseInt(s) < 0 -> <<1, 129>> \o Reverse(IntBytes(ParseInt(s), 8))
    [] IsNumber(s) /\ ParseInt(s) >= 0 /\ signed -> <<1>> \o LengthBytes(ParseInt(s), steps)
    [] OTHER -> <<2>> \o LengthBytes(ParseInt(s), steps)

ModulePieces(list, steps, signed) == [i \in DOMAIN list |-> ModulePiece(list[i], steps, signed)]

ModuleHead(steps) == LengthBytes(1024, steps)

LEMMA ModuleBytesAre ==
  \A list, steps, signed, float :
    ModuleBytes(list, steps, signed, float) =
      ModuleHead(steps) \o FlattenSeq(ModulePieces(list, steps, signed)) \o ModuleReal(float) \o <<0>>
<1> TAKE list, steps, signed, float
<1> QED BY DEF ModuleBytes, ModuleHead, ModulePieces, ModulePiece

\* bytes are read as operands, whatever follows; or they panic, if they stop.
Taken(bytes, stops) ==
  /\ bytes \in Bytes
  /\ \A rest \in Bytes : ModuleOperands(bytes \o rest) = IF stops THEN Panicked ELSE ModuleOperands(rest)

\* bytes are the operand of opcode, whatever follows.
IsOperand(bytes, opcode) ==
  bytes \in Bytes /\ \A rest \in Bytes : ModuleOperand(bytes \o rest, opcode) = Got(<<>>, rest)

LEMMA OperandsStep ==
  \A opcode \in Byte, rest \in Bytes :
    ModuleOperands(<<opcode>> \o rest) =
      IF opcode = 0 THEN Got(<<>>, rest)
      ELSE IF ModuleOperand(rest, opcode).ok THEN ModuleOperands(ModuleOperand(rest, opcode).rest)
      ELSE Panicked
<1> TAKE opcode \in Byte, rest \in Bytes
<1>1. PICK f : /\ \A rd \in Bytes : f[rd] = Operands(f, rd)
               /\ \A rd : ModuleOperands(rd) = f[rd]
  BY ModuleOperandsAreOne
<1> DEFINE rd == <<opcode>> \o rest
           r == ModuleOperand(rest, opcode)
<1>2. ReadByte(rd) = Got(opcode, rest) BY ByteRead
<1>3. rd \in Bytes BY DEF Bytes
<1> HIDE DEF rd, r
<1>4. f[rd] = IF opcode = 0 THEN Got(<<>>, rest) ELSE AfterOperand(f, r)
  <2>1. f[rd] = Operands(f, rd) BY Zenon, <1>1, <1>3
  <2>2. Operands(f, rd) = IF opcode = 0 THEN Got(<<>>, rest) ELSE AfterOperand(f, ModuleOperand(rest, opcode))
    BY Zenon, <1>2, OperandsOf
  <2> QED BY <2>1, <2>2 DEF r
<1>5. AfterOperand(f, r) = IF r.ok THEN f[r.rest] ELSE Panicked BY Zenon, AfterOperandOf
<1>6. ModuleOperands(rd) = IF opcode = 0 THEN Got(<<>>, rest)
                           ELSE IF r.ok THEN ModuleOperands(r.rest) ELSE Panicked
  BY Zenon, <1>1, <1>4, <1>5
<1> QED BY <1>6 DEF rd, r

\* The value ends.
LEMMA ModuleEnds == \A rest \in Bytes : ModuleOperands(<<0>> \o rest) = Got(<<>>, rest)
<1>1. 0 \in Byte BY DEF Byte
<1> QED BY Zenon, <1>1, OperandsStep

LEMMA OperandTaken ==
  \A opcode \in Byte : \A bytes : opcode # 0 /\ IsOperand(bytes, opcode) => Taken(<<opcode>> \o bytes, FALSE)
<1> TAKE opcode \in Byte
<1> TAKE bytes
<1> HAVE opcode # 0 /\ IsOperand(bytes, opcode)
<1>1. bytes \in Bytes /\ <<opcode>> \in Bytes BY DEF IsOperand, Bytes
<1>2. <<opcode>> \o bytes \in Bytes BY <1>1, BytesConcat
<1>3. ASSUME NEW rest \in Bytes PROVE ModuleOperands((<<opcode>> \o bytes) \o rest) = ModuleOperands(rest)
  <2> DEFINE left == bytes \o rest
  <2>1. (<<opcode>> \o bytes) \o rest = <<opcode>> \o left BY <1>1, BytesAssociate
  <2>2. left \in Bytes BY <1>1, BytesConcat
  <2>3. ModuleOperand(left, opcode) = Got(<<>>, rest) BY Zenon DEF IsOperand
  <2>4. Got(<<>>, rest).ok /\ Got(<<>>, rest).rest = rest BY GotHas
  <2> HIDE DEF left
  <2>5. ModuleOperands(<<opcode>> \o left) = ModuleOperands(rest) BY Zenon, <2>2, <2>3, <2>4, OperandsStep
  <2> QED BY <2>1, <2>5
<1> QED BY Zenon, <1>2, <1>3 DEF Taken

LEMMA TakenAfter ==
  \A a, b, q :
    /\ Taken(a, TRUE) /\ Taken(b, q) => Taken(a \o b, TRUE)
    /\ Taken(a, FALSE) /\ Taken(b, q) => Taken(a \o b, q)
<1> TAKE a, b, q
<1>1. ASSUME a \in Bytes, b \in Bytes, NEW rest \in Bytes
      PROVE  (a \o b) \o rest = a \o (b \o rest) /\ b \o rest \in Bytes
  BY <1>1, BytesAssociate, BytesConcat
<1>2. ASSUME Taken(a, TRUE), Taken(b, q) PROVE Taken(a \o b, TRUE)
  <2>1. a \in Bytes /\ b \in Bytes BY Zenon, <1>2 DEF Taken
  <2>2. \A rest \in Bytes : ModuleOperands(a \o rest) = Panicked BY Zenon, <1>2 DEF Taken
  <2>3. \A rest \in Bytes : ModuleOperands((a \o b) \o rest) = Panicked BY Zenon, <1>1, <2>1, <2>2
  <2>4. a \o b \in Bytes BY <2>1, BytesConcat
  <2> QED BY Zenon, <2>3, <2>4 DEF Taken
<1>3. ASSUME Taken(a, FALSE), Taken(b, q) PROVE Taken(a \o b, q)
  <2>1. a \in Bytes /\ b \in Bytes BY Zenon, <1>3 DEF Taken
  <2>2. \A rest \in Bytes : ModuleOperands(a \o rest) = ModuleOperands(rest) BY Zenon, <1>3 DEF Taken
  <2>3. \A rest \in Bytes : ModuleOperands((a \o b) \o rest) = ModuleOperands(b \o rest)
    BY Zenon, <1>1, <2>1, <2>2
  <2>4. a \o b \in Bytes BY <2>1, BytesConcat
  <2> QED BY Zenon, <1>3, <2>3, <2>4 DEF Taken
<1> QED BY <1>2, <1>3

LEMMA DropGot == \A x, rest : Drop(Got(x, rest)) = Got(<<>>, rest)
<1> TAKE x, rest
<1> DEFINE r == Got(x, rest)
<1>1. r.ok /\ r.val = x /\ r.rest = rest BY GotHas
<1> HIDE DEF r
<1>2. Drop(r) = Got(<<>>, rest) BY Zenon, <1>1 DEF Drop, Convert, Bind
<1> QED BY <1>2 DEF r

LEMMA ModuleOperandOf ==
  \A rd :
    /\ ModuleOperand(rd, 1) = Got(<<>>, rd)
    /\ ModuleOperand(rd, 2) = Drop(ReadLength(rd))
    /\ ModuleOperand(rd, 3) = Drop(ReadFloat(rd))
    /\ ModuleOperand(rd, 4) = Drop(ReadDouble(rd))
    /\ ModuleOperand(rd, 5) = Drop(ReadString(rd))
    /\ ModuleOperand(rd, 129) = Panicked
<1> TAKE rd
<1> DEFINE length == Drop(ReadLength(rd))
           float == Drop(ReadFloat(rd))
           double == Drop(ReadDouble(rd))
           string == Drop(ReadString(rd))
<1>1. \A opcode : ModuleOperand(rd, opcode) =
        CASE opcode = 1 -> Got(<<>>, rd)
          [] opcode = 2 -> length
          [] opcode = 3 -> float
          [] opcode = 4 -> double
          [] opcode = 5 -> string
          [] OTHER      -> Panicked
  BY Zenon DEF ModuleOperand
<1> HIDE DEF length, float, double, string
<1>2. /\ ModuleOperand(rd, 1) = Got(<<>>, rd)
      /\ ModuleOperand(rd, 2) = length
      /\ ModuleOperand(rd, 3) = float
      /\ ModuleOperand(rd, 4) = double
      /\ ModuleOperand(rd, 5) = string
      /\ ModuleOperand(rd, 129) = Panicked
  BY SMT, <1>1
<1> QED BY <1>2 DEF length, float, double, string

Stops(s) == IsNumber(s) /\ ParseInt(s) < 0

LEMMA StringTaken == \A s \in Storable, steps \in Nat : Taken(<<5>> \o StringBytes(s, steps), FALSE)
<1> TAKE s \in Storable, steps \in Nat
<1>1. IsString(StringBytes(s, steps), s) BY StorableIs, StringsLoad
<1>2. 5 \in Byte /\ 5 # 0 BY DEF Byte
<1>3. IsOperand(StringBytes(s, steps), 5)
  <2>1. ASSUME NEW rest \in Bytes PROVE ModuleOperand(StringBytes(s, steps) \o rest, 5) = Got(<<>>, rest)
    <3>1. ReadString(StringBytes(s, steps) \o rest) = Got(s, rest) BY Zenon, <1>1 DEF IsString
    <3> QED BY Zenon, <3>1, ModuleOperandOf, DropGot
  <2> QED BY Zenon, <1>1, <2>1 DEF IsOperand, IsString
<1> QED BY Zenon, <1>2, <1>3, OperandTaken

LEMMA LengthTaken == \A n \in Word, steps \in Nat : Taken(<<2>> \o LengthBytes(n, steps), FALSE)
<1> TAKE n \in Word, steps \in Nat
<1>1. LengthBytes(n, steps) \in AsLength(n) BY LengthsLoad
<1>2. PICK bytes \in Bytes : bytes = LengthBytes(n, steps) /\ IsLength(bytes, n) BY <1>1 DEF AsLength
<1>3. 2 \in Byte /\ 2 # 0 BY DEF Byte
<1>4. IsOperand(bytes, 2)
  <2>1. ASSUME NEW rest \in Bytes PROVE ModuleOperand(bytes \o rest, 2) = Got(<<>>, rest)
    <3>1. ReadLength(bytes \o rest) = Got(n, rest) BY Zenon, <1>2, LengthRead
    <3> QED BY Zenon, <3>1, ModuleOperandOf, DropGot
  <2> QED BY Zenon, <2>1 DEF IsOperand
<1> QED BY Zenon, <1>2, <1>3, <1>4, OperandTaken

\* The opcode of a signed integer, and its bytes, which are no opcode.
LEMMA NegativeTaken == \A bytes \in Bytes : Taken(<<1, 129>> \o bytes, TRUE)
<1> TAKE bytes \in Bytes
<1>0. 1 \in Byte /\ 129 \in Byte /\ 1 # 0 /\ 129 # 0 BY DEF Byte
<1>1. <<1, 129>> \o bytes \in Bytes BY <1>0 DEF Bytes
<1>2. ASSUME NEW rest \in Bytes PROVE ModuleOperands((<<1, 129>> \o bytes) \o rest) = Panicked
  <2>1. PICK a, b \in Byte : a = 1 /\ b = 129 BY <1>0
  <2>2. PICK t : t = bytes \o rest /\ t \in Bytes BY BytesConcat
  <2>3. <<a, b>> \in Bytes BY DEF Bytes
  <2>4. (<<a, b>> \o bytes) \o rest = <<a, b>> \o t BY Zenon, <2>2, <2>3, BytesAssociate
  <2>5. TwoFirst(<<a, b>> \o t, a, b, t) BY Zenon, <2>2, TwoBytes
  <2>6. PICK u : u = <<b>> \o t /\ u \in Bytes /\ <<a, b>> \o t = <<a>> \o u BY <2>5 DEF TwoFirst
  <2>7. ModuleOperand(t, b) = Panicked BY Zenon, <2>1, ModuleOperandOf
  <2>8. ModuleOperands(u) = Panicked BY ZenonT(40), <1>0, <2>1, <2>2, <2>6, <2>7, PanicIsNot, OperandsStep
  <2>9. ModuleOperand(u, a) = Got(<<>>, u) BY Zenon, <2>1, ModuleOperandOf
  <2>10. ModuleOperands(<<a>> \o u) = Panicked
    <3>1. Got(<<>>, u).ok /\ Got(<<>>, u).rest = u BY GotHas
    <3>2. a # 0 BY <1>0, <2>1
    <3> QED BY Zenon, <2>6, <2>8, <2>9, <3>1, <3>2, OperandsStep
  <2> QED BY <2>1, <2>4, <2>6, <2>10
<1> QED BY Zenon, <1>1, <1>2 DEF Taken

LEMMA UnsignedTaken ==
  \A s \in Storable, steps \in Nat : Taken(ModulePiece(s, steps, FALSE), Stops(s))
<1> TAKE s \in Storable, steps \in Nat
<1>1. CASE ~IsNumber(s)
  <2>1. ModulePiece(s, steps, FALSE) = <<5>> \o StringBytes(s, steps) BY Zenon, <1>1 DEF ModulePiece
  <2>2. Stops(s) = FALSE BY <1>1 DEF Stops
  <2> QED BY Zenon, <2>1, <2>2, StringTaken
<1>2. CASE IsNumber(s)
  <2>1. PICK v : v = ParseInt(s) OBVIOUS
  <2>2. v \in Int /\ Fits(v, 32) BY Zenon, <1>2, <2>1, StoredNumber
  <2>3. CASE v < 0
    <3>1. ModulePiece(s, steps, FALSE) = <<1, 129>> \o Reverse(IntBytes(v, 8))
      BY Zenon, <1>2, <2>1, <2>3 DEF ModulePiece
    <3>2. Stops(s) = TRUE BY <1>2, <2>1, <2>3 DEF Stops
    <3>3. Reverse(IntBytes(v, 8)) \in Bytes
      <4>1. 8 \in Nat OBVIOUS
      <4> QED BY Zenon, <2>2, <4>1, IntBytesType, ReversedTwice
    <3> QED BY Zenon, <3>1, <3>2, <3>3, NegativeTaken
  <2>4. CASE ~(v < 0)
    <3>1. ModulePiece(s, steps, FALSE) = <<2>> \o LengthBytes(v, steps)
      BY Zenon, <1>2, <2>1, <2>4 DEF ModulePiece
    <3>2. Stops(s) = FALSE BY <2>1, <2>4 DEF Stops
    <3>3. v \in Word
      <4>1. PICK g \in Nat : g = Greatest(32) BY DEF Greatest
      <4>2. 0 <= v /\ v <= g BY <2>2, <2>4, <4>1 DEF Fits
      <4> QED BY <2>2, <4>1, <4>2 DEF Word
    <3> QED BY Zenon, <3>1, <3>2, <3>3, LengthTaken
  <2> QED BY <2>3, <2>4
<1> QED BY <1>1, <1>2

AnyStops(list) == \E i \in DOMAIN list : Stops(list[i])

LEMMA PiecesAppend ==
  \A list \in Seq(Storable), s \in Storable : \A steps, signed :
    ModulePieces(Append(list, s), steps, signed)
      = Append(ModulePieces(list, steps, signed), ModulePiece(s, steps, signed))
<1> TAKE list \in Seq(Storable), s \in Storable
<1> TAKE steps, signed
<1> DEFINE P(x) == ModulePiece(x, steps, signed)
<1>1. ModulePieces(Append(list, s), steps, signed) = [i \in DOMAIN Append(list, s) |-> P(Append(list, s)[i])]
  BY DEF ModulePieces
<1>2. ModulePieces(list, steps, signed) = [i \in DOMAIN list |-> P(list[i])] BY DEF ModulePieces
<1> HIDE DEF P
<1>3. [i \in DOMAIN Append(list, s) |-> P(Append(list, s)[i])] = Append([i \in DOMAIN list |-> P(list[i])], P(s))
  OBVIOUS
<1> QED BY <1>1, <1>2, <1>3 DEF P

LEMMA AnyStopsAppend ==
  \A list \in Seq(Storable), s \in Storable : AnyStops(Append(list, s)) <=> AnyStops(list) \/ Stops(s)
<1> TAKE list \in Seq(Storable), s \in Storable
<1> DEFINE more == Append(list, s)
           n == Len(list)
<1>1. n \in Nat /\ DOMAIN list = 1 .. n /\ DOMAIN more = 1 .. n + 1 OBVIOUS
<1>2. more[n + 1] = s /\ \A i \in 1 .. n : more[i] = list[i] OBVIOUS
<1> HIDE DEF more, n
<1>3. \A i \in 1 .. n + 1 : i \in 1 .. n \/ i = n + 1 BY <1>1
<1>4. n + 1 \in 1 .. n + 1 /\ \A i \in 1 .. n : i \in 1 .. n + 1 BY <1>1
<1>5. AnyStops(more) <=> AnyStops(list) \/ Stops(s) BY Zenon, <1>1, <1>2, <1>3, <1>4 DEF AnyStops
<1> QED BY <1>5 DEF more

LEMMA PiecesTyped ==
  \A list \in Seq(Storable) : \A steps, signed :
    (\A s \in Storable : ModulePiece(s, steps, signed) \in Bytes)
    => ModulePieces(list, steps, signed) \in Seq(Bytes)
<1> TAKE list \in Seq(Storable)
<1> TAKE steps, signed
<1> HAVE \A s \in Storable : ModulePiece(s, steps, signed) \in Bytes
<1>1. \A i \in DOMAIN list : ModulePiece(list[i], steps, signed) \in Bytes OBVIOUS
<1> QED BY <1>1 DEF ModulePieces

\* The pieces of list are read as operands, or they panic.
Read(bytes, list) ==
  /\ AnyStops(list) => Taken(bytes, TRUE)
  /\ ~AnyStops(list) => Taken(bytes, FALSE)

LEMMA OneMorePiece ==
  \A list \in Seq(Storable), s \in Storable : \A a, b :
    Read(a, list) /\ Taken(b, Stops(s)) => Read(a \o b, Append(list, s))
<1> TAKE list \in Seq(Storable), s \in Storable
<1> TAKE a, b
<1> HAVE Read(a, list) /\ Taken(b, Stops(s))
<1>1. CASE AnyStops(list)
  <2>1. Taken(a \o b, TRUE) BY Zenon, <1>1, TakenAfter DEF Read
  <2>2. AnyStops(Append(list, s)) BY Zenon, <1>1, AnyStopsAppend
  <2> QED BY Zenon, <2>1, <2>2 DEF Read
<1>2. CASE ~AnyStops(list)
  <2>1. Taken(a, FALSE) BY Zenon, <1>2 DEF Read
  <2>2. AnyStops(Append(list, s)) <=> Stops(s) BY Zenon, <1>2, AnyStopsAppend
  <2>3. CASE Stops(s)
    <3>1. Taken(b, TRUE) BY Zenon, <2>3 DEF Taken
    <3>2. Taken(a \o b, TRUE) BY Zenon, <2>1, <3>1, TakenAfter
    <3> QED BY Zenon, <2>2, <2>3, <3>2 DEF Read
  <2>4. CASE ~Stops(s)
    <3>1. Taken(b, FALSE) BY Zenon, <2>4 DEF Taken
    <3>2. Taken(a \o b, FALSE) BY Zenon, <2>1, <3>1, TakenAfter
    <3> QED BY Zenon, <2>2, <2>4, <3>2 DEF Read
  <2> QED BY <2>3, <2>4
<1> QED BY <1>1, <1>2

LEMMA PiecesTaken ==
  \A list \in Seq(Storable), steps \in Nat : Read(FlattenSeq(ModulePieces(list, steps, FALSE)), list)
<1> SUFFICES ASSUME NEW steps \in Nat
             PROVE  \A list \in Seq(Storable) : Read(FlattenSeq(ModulePieces(list, steps, FALSE)), list)
  OBVIOUS
<1> DEFINE Flat(list) == FlattenSeq(ModulePieces(list, steps, FALSE))
           T == {list \in Seq(Storable) : Read(Flat(list), list)}
<1>1. <<>> \in T
  <2>1. ModulePieces(<<>>, steps, FALSE) = <<>> BY DEF ModulePieces
  <2>2. Flat(<<>>) = <<>> BY <2>1, FlattenOfNone
  <2>3. ~AnyStops(<<>>) BY DEF AnyStops
  <2>4. \A rest \in Bytes : <<>> \o rest = rest BY DEF Bytes
  <2>5. <<>> \in Bytes BY DEF Bytes
  <2>6. Taken(<<>>, FALSE) BY Zenon, <2>4, <2>5 DEF Taken
  <2>7. Read(<<>>, <<>>) BY Zenon, <2>3, <2>6 DEF Read
  <2>8. <<>> \in Seq(Storable) OBVIOUS
  <2> HIDE DEF Flat
  <2> QED BY Zenon, <2>2, <2>7, <2>8
<1>2. ASSUME NEW list \in T, NEW s \in Storable PROVE Append(list, s) \in T
  <2>1. list \in Seq(Storable) /\ Read(Flat(list), list) OBVIOUS
  <2>2. \A e \in Storable : ModulePiece(e, steps, FALSE) \in Bytes BY Zenon, UnsignedTaken DEF Taken
  <2>3. ModulePieces(list, steps, FALSE) \in Seq(Bytes) BY Zenon, <2>1, <2>2, PiecesTyped
  <2>4. ModulePieces(Append(list, s), steps, FALSE)
          = Append(ModulePieces(list, steps, FALSE), ModulePiece(s, steps, FALSE))
    BY ZenonT(40), <2>1, PiecesAppend
  <2>5. Flat(Append(list, s)) = Flat(list) \o ModulePiece(s, steps, FALSE)
    <3> DEFINE pieces == ModulePieces(list, steps, FALSE)
               piece == ModulePiece(s, steps, FALSE)
    <3>1. pieces \in Seq(Seq(Byte)) /\ piece \in Seq(Byte) BY <2>2, <2>3 DEF Bytes
    <3> HIDE DEF pieces, piece
    <3>2. FlattenSeq(Append(pieces, piece)) = FlattenSeq(pieces) \o piece BY <3>1, FlattenAppends
    <3> QED BY <2>4, <3>2 DEF pieces, piece
  <2>6. Taken(ModulePiece(s, steps, FALSE), Stops(s)) BY UnsignedTaken
  <2> HIDE DEF Flat
  <2>7. Read(Flat(list) \o ModulePiece(s, steps, FALSE), Append(list, s)) BY Zenon, <2>1, <2>6, OneMorePiece
  <2>8. Read(Flat(Append(list, s)), Append(list, s)) BY Zenon, <2>5, <2>7
  <2>9. Append(list, s) \in Seq(Storable) BY <2>1
  <2> QED BY Zenon, <2>8, <2>9
<1> HIDE DEF T
<1>3. T \in SUBSET Seq(Storable) BY DEF T
<1>4. T = Seq(Storable) BY <1>1, <1>2, <1>3, SequenceInduction
<1> QED BY <1>4 DEF T

---------------------------------------------------------------------------

OperandsIn(a, b, c, d, e) ==
  /\ (a \o b \o c \o d) \o e = a \o (b \o (c \o (d \o e)))
  /\ b \o (c \o (d \o e)) \in Bytes

LEMMA ModuleAssociates == \A a, b, c, d, e \in Bytes : OperandsIn(a, b, c, d, e)
<1> TAKE a, b, c, d, e \in Bytes
<1> DEFINE p == a \o b
           y == d \o e
           z == c \o y
           q == p \o c
<1>1. p \in Bytes /\ y \in Bytes BY BytesConcat
<1>2. z \in Bytes /\ q \in Bytes BY <1>1, BytesConcat
<1>3. b \o z \in Bytes BY <1>2, BytesConcat
<1>4. Associates(q, d, e) /\ Associates(p, c, y) /\ Associates(a, b, z)
  BY Zenon, <1>1, <1>2, BytesAssociates
<1>5. (q \o d) \o e = q \o y BY <1>4 DEF Associates
<1>6. q \o y = p \o z BY <1>4 DEF Associates
<1>7. p \o z = a \o (b \o z) BY <1>4 DEF Associates
<1>8. ((p \o c) \o d) \o e = a \o (b \o z)
  <2> HIDE DEF p, y, z
  <2> QED BY <1>5, <1>6, <1>7
<1> QED BY <1>3, <1>8 DEF OperandsIn

LEMMA DoubleTaken == DoubleBytes(-1) \in Bytes /\ Taken(<<4>> \o DoubleBytes(-1), FALSE)
<1>1. PICK v \in Int : v = -1 OBVIOUS
<1>2. Fits(v, 32) BY <1>1 DEF Fits, Greatest
<1>3. PICK bits : bits = BitsOf(v) /\ bits \in BitStrings /\ Len(bits) = 64
  BY <1>2, DoubleFromBits DEF IsDouble
<1>4. DoubleBytes(v) = Reverse(Packed(bits)) BY Zenon, <1>3, DoubleBytesIs
<1>5. \A rest \in Bytes : ReadDouble(DoubleBytes(v) \o rest) = Got(FloatFromBits(bits), rest)
  BY <1>3, <1>4, DoubleReads
<1>6. DoubleBytes(v) \in Bytes
  <2>1. <<>> \in Bytes BY DEF Bytes
  <2> QED BY <1>3, <1>4, <2>1, DoubleReads
<1>7. IsOperand(DoubleBytes(v), 4)
  <2>1. ASSUME NEW rest \in Bytes PROVE ModuleOperand(DoubleBytes(v) \o rest, 4) = Got(<<>>, rest)
    BY Zenon, <1>5, ModuleOperandOf, DropGot
  <2> QED BY Zenon, <1>6, <2>1 DEF IsOperand
<1>8. 4 \in Byte /\ 4 # 0 BY DEF Byte
<1>9. Taken(<<4>> \o DoubleBytes(v), FALSE) BY Zenon, <1>7, <1>8, OperandTaken
<1> QED BY <1>1, <1>6, <1>9

\* The text of a score of no bytes is not a number.
LEMMA NoText == \A rest \in Bytes : FloatAfter(0, rest) = Panicked
<1> TAKE rest \in Bytes
<1> DEFINE r == ReadBytes(rest, 0)
<1>1. PICK u \in Nat : u = 0 OBVIOUS
<1>2. Len(rest) \in Nat BY DEF Bytes
<1>3. FloatAfter(u, rest) = FloatText(ReadBytes(rest, u))
  <2>1. u < 253 /\ u <= Len(rest) BY <1>1, <1>2
  <2> QED BY Zenon, <1>2, <2>1, FloatShort
<1>4. r = Got(<<>>, rest)
  <2>1. rest = <<>> \o rest /\ <<>> \in Bytes BY DEF Bytes
  <2>2. Begins(rest, <<>>, 0, rest) BY <2>1 DEF Begins
  <2> QED BY Zenon, <2>2, BytesRead
<1>5. r.ok /\ r.val = <<>> /\ r.rest = rest BY <1>4, GotHas
<1>6. ~IsInteger(<<>>) BY DEF IsInteger
<1> HIDE DEF r
<1>7. FloatText(r) = Panicked BY Zenon, <1>5, <1>6 DEF FloatText, FloatOf
<1> QED BY <1>1, <1>3, <1>7 DEF r

\* The first byte of a float is taken for the length of a text.
LEMMA FloatTaken == Taken(<<3, 0, 0, 128, 191>>, TRUE)
<1>0. 3 \in Byte /\ 0 \in Byte /\ 128 \in Byte /\ 191 \in Byte /\ 3 # 0 BY DEF Byte
<1>1. <<3, 0, 0, 128, 191>> \in Bytes BY <1>0 DEF Bytes
<1>2. ASSUME NEW rest \in Bytes PROVE ModuleOperands(<<3, 0, 0, 128, 191>> \o rest) = Panicked
  <2>1. PICK a, b, c, d \in Byte : a = 3 /\ b = 0 /\ c = 128 /\ d = 191 BY <1>0
  <2> DEFINE tail == <<b, c, d>>
             text == tail \o rest
             left == <<b>> \o text
  <2>2. tail \in Bytes /\ <<a>> \in Bytes /\ <<b>> \in Bytes /\ text \in Bytes
    <3>1. tail \in Bytes /\ <<a>> \in Bytes /\ <<b>> \in Bytes BY DEF Bytes
    <3> QED BY <3>1, BytesConcat
  <2>3. left \in Bytes BY <2>2, BytesConcat
  <2>4. <<a, b, b, c, d>> \o rest = <<a>> \o left
    <3>1. <<a, b, b, c, d>> = (<<a>> \o <<b>>) \o tail OBVIOUS
    <3>2. <<a>> \o <<b>> \in Bytes BY <2>2, BytesConcat
    <3>3. ((<<a>> \o <<b>>) \o tail) \o rest = (<<a>> \o <<b>>) \o text BY <2>2, <3>2, BytesAssociate
    <3>4. (<<a>> \o <<b>>) \o text = <<a>> \o left BY <2>2, BytesAssociate
    <3> QED BY <3>1, <3>3, <3>4
  <2> HIDE DEF left, text, tail
  <2>5. ReadByte(left) = Got(b, text) BY <2>2, ByteRead DEF left
  <2>6. ReadFloat(left) = Panicked
    <3>1. ReadFloat(left) = FloatAfter(b, text) BY Zenon, <2>5, FloatBegins
    <3> QED BY Zenon, <2>1, <2>2, <3>1, NoText
  <2>7. ModuleOperand(left, a) = Panicked
    <3>1. ~Panicked.ok BY PanicIsNot
    <3>2. Drop(Panicked) = Panicked BY Zenon, <3>1 DEF Drop, Convert, Bind
    <3> QED BY Zenon, <2>1, <2>6, <3>2, ModuleOperandOf
  <2>8. a # 0 BY <1>0, <2>1
  <2>9. ModuleOperands(<<a>> \o left) = Panicked BY Zenon, <2>3, <2>7, <2>8, PanicIsNot, OperandsStep
  <2> QED BY <2>1, <2>4, <2>9
<1> QED BY Zenon, <1>1, <1>2 DEF Taken

LEMMA RealTaken == \A float \in BOOLEAN : Taken(ModuleReal(float), float)
<1> TAKE float \in BOOLEAN
<1>1. CASE float
  <2>1. ModuleReal(float) = <<3, 0, 0, 128, 191>> BY <1>1 DEF ModuleReal
  <2>2. float = TRUE BY <1>1
  <2> QED BY Zenon, <2>1, <2>2, FloatTaken
<1>2. CASE ~float
  <2>1. ModuleReal(float) = <<4>> \o DoubleBytes(-1) BY Zenon, <1>2 DEF ModuleReal
  <2>2. float = FALSE BY <1>2
  <2> QED BY Zenon, <2>1, <2>2, DoubleTaken
<1> QED BY <1>1, <1>2

LEMMA ModuleHeadIs == \A steps \in Nat : IsLength(ModuleHead(steps), 1024) /\ ModuleHead(steps) \in Bytes
<1> TAKE steps \in Nat
<1>1. PICK n \in Nat : n = 1024 /\ n <= 1000000000 OBVIOUS
<1>2. n \in Word BY <1>1, SmallIsWord
<1>3. LengthBytes(n, steps) \in AsLength(n) BY <1>2, LengthsLoad
<1> QED BY <1>1, <1>3 DEF AsLength, ModuleHead

\* ModuleLoad passes over the id, and reads what follows as operands.
LEMMA ModuleLoads == \A steps \in Nat, rest \in Bytes : ModuleLoad(ModuleHead(steps) \o rest) = ModuleOperands(rest)
<1> TAKE steps \in Nat, rest \in Bytes
<1> DEFINE rd == ModuleHead(steps) \o rest
           r == ReadLength(rd)
<1>1. PICK n : n = 1024 OBVIOUS
<1>2. r = Got(n, rest) BY <1>1, ModuleHeadIs, LengthRead
<1>3. r.ok /\ r.rest = rest BY <1>2, GotHas
<1>4. ModuleLoad(rd) = IF r.ok THEN ModuleOperands(r.rest) ELSE Panicked BY Zenon DEF ModuleLoad, Bind
<1> HIDE DEF r
<1> QED BY Zenon, <1>3, <1>4

\* The pieces of a value between its id and the real at its end.
Flat(list, steps, signed) == FlattenSeq(ModulePieces(list, steps, signed))

\* The value is read as its pieces, the real and what follows it.
ReadsPieces(list, steps, signed, float, rest) ==
  ParseObject(ModuleBytes(list, steps, signed, float) \o rest, 7)
    = ModuleOperands(Flat(list, steps, signed) \o (ModuleReal(float) \o (<<0>> \o rest)))

LEMMA ModuleReads ==
  \A list, steps, signed, float, rest :
    /\ steps \in Nat /\ float \in BOOLEAN /\ rest \in Bytes
    /\ Flat(list, steps, signed) \in Bytes
    => ReadsPieces(list, steps, signed, float, rest)
<1> TAKE list, steps, signed, float, rest
<1> HAVE /\ steps \in Nat /\ float \in BOOLEAN /\ rest \in Bytes
         /\ Flat(list, steps, signed) \in Bytes
<1> SUFFICES ParseObject(ModuleBytes(list, steps, signed, float) \o rest, 7)
               = ModuleOperands(Flat(list, steps, signed) \o (ModuleReal(float) \o (<<0>> \o rest)))
  BY DEF ReadsPieces
<1> DEFINE head == ModuleHead(steps)
           flat == Flat(list, steps, signed)
           real == ModuleReal(float)
           zero == <<0>>
           all == ModuleBytes(list, steps, signed, float) \o rest
           operands == flat \o (real \o (zero \o rest))
<1>1. head \in Bytes BY ModuleHeadIs
<1>2. zero \in Bytes
  <2>1. 0 \in Byte BY DEF Byte
  <2> QED BY <2>1 DEF Bytes
<1>3. real \in Bytes BY RealTaken DEF Taken
<1>4. all = (head \o flat \o real \o zero) \o rest BY ModuleBytesAre DEF Flat
<1> HIDE DEF head, flat, real, zero, all
<1>5. all = head \o operands /\ operands \in Bytes
  <2>1. flat \in Bytes BY DEF flat
  <2>2. rest \in Bytes OBVIOUS
  <2>3. OperandsIn(head, flat, real, zero, rest)
    BY Zenon, <1>1, <1>2, <1>3, <2>1, <2>2, ModuleAssociates
  <2> QED BY <1>4, <2>3 DEF OperandsIn
<1> HIDE DEF operands
<1>6. ModuleLoad(all) = ModuleOperands(operands) BY Zenon, <1>5, ModuleLoads DEF head
<1>7. ParseObject(all, 7) = ModuleLoad(all) BY ParseObjectOf
<1> QED BY <1>6, <1>7 DEF all, operands, flat, real, zero

\* After the operands, a real and the end.
LEMMA ModuleEndsAfter ==
  \A rest \in Bytes, float \in BOOLEAN :
    /\ ModuleOperands(ModuleReal(float) \o (<<0>> \o rest)) = IF float THEN Panicked ELSE Got(<<>>, rest)
    /\ ModuleReal(float) \o (<<0>> \o rest) \in Bytes
    /\ ModuleReal(float) \in Bytes
<1> TAKE rest \in Bytes, float \in BOOLEAN
<1>1. <<0>> \o rest \in Bytes
  <2>1. 0 \in Byte BY DEF Byte
  <2> QED BY <2>1 DEF Bytes
<1> DEFINE end == ModuleReal(float)
           left == <<0>> \o rest
<1>2. Taken(end, float) BY RealTaken
<1>3. ModuleOperands(left) = Got(<<>>, rest) BY ModuleEnds
<1> HIDE DEF end, left
<1>4. ModuleOperands(end \o left) = IF float THEN Panicked ELSE ModuleOperands(left)
  BY Zenon, <1>1, <1>2 DEF Taken, left
<1>5. end \in Bytes BY <1>2 DEF Taken
<1>6. end \o left \in Bytes BY <1>1, <1>5, BytesConcat DEF left
<1> QED BY <1>3, <1>4, <1>5, <1>6 DEF end, left

\* What ModulesPassedOver says of a value whose integers are unsigned.
LEMMA UnsignedPassedOver ==
  \A list \in Seq(Storable), steps \in Nat, rest \in Bytes, float \in BOOLEAN :
    ParseObject(ModuleBytes(list, steps, FALSE, float) \o rest, 7)
      = IF AnyStops(list) \/ float THEN Panicked ELSE Got(<<>>, rest)
<1> TAKE list \in Seq(Storable), steps \in Nat, rest \in Bytes, float \in BOOLEAN
<1> DEFINE flat == Flat(list, steps, FALSE)
           end == ModuleReal(float) \o (<<0>> \o rest)
           read == ParseObject(ModuleBytes(list, steps, FALSE, float) \o rest, 7)
           last == IF float THEN Panicked ELSE Got(<<>>, rest)
<1>1. Read(flat, list) BY PiecesTaken DEF Flat
<1>2. ModuleOperands(end) = last /\ end \in Bytes BY ModuleEndsAfter
<1>3. ASSUME flat \in Bytes PROVE read = ModuleOperands(flat \o end)
  <2>1. ReadsPieces(list, steps, FALSE, float, rest) BY Zenon, <1>3, ModuleReads
  <2> QED BY <2>1 DEF ReadsPieces
<1> HIDE DEF flat, end, read, last
<1>4. CASE AnyStops(list)
  <2>1. Taken(flat, TRUE) BY Zenon, <1>1, <1>4 DEF Read
  <2>2. flat \in Bytes /\ ModuleOperands(flat \o end) = Panicked BY Zenon, <1>2, <2>1 DEF Taken
  <2> QED BY Zenon, <1>3, <1>4, <2>2 DEF read
<1>5. CASE ~AnyStops(list)
  <2>1. Taken(flat, FALSE) BY Zenon, <1>1, <1>5 DEF Read
  <2>2. flat \in Bytes /\ ModuleOperands(flat \o end) = last BY Zenon, <1>2, <2>1 DEF Taken
  <2>3. read = last BY <1>3, <2>2
  <2> QED BY Zenon, <1>5, <2>3 DEF read, last
<1> QED BY <1>4, <1>5

---------------------------------------------------------------------------

LEMMA SignedPieces == \A s \in Storable, steps \in Nat : ModulePiece(s, steps, TRUE) \in Bytes
<1> TAKE s \in Storable, steps \in Nat
<1>1. CASE ModulePiece(s, steps, TRUE) = ModulePiece(s, steps, FALSE)
  BY Zenon, <1>1, UnsignedTaken DEF Taken
<1>2. CASE IsNumber(s) /\ ~(ParseInt(s) < 0)
  <2>1. PICK v : v = ParseInt(s) OBVIOUS
  <2>2. v \in Int /\ Fits(v, 32) BY Zenon, <1>2, <2>1, StoredNumber
  <2>3. v >= 0 /\ ~(v < 0) BY <1>2, <2>1, <2>2
  <2>4. ModulePiece(s, steps, TRUE) = <<1>> \o LengthBytes(v, steps)
    BY Zenon, <1>2, <2>1, <2>3 DEF ModulePiece
  <2>5. v \in Word
    <3>1. PICK g \in Nat : g = Greatest(32) BY DEF Greatest
    <3>2. 0 <= v /\ v <= g BY <2>2, <2>3, <3>1 DEF Fits
    <3> QED BY <2>2, <3>1, <3>2 DEF Word
  <2>6. LengthBytes(v, steps) \in AsLength(v) BY <2>5, LengthsLoad
  <2>7. LengthBytes(v, steps) \in Bytes BY Zenon, <2>6 DEF AsLength
  <2>8. <<1>> \in Bytes
    <3>1. 1 \in Byte BY DEF Byte
    <3> QED BY <3>1 DEF Bytes
  <2> QED BY Zenon, <2>4, <2>7, <2>8, BytesConcat
<1>3. CASE ~IsNumber(s) \/ ParseInt(s) < 0
  <2>1. ModulePiece(s, steps, TRUE) = ModulePiece(s, steps, FALSE)
    <3>1. CASE ~IsNumber(s)
      <4>1. ModulePiece(s, steps, TRUE) = <<5>> \o StringBytes(s, steps) BY Zenon, <3>1 DEF ModulePiece
      <4>2. ModulePiece(s, steps, FALSE) = <<5>> \o StringBytes(s, steps) BY Zenon, <3>1 DEF ModulePiece
      <4> QED BY <4>1, <4>2
    <3>2. CASE IsNumber(s) /\ ParseInt(s) < 0
      <4> DEFINE bytes == Reverse(IntBytes(ParseInt(s), 8))
      <4>0. ~(ParseInt(s) >= 0)
        <5>1. ParseInt(s) \in Int BY Zenon, <3>2, StoredNumber
        <5> QED BY <3>2, <5>1
      <4>1. ModulePiece(s, steps, TRUE) = <<1, 129>> \o bytes BY Zenon, <3>2, <4>0 DEF ModulePiece
      <4>2. ModulePiece(s, steps, FALSE) = <<1, 129>> \o bytes BY Zenon, <3>2 DEF ModulePiece
      <4> QED BY <4>1, <4>2
    <3> QED BY <1>3, <3>1, <3>2
  <2> QED BY <1>1, <2>1
<1> QED BY <1>2, <1>3

\* The first piece comes first.
BeginsWith(bytes, a) == \E t \in Bytes : bytes = a \o t

LEMMA FirstPiece ==
  \A list \in Seq(Storable), steps \in Nat :
    /\ Flat(list, steps, TRUE) \in Bytes
    /\ list # <<>> => BeginsWith(Flat(list, steps, TRUE), ModulePiece(list[1], steps, TRUE))
<1> SUFFICES ASSUME NEW steps \in Nat
             PROVE  \A list \in Seq(Storable) :
                      /\ Flat(list, steps, TRUE) \in Bytes
                      /\ list # <<>> => BeginsWith(Flat(list, steps, TRUE), ModulePiece(list[1], steps, TRUE))
  OBVIOUS
<1> DEFINE P(s) == ModulePiece(s, steps, TRUE)
           F(list) == Flat(list, steps, TRUE)
           First(list) == F(list) \in Bytes /\ (list # <<>> => BeginsWith(F(list), P(list[1])))
           T == {list \in Seq(Storable) : First(list)}
<1>1. <<>> \in T
  <2>1. ModulePieces(<<>>, steps, TRUE) = <<>> BY DEF ModulePieces
  <2>2. F(<<>>) = <<>> BY <2>1, FlattenOfNone DEF Flat
  <2>3. <<>> \in Bytes BY DEF Bytes
  <2>4. <<>> \in Seq(Storable) OBVIOUS
  <2> HIDE DEF F, P
  <2>5. First(<<>>) BY Zenon, <2>2, <2>3
  <2> QED BY <2>4, <2>5
<1>2. ASSUME NEW list \in T, NEW s \in Storable PROVE Append(list, s) \in T
  <2>1. list \in Seq(Storable) /\ First(list) OBVIOUS
  <2>2. \A e \in Storable : P(e) \in Bytes BY SignedPieces
  <2>3. ModulePieces(list, steps, TRUE) \in Seq(Bytes) BY Zenon, <2>1, <2>2, PiecesTyped
  <2>4. ModulePieces(Append(list, s), steps, TRUE) = Append(ModulePieces(list, steps, TRUE), P(s))
    BY ZenonT(40), <2>1, PiecesAppend
  <2>5. F(Append(list, s)) = F(list) \o P(s)
    <3> DEFINE pieces == ModulePieces(list, steps, TRUE)
               piece == P(s)
    <3>1. pieces \in Seq(Seq(Byte)) /\ piece \in Seq(Byte) BY <2>2, <2>3 DEF Bytes
    <3> HIDE DEF pieces, piece
    <3>2. FlattenSeq(Append(pieces, piece)) = FlattenSeq(pieces) \o piece BY <3>1, FlattenAppends
    <3> QED BY <2>4, <3>2 DEF pieces, piece, Flat
  <2>6. P(s) \in Bytes BY <2>2
  <2> HIDE DEF F, P
  <2>7. F(list) \in Bytes BY <2>1
  <2>8. F(Append(list, s)) \in Bytes BY <2>5, <2>6, <2>7, BytesConcat
  <2>9. BeginsWith(F(Append(list, s)), P(Append(list, s)[1]))
    <3>1. CASE list = <<>>
      <4>1. Append(list, s)[1] = s BY <3>1
      <4>2. F(list) = <<>>
        <5>1. ModulePieces(<<>>, steps, TRUE) = <<>> BY DEF ModulePieces
        <5> QED BY <3>1, <5>1, FlattenOfNone DEF Flat, F
      <4>3. F(Append(list, s)) = P(s) \o <<>> /\ <<>> \in Bytes BY <2>5, <2>6, <4>2 DEF Bytes
      <4> QED BY Zenon, <4>1, <4>3 DEF BeginsWith
    <3>2. CASE list # <<>>
      <4>1. Append(list, s)[1] = list[1] BY <2>1, <3>2
      <4>2. PICK t \in Bytes : F(list) = P(list[1]) \o t BY Zenon, <2>1, <3>2 DEF BeginsWith
      <4>3. P(list[1]) \in Bytes
        <5>1. list[1] \in Storable BY <2>1, <3>2
        <5> QED BY Zenon, <2>2, <5>1
      <4>4. (P(list[1]) \o t) \o P(s) = P(list[1]) \o (t \o P(s)) BY Zenon, <2>6, <4>3, BytesAssociate
      <4>5. t \o P(s) \in Bytes BY <2>6, BytesConcat
      <4> QED BY Zenon, <2>5, <4>1, <4>2, <4>4, <4>5 DEF BeginsWith
    <3> QED BY <3>1, <3>2
  <2>10. Append(list, s) \in Seq(Storable) BY <2>1
  <2>11. First(Append(list, s)) BY Zenon, <2>8, <2>9
  <2> QED BY <2>10, <2>11
<1> HIDE DEF First
<1> HIDE DEF T
<1>3. T \in SUBSET Seq(Storable) BY DEF T
<1>4. T = Seq(Storable) BY <1>1, <1>2, <1>3, SequenceInduction
<1> QED BY <1>4 DEF T, First

---------------------------------------------------------------------------

LEMMA FirstChoice ==
  \A S : \A x \in S, middle \in Seq(S), last \in Seq(S) :
    Choice((<<x>> \o middle) \o last, 0) = x
<1> TAKE S
<1> TAKE x \in S, middle \in Seq(S), last \in Seq(S)
<1> DEFINE options == (<<x>> \o middle) \o last
<1>1. options \in Seq(S) /\ Len(options) \in Nat /\ Len(options) >= 1 /\ options[1] = x OBVIOUS
<1> HIDE DEF options
<1>2. PICK n \in Nat : n = Len(options) /\ n >= 1 BY <1>1
<1>3. Min({1, n}) = 1 BY <1>2, LeastOfTwo
<1>4. Choice(options, 0) = options[Min({0 + 1, Len(options)})] BY DEF Choice
<1>5. 0 + 1 = 1 OBVIOUS
<1> QED BY <1>1, <1>2, <1>3, <1>4, <1>5 DEF options

\* The narrowest encoding comes first.
LEMMA NarrowZero == LengthBytes(0, 0) = <<0>>
<1> DEFINE short == <<0>>
           medium == When(0 < 16384, <<64 + (0 \div 256), 0 % 256>>)
           wide == <<128>> \o Reverse(IntBytes(0, 4))
           wider == <<129>> \o Reverse(IntBytes(0, 8))
           S == {short, <<64 + (0 \div 256), 0 % 256>>, wide, wider}
<1>1. LengthBytes(0, 0) = Choice((When(0 < 64, short) \o medium) \o <<wide, wider>>, 0) BY DEF LengthBytes
<1>2. When(0 < 64, short) = <<short>> BY DEF When
<1>3. medium \in Seq(S) BY DEF When
<1> HIDE DEF short, medium, wide, wider
<1>4. short \in S /\ <<wide, wider>> \in Seq(S) OBVIOUS
<1> HIDE DEF S
<1>5. Choice((<<short>> \o medium) \o <<wide, wider>>, 0) = short BY <1>3, <1>4, FirstChoice
<1> QED BY <1>1, <1>2, <1>5 DEF short

\* More than what follows the value is left.
TooMuch(read, rest) == read.ok /\ Len(read.rest) > Len(rest)

LEMMA SignedZero ==
  \A list \in Seq(Storable), rest \in Bytes, float \in BOOLEAN : list # <<>> /\ list[1] = FormatInt(0) =>
    TooMuch(ParseObject(ModuleBytes(list, 0, TRUE, float) \o rest, 7), rest)
<1> TAKE list \in Seq(Storable), rest \in Bytes, float \in BOOLEAN
<1> HAVE list # <<>> /\ list[1] = FormatInt(0)
<1> DEFINE one == <<1>>
           zero == <<0>>
           flat == Flat(list, 0, TRUE)
           real == ModuleReal(float)
           end == real \o (zero \o rest)
           read == ParseObject(ModuleBytes(list, 0, TRUE, float) \o rest, 7)
<1>1. ModulePiece(list[1], 0, TRUE) = one \o zero
  <2>1. PICK v, s : v = 0 /\ s = list[1] OBVIOUS
  <2>2. IsNumber(s) /\ ParseInt(s) = v BY <2>1, FormatIntParses
  <2>3. ~(v < 0) /\ v >= 0 BY <2>1
  <2>4. ModulePiece(s, v, TRUE) = one \o LengthBytes(v, v) BY Zenon, <2>2, <2>3 DEF ModulePiece
  <2> QED BY <2>1, <2>4, NarrowZero
<1>2. one \in Bytes /\ zero \in Bytes /\ 1 \in Byte /\ 0 \in Byte
  <2>1. 1 \in Byte /\ 0 \in Byte BY DEF Byte
  <2> QED BY <2>1 DEF Bytes
<1>3. flat \in Bytes /\ BeginsWith(flat, one \o zero)
  <2>1. 0 \in Nat OBVIOUS
  <2> QED BY <1>1, <2>1, FirstPiece
<1>4. real \in Bytes BY ModuleEndsAfter
<1>5. end \in Bytes BY ModuleEndsAfter
<1>6. read = ModuleOperands(flat \o end)
  <2>1. 0 \in Nat OBVIOUS
  <2>2. ReadsPieces(list, 0, TRUE, float, rest) BY Zenon, <1>3, <2>1, ModuleReads
  <2> QED BY <2>2 DEF ReadsPieces
<1>7. PICK t \in Bytes : flat = (one \o zero) \o t BY Zenon, <1>3 DEF BeginsWith
<1> HIDE DEF one, zero, flat, real, end, read
<1> DEFINE left == t \o end
           more == zero \o left
<1>8. left \in Bytes BY <1>5, BytesConcat
<1>9. flat \o end = one \o more
  <2>1. Associates(one, zero, t) /\ zero \o t \in Bytes BY <1>2, BytesAssociates, BytesConcat
  <2>2. Associates(one, zero \o t, end) /\ Associates(zero, t, end) BY Zenon, <1>2, <1>5, <2>1, BytesAssociates
  <2> QED BY <1>7, <2>1, <2>2 DEF Associates
<1>10. more \in Bytes BY <1>2, <1>8, BytesConcat
<1>11. ModuleOperands(more) = Got(<<>>, left) BY <1>8, ModuleEnds DEF zero
<1>12. Len(left) > Len(rest)
  <2>1. zero \o rest \in Bytes /\ Len(zero \o rest) = Len(zero) + Len(rest) BY <1>2, BytesConcat
  <2>2. Len(end) = Len(real) + Len(zero \o rest) BY <1>4, <2>1, BytesConcat DEF end
  <2>3. Len(left) = Len(t) + Len(end) BY <1>5, BytesConcat
  <2>4. Len(zero) = 1 BY DEF zero
  <2>5. Len(t) \in Nat /\ Len(real) \in Nat /\ Len(rest) \in Nat BY <1>4 DEF Bytes
  <2> QED BY <2>1, <2>2, <2>3, <2>4, <2>5
<1> HIDE DEF left, more
<1>13. ModuleOperands(one \o more) = Got(<<>>, left)
  <2>1. PICK b : b = 1 /\ b \in Byte /\ b # 0 BY <1>2
  <2>2. one = <<b>> BY <2>1 DEF one
  <2>3. ModuleOperand(more, b) = Got(<<>>, more) BY <2>1, ModuleOperandOf
  <2>4. Got(<<>>, more).ok /\ Got(<<>>, more).rest = more BY GotHas
  <2> QED BY Zenon, <1>10, <1>11, <2>1, <2>2, <2>3, <2>4, OperandsStep
<1>14. read = Got(<<>>, left) BY <1>6, <1>9, <1>13
<1>15. read.ok /\ read.rest = left BY Zenon, <1>14, GotHas
<1>16. TooMuch(read, rest) BY <1>12, <1>15 DEF TooMuch
<1> QED BY <1>16 DEF read

\* ModuleObject.LoadFromBuffer: for every value of a thousand strings, what
\* ModulesPassedOver says of the modules it passes over, of those whose floats
\* or signed integers make it panic, and of those it takes to end early.
THEOREM ModulesArePassedOver == Spec => []ModulesPassedOver
<1>1. Walked => ModulesPassedOver
  <2> SUFFICES ASSUME Walked, kind = "strings", NEW signed \in BOOLEAN, NEW float \in BOOLEAN,
                      NEW read \in {Loaded(7, ModuleBytes(value, slack, signed, float))}
               PROVE  /\ ~signed => IF HasNegative \/ float THEN ~read.ok ELSE read = Got(<<>>, Following)
                      /\ signed /\ slack = 0 /\ value # <<>> /\ value[1] = FormatInt(0) =>
                           read.ok /\ Len(read.rest) > Len(Following)
    BY Zenon DEF ModulesPassedOver
  <2>1. slack \in Nat /\ value \in Seq(Storable) BY DEF Walked, Stocked
  <2>2. Following \in Bytes
    <3>1. 255 \in Byte /\ 254 \in Byte /\ 0 \in Byte BY DEF Byte
    <3> QED BY <3>1 DEF Following, Bytes
  <2>3. read = ParseObject(ModuleBytes(value, slack, signed, float) \o Following, 7) BY DEF Loaded
  <2>4. HasNegative <=> AnyStops(value) BY Zenon DEF HasNegative, AnyStops, Stops
  <2>5. ASSUME ~signed PROVE IF HasNegative \/ float THEN ~read.ok ELSE read = Got(<<>>, Following)
    <3>1. signed = FALSE BY <2>5
    <3>2. read = IF AnyStops(value) \/ float THEN Panicked ELSE Got(<<>>, Following)
      BY Zenon, <2>1, <2>2, <2>3, <3>1, UnsignedPassedOver
    <3> QED BY Zenon, <2>4, <3>2, PanicIsNot
  <2>6. ASSUME signed, slack = 0, value # <<>>, value[1] = FormatInt(0)
        PROVE  read.ok /\ Len(read.rest) > Len(Following)
    <3>1. signed = TRUE BY <2>6
    <3>2. TooMuch(read, Following) BY Zenon, <2>1, <2>2, <2>3, <2>6, <3>1, SignedZero
    <3> QED BY <3>2 DEF TooMuch
  <2> QED BY <2>5, <2>6
<1>2. Spec => []Walked BY WalkedInvariant
<1> QED BY <1>1, <1>2, PTL

---------------------------------------------------------------------------
(* The tag of a key *)

\* i is where b is in s first.
IsFirst(s, b, i) == i \in DOMAIN s /\ s[i] = b /\ \A j \in 1 .. i - 1 : s[j] # b

LEMMA FirstIsIndex ==
  \A s \in Bytes, b \in Byte : \A i : IsFirst(s, b, i) => IndexByte(s, b) = i /\ i > 0
<1> SUFFICES ASSUME NEW s \in Bytes, NEW b \in Byte, NEW i, IsFirst(s, b, i)
             PROVE  IndexByte(s, b) = i /\ i > 0
  OBVIOUS
<1> DEFINE S == {k \in DOMAIN s : s[k] = b}
<1>1. S \in SUBSET Int BY DEF Bytes
<1>2. i \in S BY DEF IsFirst
<1>3. ASSUME NEW k \in S PROVE i <= k
  <2>1. k \in Nat /\ k >= 1 /\ s[k] = b BY DEF Bytes
  <2>2. i \in Nat BY <1>2 DEF Bytes
  <2>3. ~(k \in 1 .. i - 1) BY <2>1 DEF IsFirst
  <2> QED BY <2>1, <2>2, <2>3
<1>4. Min(S) = i
  <2> HIDE DEF S
  <2> QED BY <1>1, <1>2, <1>3, MinIsLeast
<1>5. b \in ToSet(s) BY <1>2 DEF ToSet
<1>6. IndexByte(s, b) = i BY <1>4, <1>5 DEF IndexByte
<1>7. i > 0 BY <1>2 DEF Bytes
<1> QED BY <1>6, <1>7

LEMMA IndexIsFirst ==
  \A s \in Bytes, b \in Byte :
    \/ IndexByte(s, b) = 0 /\ \A i \in DOMAIN s : s[i] # b
    \/ IsFirst(s, b, IndexByte(s, b)) /\ IndexByte(s, b) > 0
<1> TAKE s \in Bytes, b \in Byte
<1> DEFINE S == {k \in DOMAIN s : s[k] = b}
<1>1. CASE b \notin ToSet(s) BY <1>1 DEF IndexByte, ToSet
<1>2. CASE b \in ToSet(s)
  <2>1. S # {} /\ S \in SUBSET Nat BY <1>2 DEF ToSet, Bytes
  <2>2. PICK i \in S : \A k \in S : i <= k
    <3> HIDE DEF S
    <3> QED BY <2>1, LeastExists
  <2>3. i \in Nat /\ i \in DOMAIN s /\ DOMAIN s = 1 .. Len(s) /\ Len(s) \in Nat BY DEF Bytes
  <2>4. \A j \in 1 .. i - 1 : s[j] # b
    <3> SUFFICES ASSUME NEW j \in 1 .. i - 1, s[j] = b PROVE FALSE OBVIOUS
    <3>1. j \in DOMAIN s /\ ~(i <= j) BY <2>3
    <3> QED BY <2>2, <3>1
  <2>5. IsFirst(s, b, i) BY <2>3, <2>4 DEF IsFirst
  <2>6. IndexByte(s, b) = i /\ i > 0 BY <2>5, FirstIsIndex
  <2> QED BY <2>5, <2>6
<1> QED BY <1>1, <1>2

\* The bytes after the first s of a key.
Behind(key, s) == SubSeq(key, s + 1, Len(key))

LEMMA BehindIs ==
  \A key \in Bytes : \A s \in DOMAIN key :
    /\ Behind(key, s) \in Bytes /\ s \in Nat /\ Len(key) \in Nat
    /\ DOMAIN Behind(key, s) = 1 .. Len(key) - s
    /\ \A i \in 1 .. Len(key) - s : Behind(key, s)[i] = key[s + i]
  BY DEF Behind, Bytes

\* A tag is where Key looks for it.
LEMMA TagIsFound ==
  \A key \in Bytes : \A s, e \in DOMAIN key :
    HasTag(key, s, e) <=>
      IsFirst(key, Open, s) /\ IsFirst(Behind(key, s), Close, e - s) /\ e - s > 1
<1> TAKE key \in Bytes
<1> TAKE s, e \in DOMAIN key
<1> DEFINE rest == Behind(key, s)
           n == Len(key)
           d == e - s
<1>1. /\ s \in Nat /\ e \in Nat /\ n \in Nat /\ s >= 1 /\ e >= 1 /\ s <= n /\ e <= n
      /\ DOMAIN key = 1 .. n
  BY DEF Bytes
<1>2. DOMAIN rest = 1 .. n - s /\ \A i \in 1 .. n - s : rest[i] = key[s + i] BY BehindIs
<1> HIDE DEF rest
<1>3. ASSUME HasTag(key, s, e)
      PROVE  IsFirst(key, Open, s) /\ IsFirst(rest, Close, d) /\ d > 1
  <2>1. /\ key[s] = Open /\ \A i \in 1 .. s - 1 : key[i] # Open
        /\ e > s + 1
        /\ key[e] = Close /\ \A i \in s + 1 .. e - 1 : key[i] # Close
    BY <1>3 DEF HasTag
  <2>2. IsFirst(key, Open, s) BY <2>1 DEF IsFirst
  <2>3. d \in 1 .. n - s /\ d > 1 /\ s + d = e BY <1>1, <2>1
  <2>4. rest[d] = Close
    <3> HIDE DEF d
    <3> QED BY <1>2, <2>1, <2>3
  <2>5. ASSUME NEW j \in 1 .. d - 1 PROVE rest[j] # Close
    <3>1. j \in 1 .. n - s /\ s + j \in s + 1 .. e - 1 BY <1>1, <2>3
    <3> QED BY <1>2, <2>1, <3>1
  <2>6. IsFirst(rest, Close, d)
    <3> HIDE DEF d
    <3> QED BY <1>2, <2>3, <2>4, <2>5 DEF IsFirst
  <2> QED BY <2>2, <2>3, <2>6
<1>4. ASSUME IsFirst(key, Open, s), IsFirst(rest, Close, d), d > 1
      PROVE  HasTag(key, s, e)
  <2>1. key[s] = Open /\ \A i \in 1 .. s - 1 : key[i] # Open BY <1>4 DEF IsFirst
  <2>2. e > s + 1 BY <1>1, <1>4
  <2>3. d \in 1 .. n - s /\ s + d = e BY <1>1, <2>2
  <2>4. key[e] = Close
    <3>1. rest[d] = Close BY <1>4 DEF IsFirst
    <3> HIDE DEF d
    <3> QED BY <1>2, <2>3, <3>1
  <2>5. ASSUME NEW i \in s + 1 .. e - 1 PROVE key[i] # Close
    <3>1. PICK j \in Int : j = i - s BY <1>1
    <3>2. j \in 1 .. d - 1 /\ j \in 1 .. n - s /\ s + j = i BY <1>1, <2>3, <3>1
    <3>3. rest[j] # Close BY <1>4, <3>2 DEF IsFirst
    <3> QED BY <1>2, <3>2, <3>3
  <2> QED BY <2>1, <2>2, <2>4, <2>5 DEF HasTag
<1> QED BY <1>3, <1>4 DEF rest

\* Key: the part of a key that decides its slot is the one the cluster
\* specification gives, whatever the bytes and wherever the braces are.
THEOREM TagIsTheClusters == \A key \in Bytes : Key(key) = Hashed(key)
<1> TAKE key \in Bytes
<1> DEFINE s == IndexByte(key, Open)
           rest == SubSeq(key, s + 1, Len(key))
           e == IndexByte(rest, Close)
<1>1. Open \in Byte /\ Close \in Byte BY DEF Open, Close, Byte
<1>2. CASE \E a, b \in DOMAIN key : HasTag(key, a, b)
  <2> DEFINE t == CHOOSE t \in (DOMAIN key) \X (DOMAIN key) : HasTag(key, t[1], t[2])
  <2>1. t \in (DOMAIN key) \X (DOMAIN key) /\ HasTag(key, t[1], t[2])
    <3>1. PICK a, b \in DOMAIN key : HasTag(key, a, b) BY <1>2
    <3>2. PICK p : p = <<a, b>> OBVIOUS
    <3>3. p \in (DOMAIN key) \X (DOMAIN key) /\ p[1] = a /\ p[2] = b BY <3>2
    <3>4. HasTag(key, p[1], p[2]) BY <3>1, <3>3
    <3> QED BY Zenon, <3>3, <3>4
  <2>2. PICK a, b \in DOMAIN key : a = t[1] /\ b = t[2]
    <3> HIDE DEF t
    <3>1. t[1] \in DOMAIN key /\ t[2] \in DOMAIN key BY <2>1
    <3> QED BY Zenon, <3>1
  <2>3. Hashed(key) = SubSeq(key, a + 1, b - 1) BY Zenon, <1>2, <2>2 DEF Hashed
  <2>4. HasTag(key, a, b) BY <2>1, <2>2
  <2> HIDE DEF t
  <2>5. IsFirst(key, Open, a) /\ IsFirst(Behind(key, a), Close, b - a) /\ b - a > 1
    BY <2>4, TagIsFound
  <2>6. s = a /\ s > 0 BY <1>1, <2>5, FirstIsIndex
  <2>7. rest = Behind(key, a) BY <2>6 DEF Behind
  <2>8. rest \in Bytes BY <2>7, BehindIs
  <2> HIDE DEF s, rest
  <2>9. e = b - a BY <1>1, <2>5, <2>7, <2>8, FirstIsIndex
  <2>10. Key(key) = SubSeq(rest, 1, e - 1) BY <2>5, <2>6, <2>9 DEF Key, s, rest
  <2>11. SubSeq(rest, 1, e - 1) = SubSeq(key, a + 1, b - 1)
    <3> HIDE DEF e
    <3>1. a \in Nat /\ b \in Nat /\ Len(key) \in Nat /\ b <= Len(key) /\ a >= 1 BY DEF Bytes
    <3>2. e - 1 \in Nat /\ e - 1 <= Len(key) - a BY <2>5, <2>9, <3>1
    <3>3. \A i \in 1 .. Len(key) - a : rest[i] = key[a + i] BY <2>7, BehindIs
    <3>4. ASSUME NEW i \in 1 .. e - 1 PROVE rest[i] = key[a + i]
      <4>1. i \in 1 .. Len(key) - a BY <3>1, <3>2
      <4> QED BY <3>3, <4>1
    <3>5. SubSeq(rest, 1, e - 1) = [i \in 1 .. e - 1 |-> rest[i]] BY <2>8, <3>2
    <3>6. SubSeq(key, a + 1, b - 1) = [i \in 1 .. e - 1 |-> key[a + i]]
      <4> DEFINE low == a + 1
                 high == b - 1
      <4>1. (high - low) + 1 = e - 1 /\ low \in Nat /\ high \in Nat BY <2>5, <2>9, <3>1
      <4>2. \A i \in 1 .. e - 1 : (low + i) - 1 = a + i BY <3>1, <3>2
      <4> HIDE DEF low, high
      <4>3. SubSeq(key, low, high) = [i \in 1 .. e - 1 |-> key[(low + i) - 1]] BY <4>1
      <4> QED BY <4>2, <4>3 DEF low, high
    <3> QED BY <3>4, <3>5, <3>6
  <2> QED BY <2>3, <2>10, <2>11
<1>3. CASE ~\E a, b \in DOMAIN key : HasTag(key, a, b)
  <2>1. Hashed(key) = key BY <1>3 DEF Hashed
  <2>2. ~(s > 0 /\ e > 1)
    <3> SUFFICES ASSUME s > 0, e > 1 PROVE FALSE OBVIOUS
    <3>1. IsFirst(key, Open, s)
      <4>1. \/ s = 0 /\ \A i \in DOMAIN key : key[i] # Open
            \/ IsFirst(key, Open, s) /\ s > 0
        BY <1>1, IndexIsFirst
      <4> HIDE DEF s
      <4> QED BY <4>1
    <3> HIDE DEF s
    <3>2. s \in DOMAIN key BY <3>1 DEF IsFirst
    <3>3. rest = Behind(key, s) /\ rest \in Bytes BY <3>2, BehindIs DEF Behind
    <3>4. IsFirst(rest, Close, e)
      <4>1. \/ e = 0 /\ \A i \in DOMAIN rest : rest[i] # Close
            \/ IsFirst(rest, Close, e) /\ e > 0
        BY <1>1, <3>3, IndexIsFirst
      <4> HIDE DEF e, rest
      <4> QED BY <4>1
    <3>5. e \in 1 .. Len(key) - s /\ s \in Nat /\ s >= 1 /\ Len(key) \in Nat /\ DOMAIN key = 1 .. Len(key)
      <4>1. DOMAIN Behind(key, s) = 1 .. Len(key) - s BY <3>2, BehindIs
      <4>2. e \in DOMAIN rest BY <3>4 DEF IsFirst
      <4> HIDE DEF e, rest
      <4> QED BY <3>2, <3>3, <4>1, <4>2 DEF Bytes
    <3> HIDE DEF e, rest
    <3> DEFINE b == s + e
    <3>6. b \in DOMAIN key /\ b - s = e BY <3>5
    <3> HIDE DEF b
    <3>7. HasTag(key, s, b) BY <3>1, <3>2, <3>3, <3>4, <3>6, TagIsFound
    <3> QED BY <1>3, <3>2, <3>6, <3>7
  <2>3. Key(key) = key BY Zenon, <2>2 DEF Key
  <2> QED BY <2>1, <2>3
<1> QED BY <1>2, <1>3

\* What s \o t has where.
Joined(w, s, t) ==
  /\ w = s \o t /\ w \in Bytes
  /\ Len(w) = Len(s) + Len(t)
  /\ \A i \in 1 .. Len(s) : w[i] = s[i]
  /\ \A i \in 1 .. Len(t) : w[Len(s) + i] = t[i]

LEMMA ConcatJoins == \A s, t \in Bytes : Joined(s \o t, s, t)
  BY DEF Joined, Bytes

\* A key between braces, the first that opens and the first after it that closes.
Tagged(w, p, key) ==
  /\ w \in Bytes /\ p \in Nat /\ p + Len(key) + 2 <= Len(w)
  /\ w[p + 1] = Open /\ \A i \in 1 .. p : w[i] # Open
  /\ \A i \in 1 .. Len(key) : w[p + 1 + i] = key[i]
  /\ w[p + Len(key) + 2] = Close

LEMMA TaggedIs ==
  \A key, prefix, suffix \in Bytes :
    Open \notin ToSet(prefix)
      => Tagged(prefix \o <<Open>> \o key \o <<Close>> \o suffix, Len(prefix), key)
<1> TAKE key, prefix, suffix \in Bytes
<1> HAVE Open \notin ToSet(prefix)
<1>1. <<Open>> \in Bytes /\ <<Close>> \in Bytes
  <2>1. Open \in Byte /\ Close \in Byte BY DEF Open, Close, Byte
  <2> QED BY <2>1 DEF Bytes
<1> DEFINE a == prefix \o <<Open>>
           b == a \o key
           c == b \o <<Close>>
           w == c \o suffix
           p == Len(prefix)
           n == Len(key)
<1>2. Joined(a, prefix, <<Open>>) BY <1>1, ConcatJoins
<1>3. a \in Bytes BY <1>2 DEF Joined
<1>4. Joined(b, a, key) BY <1>3, ConcatJoins
<1>5. b \in Bytes BY <1>4 DEF Joined
<1>6. Joined(c, b, <<Close>>) BY <1>1, <1>5, ConcatJoins
<1>7. c \in Bytes BY <1>6 DEF Joined
<1>8. Joined(w, c, suffix) BY <1>7, ConcatJoins
<1>9. w \in Bytes BY <1>8 DEF Joined
<1>10. /\ Len(<<Open>>) = 1 /\ <<Open>>[1] = Open /\ Len(<<Close>>) = 1 /\ <<Close>>[1] = Close
       /\ p \in Nat /\ n \in Nat /\ Len(suffix) \in Nat
  BY DEF Bytes
<1>11. \A i \in 1 .. p : prefix[i] # Open BY DEF ToSet, Bytes
<1> DEFINE open == <<Open>>
           close == <<Close>>
<1>12. /\ Len(a) = p + Len(open) /\ Len(b) = Len(a) + n /\ Len(c) = Len(b) + Len(close)
       /\ Len(w) = Len(c) + Len(suffix)
  BY <1>2, <1>4, <1>6, <1>8 DEF Joined
<1>13. /\ \A i \in 1 .. p : a[i] = prefix[i]
       /\ \A i \in 1 .. Len(open) : a[p + i] = open[i]
       /\ \A i \in 1 .. Len(a) : b[i] = a[i]
       /\ \A i \in 1 .. n : b[Len(a) + i] = key[i]
       /\ \A i \in 1 .. Len(b) : c[i] = b[i]
       /\ \A i \in 1 .. Len(close) : c[Len(b) + i] = close[i]
       /\ \A i \in 1 .. Len(c) : w[i] = c[i]
  BY <1>2, <1>4, <1>6, <1>8 DEF Joined
<1> HIDE DEF a, b, c, w, p, n, open, close
<1>14. Len(open) = 1 /\ open[1] = Open /\ Len(close) = 1 /\ close[1] = Close
  BY <1>10 DEF open, close
<1>15. Len(a) = p + 1 /\ Len(b) = p + 1 + n /\ Len(c) = p + n + 2 /\ Len(w) >= p + n + 2
  BY <1>10, <1>12, <1>14
<1>16. \A i \in 1 .. p : w[i] # Open
  <2> TAKE i \in 1 .. p
  <2>1. i \in 1 .. Len(a) /\ i \in 1 .. Len(b) /\ i \in 1 .. Len(c) BY <1>10, <1>15
  <2> QED BY <1>11, <1>13, <2>1
<1>17. w[p + 1] = Open
  <2>1. 1 \in 1 .. Len(open) /\ p + 1 \in 1 .. Len(a) /\ p + 1 \in 1 .. Len(b) /\ p + 1 \in 1 .. Len(c)
    BY <1>10, <1>14, <1>15
  <2> QED BY <1>13, <1>14, <2>1
<1>18. \A i \in 1 .. n : w[p + 1 + i] = key[i]
  <2> TAKE i \in 1 .. n
  <2>1. p + 1 + i \in 1 .. Len(b) /\ p + 1 + i \in 1 .. Len(c) BY <1>10, <1>15
  <2>2. b[p + 1 + i] = key[i] BY <1>13, <1>15
  <2> QED BY <1>13, <2>1, <2>2
<1>19. w[p + n + 2] = Close
  <2>1. 1 \in 1 .. Len(close) /\ p + n + 2 \in 1 .. Len(c) /\ Len(b) + 1 = p + n + 2
    BY <1>10, <1>14, <1>15
  <2>2. c[Len(b) + 1] = Close BY <1>13, <1>14, <2>1
  <2> QED BY <1>13, <2>1, <2>2
<1>20. Tagged(w, p, key) BY <1>9, <1>10, <1>15, <1>16, <1>17, <1>18, <1>19 DEF Tagged, n
<1> QED BY Zenon, <1>20 DEF a, b, c, w, p

\* Key: a tag decides alone, whatever bytes are before and after its braces.
THEOREM TagDecidesKey ==
  \A key, prefix, suffix \in Bytes :
    key # <<>> /\ Close \notin ToSet(key) /\ Open \notin ToSet(prefix)
      => Key(prefix \o <<Open>> \o key \o <<Close>> \o suffix) = key
<1>1. ASSUME NEW w, NEW p, NEW key \in Bytes, key # <<>>, Close \notin ToSet(key), Tagged(w, p, key)
      PROVE  Key(w) = key
  <2> DEFINE n == Len(key)
             s == IndexByte(w, Open)
             rest == SubSeq(w, s + 1, Len(w))
             e == IndexByte(rest, Close)
  <2>1. Open \in Byte /\ Close \in Byte BY DEF Open, Close, Byte
  <2>2. /\ w \in Bytes /\ p \in Nat /\ p + n + 2 <= Len(w)
        /\ w[p + 1] = Open /\ \A i \in 1 .. p : w[i] # Open
        /\ \A i \in 1 .. n : w[p + 1 + i] = key[i]
        /\ w[p + n + 2] = Close
    BY <1>1 DEF Tagged
  <2>3. /\ n \in Nat /\ n > 0 /\ Len(w) \in Nat /\ DOMAIN w = 1 .. Len(w) /\ DOMAIN key = 1 .. n
    BY <1>1, <2>2 DEF Bytes
  <2>4. \A i \in 1 .. n : key[i] # Close BY <1>1, <2>3 DEF ToSet
  <2>5. IsFirst(w, Open, p + 1)
    <3>1. p + 1 \in DOMAIN w BY <2>2, <2>3
    <3>2. (p + 1) - 1 = p BY <2>2
    <3> QED BY <2>2, <3>1, <3>2 DEF IsFirst
  <2>6. s = p + 1 /\ s > 0 BY <2>1, <2>2, <2>5, FirstIsIndex
  <2>7. rest = Behind(w, p + 1) BY <2>6 DEF Behind
  <2> HIDE DEF s, rest, n
  <2>8. /\ rest \in Bytes /\ DOMAIN rest = 1 .. Len(w) - (p + 1)
        /\ \A i \in 1 .. Len(w) - (p + 1) : rest[i] = w[(p + 1) + i]
    <3>1. p + 1 \in DOMAIN w BY <2>5 DEF IsFirst
    <3> QED BY <2>2, <2>7, <3>1, BehindIs
  <2>9. \A i \in 1 .. n : i \in 1 .. Len(w) - (p + 1) /\ rest[i] = key[i]
    <3> TAKE i \in 1 .. n
    <3>1. i \in 1 .. Len(w) - (p + 1) BY <2>2, <2>3
    <3> QED BY <2>2, <2>8, <3>1
  <2>10. n + 1 \in 1 .. Len(w) - (p + 1) /\ (p + 1) + (n + 1) = p + n + 2 BY <2>2, <2>3
  <2>11. rest[n + 1] = Close BY <2>2, <2>8, <2>10
  <2>12. IsFirst(rest, Close, n + 1)
    <3>1. (n + 1) - 1 = n BY <2>3
    <3> QED BY <2>4, <2>8, <2>9, <2>10, <2>11, <3>1 DEF IsFirst
  <2>13. e = n + 1 BY <2>1, <2>8, <2>12, FirstIsIndex
  <2>14. e > 1 /\ e - 1 = n BY <2>3, <2>13
  <2>15. Key(w) = SubSeq(rest, 1, e - 1) BY <2>6, <2>14 DEF Key, s, rest
  <2>16. SubSeq(rest, 1, n) = key
    <3>1. SubSeq(rest, 1, n) = [i \in 1 .. n |-> rest[i]] BY <2>3, <2>8
    <3>2. key = [i \in 1 .. n |-> key[i]] BY <2>3 DEF Bytes
    <3> QED BY <2>9, <3>1, <3>2
  <2> QED BY <2>14, <2>15, <2>16
<1>2. SUFFICES ASSUME NEW key \in Bytes, NEW prefix \in Bytes, NEW suffix \in Bytes,
                      key # <<>>, Close \notin ToSet(key), Open \notin ToSet(prefix)
               PROVE  Key(prefix \o <<Open>> \o key \o <<Close>> \o suffix) = key
  OBVIOUS
<1>3. Tagged(prefix \o <<Open>> \o key \o <<Close>> \o suffix, Len(prefix), key)
  BY <1>2, TaggedIs
<1> QED BY Zenon, <1>1, <1>2, <1>3
=============================================================================
