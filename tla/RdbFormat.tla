----------------------------- MODULE RdbFormat -----------------------------
(***************************************************************************)
(* The RDB format: the bytes Redis writes for a value.  Redis is outside   *)
(* this repository; the encodings are those that internal/rdb/structure    *)
(* and internal/rdb/types are written to read.                             *)
(*                                                                         *)
(* Where the format has several encodings for the same thing, slack says   *)
(* how many steps to take from the narrowest to the wider ones.            *)
(***************************************************************************)
EXTENDS RdbTypes

---------------------------------------------------------------------------
(* Numbers and lengths *)

Choice(options, slack) == options[Min({slack + 1, Len(options)})]
When(condition, option) == IF condition THEN <<option>> ELSE <<>>

\* Little endian, two's complement.
IntBytes(v, width) ==
  LET f[p \in Int \X Nat] ==
        IF p[2] = 0 THEN <<>> ELSE <<p[1] % 256>> \o f[<<p[1] \div 256, p[2] - 1>>]
  IN f[<<v, width>>]

\* The strings that Redis stores as integers.
IsNumber(s) == IsInteger(s) /\ FormatInt(ParseInt(s)) = s

\* The greatest integer of 8, 13, 16, 24 and 32 bits, of which one is the sign.
Greatest(bits) ==
  CASE bits = 8  -> 127
    [] bits = 13 -> 4095
    [] bits = 16 -> 32767
    [] bits = 24 -> 8388607
    [] bits = 32 -> 2147483647

Fits(v, bits) == -Greatest(bits) - 1 <= v /\ v <= Greatest(bits)
IsInt(s, bits) == IsNumber(s) /\ Fits(ParseInt(s), bits)

LengthBytes(n, slack) ==
  Choice(When(n < 64, <<n>>)
           \o When(n < 16384, <<64 + n \div 256, n % 256>>)
           \o <<(<<128>> \o Reverse(IntBytes(n, 4))), (<<129>> \o Reverse(IntBytes(n, 8)))>>, slack)

\* A counter in two bytes, which cannot tell from Unknown on.
CountBytes(n) == IntBytes(Min({n, Unknown}), 2)

---------------------------------------------------------------------------
(* Strings *)

\* The least period of a string whose repetition a back reference can write.
Periods(s) ==
  {p \in 1 .. Len(s) - 3 : \A i \in p + 1 .. Len(s) : s[i] = s[i - p]}

Literals(s) ==
  LET f[i \in 0 .. Len(s)] ==
        IF i = Len(s) THEN <<>>
        ELSE LET n == Min({32, Len(s) - i})
             IN <<n - 1>> \o SubSeq(s, i + 1, i + n) \o f[i + n]
  IN f[0]

BackReference(distance, n) ==
  LET far == (distance - 1) \div 256
      near == (distance - 1) % 256
  IN IF n - 2 < 7 THEN <<(n - 2) * 32 + far, near>> ELSE <<224 + far, n - 9, near>>

LzfBytes(s) ==
  LET p == Min(Periods(s)) IN Literals(SubSeq(s, 1, p)) \o BackReference(p, Len(s) - p)

\* A reference reaches back 13 bits, and copies what 3 bits and a byte count.
Compressible(s) ==
  Periods(s) # {} /\ Min(Periods(s)) <= 8192 /\ Len(s) - Min(Periods(s)) <= 264

CompressedBytes(s, slack) ==
  <<195>> \o LengthBytes(Len(LzfBytes(s)), slack) \o LengthBytes(Len(s), slack) \o LzfBytes(s)

StringBytes(s, slack) ==
  Choice(When(IsInt(s, 8), <<192>> \o IntBytes(ParseInt(s), 1))
           \o When(IsInt(s, 16), <<193>> \o IntBytes(ParseInt(s), 2))
           \o When(IsInt(s, 32), <<194>> \o IntBytes(ParseInt(s), 4))
           \o When(Compressible(s), CompressedBytes(s, slack))
           \o <<LengthBytes(Len(s), slack) \o s>>, slack)

\* Structures travel in strings that are not integers.
Blob(bytes, slack) == LengthBytes(Len(bytes), slack) \o bytes

---------------------------------------------------------------------------
(* Ziplists, listpacks and intsets *)

ZipContentBytes(s, slack) ==
  LET n == Len(s)
  IN Choice(When(IsNumber(s) /\ ParseInt(s) \in 0 .. 12, <<241 + ParseInt(s)>>)
              \o When(IsInt(s, 8), <<254>> \o IntBytes(ParseInt(s), 1))
              \o When(IsInt(s, 16), <<192>> \o IntBytes(ParseInt(s), 2))
              \o When(IsInt(s, 24), <<240>> \o IntBytes(ParseInt(s), 3))
              \o When(IsInt(s, 32), <<208>> \o IntBytes(ParseInt(s), 4))
              \o When(IsInt(s, 32), <<224>> \o IntBytes(ParseInt(s), 8))
              \o When(n < 64, <<n>> \o s)
              \o When(n < 16384, <<64 + n \div 256, n % 256>> \o s)
              \o <<(<<128>> \o Reverse(IntBytes(n, 4)) \o s)>>, slack)

\* An entry tells the length of the one before it in one byte or in five.
ZipEntries(list, slack) ==
  LET f[i \in 0 .. Len(list)] ==
        IF i = 0 THEN [bytes |-> <<>>, last |-> 0]
        ELSE LET prev == f[i - 1]
                 prevlen == IF prev.last < 254 THEN <<prev.last>>
                            ELSE <<254>> \o IntBytes(prev.last, 4)
                 entry == prevlen \o ZipContentBytes(list[i], slack)
             IN [bytes |-> prev.bytes \o entry, last |-> Len(entry)]
  IN f[Len(list)].bytes

ZipListBytes(list, slack) ==
  LET entries == ZipEntries(list, slack)
  IN Blob(IntBytes(Len(entries) + 11, 4) \o IntBytes(10, 4) \o CountBytes(Len(list))
            \o entries \o <<255>>, slack)

\* The length of an entry in as few groups of seven bits as hold it, the last
\* value of each size being left to the next one.
BacklenBytes(n) ==
  LET most == <<127, 16382, 2097150, 268435454>>
      unit == <<1, 128, 16384, 2097152, 268435456>>
      groups == Min({g \in 1 .. 5 : g = 5 \/ n <= most[g]})
  IN [i \in 1 .. groups |->
        (IF i = 1 THEN 0 ELSE 128) + ((n \div unit[groups + 1 - i]) % 128)]

ListpackEntryBytes(s, slack) ==
  LET n == Len(s)
      v == ParseInt(s)
      content ==
        Choice(When(IsNumber(s) /\ v \in 0 .. 127, <<v>>)
                 \o When(IsInt(s, 13), <<192 + ((v \div 256) % 32), v % 256>>)
                 \o When(IsInt(s, 16), <<241>> \o IntBytes(v, 2))
                 \o When(IsInt(s, 24), <<242>> \o IntBytes(v, 3))
                 \o When(IsInt(s, 32), <<243>> \o IntBytes(v, 4))
                 \o When(IsInt(s, 32), <<244>> \o IntBytes(v, 8))
                 \o When(n < 64, <<128 + n>> \o s)
                 \o When(n < 4096, <<224 + n \div 256, n % 256>> \o s)
                 \o <<(<<240>> \o IntBytes(n, 4) \o s)>>, slack)
  IN content \o BacklenBytes(Len(content))

ListpackWith(count, list, slack) ==
  LET entries == FlattenSeq([i \in DOMAIN list |-> ListpackEntryBytes(list[i], slack)])
  IN Blob(IntBytes(Len(entries) + 7, 4) \o count \o entries \o <<255>>, slack)

ListpackBytes(list, slack) == ListpackWith(CountBytes(Len(list)), list, slack)

\* The width is that of the widest integer, or more.
IntsetBytes(list, slack) ==
  LET AllFit(bits) == \A i \in DOMAIN list : IsInt(list[i], bits)
      width == Choice(When(AllFit(16), 2) \o When(AllFit(32), 4) \o <<8>>, slack)
  IN Blob(IntBytes(width, 4) \o IntBytes(Len(list), 4)
            \o FlattenSeq([i \in DOMAIN list |-> IntBytes(ParseInt(list[i]), width)]), slack)

---------------------------------------------------------------------------
(* Values of strings *)

Counted(list, Bytes(_), slack) ==
  LengthBytes(Len(list), slack) \o FlattenSeq([i \in DOMAIN list |-> Bytes(list[i])])

\* Scores are decimal text after their length, or a double of IEEE 754.
FloatBytes(s) == <<Len(s)>> \o s

\* The digits of a number in base 2, the first of them a 1.
Binary(n) ==
  LET digits[m \in Nat] == IF m < 2 THEN <<m>> ELSE Append(digits[m \div 2], m % 2) IN digits[n]

Zeros(n) == [i \in 1 .. n |-> 0]

DoubleBytes(v) ==
  LET digits == Binary(IF v < 0 THEN -v ELSE v)
      exponent == Binary(Len(digits) + 1022)
      bits == IF v = 0 THEN Zeros(64)
              ELSE <<IF v < 0 THEN 1 ELSE 0>> \o Zeros(11 - Len(exponent)) \o exponent
                     \o Tail(digits) \o Zeros(53 - Len(digits))
  IN Reverse([b \in 1 .. 8 |-> Horner(0, 2, SubSeq(bits, 8 * b - 7, 8 * b))])

\* A quicklist of nodes that hold up to size elements, two below, which the
\* header of a node can count.
ASSUME NodesAssumption == Unknown > 2

Chunks(list, size) ==
  [i \in 1 .. (Len(list) + size - 1) \div size |->
     SubSeq(list, (i - 1) * size + 1, Min({i * size, Len(list)}))]

\* The bytes of a list of strings stored as the type the byte names.
ValueBytes(typeByte, list, slack) ==
  LET Str(s) == StringBytes(s, slack)
      Node2(node) == IF Len(node) = 1 THEN <<1>> \o Str(node[1])
                     ELSE <<2>> \o ListpackBytes(node, slack)
      Scored(Score(_)) == Counted(Pairs(list), LAMBDA p : Str(p[1]) \o Score(p[2]), slack)
  IN CASE typeByte = 0 -> Str(list[1])
       [] typeByte \in {1, 2} -> Counted(list, Str, slack)
       [] typeByte = 14 -> Counted(Chunks(list, 2), LAMBDA node : ZipListBytes(node, slack), slack)
       [] typeByte = 18 -> Counted(Chunks(list, 2), Node2, slack)
       [] typeByte \in {10, 12, 13} -> ZipListBytes(list, slack)
       [] typeByte \in {16, 17} -> ListpackBytes(list, slack)
       [] typeByte = 11 -> IntsetBytes(list, slack)
       [] typeByte = 3 -> Scored(FloatBytes)
       [] typeByte = 5 -> Scored(LAMBDA s : DoubleBytes(ParseInt(s)))
       [] typeByte = 4 -> Scored(Str)

\* What the loader is to make of it.
ValueOf(typeByte, list) ==
  CASE typeByte = 0 -> list[1]
    [] typeByte \in {12, 17} -> Pairs(list)
    [] typeByte \in {3, 5} -> [i \in DOMAIN Pairs(list) |->
                                 <<Pairs(list)[i][1], Float(ParseInt(Pairs(list)[i][2]))>>]
    [] typeByte \in {4, 13, 16} -> Assigned(Pairs(list))
    [] OTHER -> list

\* A module saves its reals in binary: -1 as a float of four bytes, or as a
\* double of eight.
ModuleReal(float) == IF float THEN <<3, 0, 0, 128, 191>> ELSE <<4>> \o DoubleBytes(-1)

\* A module value that saves the strings of the list, its integers as signed
\* or unsigned ones, and a real at its end.
ModuleBytes(list, slack, signed, float) ==
  LET Operand(s) ==
        CASE ~IsNumber(s) -> <<5>> \o StringBytes(s, slack)
          [] IsNumber(s) /\ ParseInt(s) < 0 ->
               <<1, 129>> \o Reverse(IntBytes(ParseInt(s), 8))
          [] IsNumber(s) /\ ParseInt(s) >= 0 /\ signed -> <<1>> \o LengthBytes(ParseInt(s), slack)
          [] OTHER -> <<2>> \o LengthBytes(ParseInt(s), slack)
  IN LengthBytes(1024, slack) \o FlattenSeq([i \in DOMAIN list |-> Operand(list[i])])
       \o ModuleReal(float) \o <<0>>

---------------------------------------------------------------------------
(* Streams: nodes of entries, the last id, and consumer groups *)

IdBytes(id) == Reverse(IntBytes(id[1], 8)) \o Reverse(IntBytes(id[2], 8))
IdLengths(id, slack) == LengthBytes(id[1], slack) \o LengthBytes(id[2], slack)

FieldsOf(entry) == [i \in DOMAIN entry.pairs |-> entry.pairs[i][1]]

\* An entry as strings: its values alone when it has the fields of the first.
EntryPieces(entry, first) ==
  LET same == FieldsOf(entry) = FieldsOf(first)
      flags == (IF entry.deleted THEN 1 ELSE 0) + (IF same THEN 2 ELSE 0)
      body == IF same THEN [i \in DOMAIN entry.pairs |-> entry.pairs[i][2]]
              ELSE <<FormatInt(Len(entry.pairs))>> \o FlattenSeq(entry.pairs)
      pieces == <<FormatInt(flags), FormatInt(entry.id[1] - first.id[1]),
                  FormatInt(entry.id[2] - first.id[2])>> \o body
  IN Append(pieces, FormatInt(Len(pieces)))

\* A node has far fewer pieces than the count can tell.
NodeBytes(node, slack) ==
  LET first == node[1]
      deleted == Len(SelectSeq(node, LAMBDA e : e.deleted))
      master == <<FormatInt(Len(node) - deleted), FormatInt(deleted),
                  FormatInt(Len(first.pairs))>> \o FieldsOf(first) \o <<FormatInt(0)>>
      entries == FlattenSeq([i \in DOMAIN node |-> EntryPieces(node[i], first)])
  IN Blob(IdBytes(first.id), slack)
       \o ListpackWith(IntBytes(Len(master \o entries), 2), master \o entries, slack)

PendingOf(group, consumer) == SelectSeq(group.pel, LAMBDA p : p.consumer = consumer)

GroupBytes(group, typeByte, slack) ==
  Blob(group.name, slack) \o IdLengths(group.last, slack)
    \o (IF typeByte = 19 THEN LengthBytes(0, slack) ELSE <<>>)
    \o Counted(group.pel, LAMBDA p : IdBytes(p.id) \o IntBytes(p.time, 8)
                                       \o LengthBytes(p.count, slack), slack)
    \o Counted(group.consumers, LAMBDA c : Blob(c, slack) \o IntBytes(0, 8)
                                             \o Counted([i \in DOMAIN PendingOf(group, c) |->
                                                           PendingOf(group, c)[i].id],
                                                        IdBytes, slack), slack)

LiveEntries(stream) == SelectSeq(FlattenSeq(stream.nodes), LAMBDA e : ~e.deleted)

StreamBytes(stream, typeByte, slack) ==
  Counted(stream.nodes, LAMBDA n : NodeBytes(n, slack), slack)
    \o LengthBytes(Len(LiveEntries(stream)), slack)
    \o IdLengths(stream.last, slack)
    \o (IF typeByte = 19 THEN FlattenSeq([i \in 1 .. 5 |-> LengthBytes(i, slack)]) ELSE <<>>)
    \o Counted(stream.groups, LAMBDA g : GroupBytes(g, typeByte, slack), slack)

\* The commands that rebuild a stream: its living entries in order, the last
\* id, and for each group its position and what every consumer has pending.
StreamCommands(stream) ==
  LET live == LiveEntries(stream)
      Claim(g, p) == [name |-> "xclaim", group |-> g.name, consumer |-> p.consumer,
                      id |-> p.id, time |-> p.time, count |-> p.count]
      PendingInOrder(g) ==
        FlattenSeq([c \in DOMAIN g.consumers |-> PendingOf(g, g.consumers[c])])
  IN [i \in DOMAIN live |-> [name |-> "xadd", id |-> live[i].id, args |-> live[i].pairs]]
       \o (IF stream.nodes = <<>> THEN <<[name |-> "xadd MAXLEN 0", id |-> stream.last]>> ELSE <<>>)
       \o <<[name |-> "xsetid", id |-> stream.last]>>
       \o FlattenSeq([i \in DOMAIN stream.groups |->
            <<[name |-> "CREATE", group |-> stream.groups[i].name, id |-> stream.groups[i].last]>>
              \o [k \in DOMAIN PendingInOrder(stream.groups[i]) |->
                    Claim(stream.groups[i], PendingInOrder(stream.groups[i])[k])]])
=============================================================================
