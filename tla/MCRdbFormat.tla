---------------------------- MODULE MCRdbFormat ----------------------------
(* The decoders are functions: this module walks through values, one        *)
(* element, one stream command or one byte of a key at a time, and compares *)
(* what the code makes of their bytes with what they are.                   *)
EXTENDS RdbFormat

CONSTANTS
  Lengths,       \* lengths of strings that do not repeat themselves
  LongLengths,   \* lengths that are tried in values of one element only
  FewElements,   \* the elements of the longest values
  MaxElements,   \* how many elements a value may have
  MaxSlack,      \* steps from the narrowest encoding, for single elements
  NodeSize,      \* how many entries of a stream share a node
  KeyBytes,      \* the bytes of a key of several bytes
  MaxKey         \* how many it may have

\* The headers of a list tell its bytes and its elements.
ASSUME LengthsAssumption == \A n \in Lengths \cup LongLengths : n \in Nat /\ n <= 1000000
ASSUME MaxElementsAssumption == MaxElements \in 2 .. 1000

VARIABLES kind, slack, value

vars == <<kind, slack, value>>

\* Integers at the limits of the encodings.
Numbers ==
  {0, 7, 12, 13, 127, 128, 255, 4095, 4096, 32767, 32768, 8388607, 8388608, 2147483647}
    \cup {-1, -128, -129, -4096, -4097, -32768, -32769, -8388608, -8388609, -2147483647}

\* <<period, length>> of strings that repeat themselves, so that a reference
\* is short, at both limits of the short form, long, and far.
Repeats == {<<1, 4>>, <<1, 9>>, <<1, 10>>, <<3, 60>>, <<1, 265>>, <<260, 270>>}

Text(n) == [i \in 1 .. n |-> IF i = 1 THEN 65 ELSE 97 + (i % 26)]
Repeated(period, n) == [i \in 1 .. n |-> 97 + (((i - 1) % period) % 149)]

Elements == {FormatInt(v) : v \in Numbers} \cup {Text(n) : n \in Lengths}
              \cup {Repeated(r[1], r[2]) : r \in Repeats}
LongElements == {Text(n) : n \in LongLengths}
Few == {FormatInt(v) : v \in FewElements \cap Numbers} \cup {Text(n) : n \in FewElements \cap Lengths}

---------------------------------------------------------------------------
(* Values *)

EmptyStream == [nodes |-> <<>>, last |-> <<1, 1>>, groups |-> <<>>]

Init ==
  \/ kind = "strings" /\ slack \in 0 .. MaxSlack /\ value = <<>>
  \/ kind = "stream" /\ slack \in {0, 2} /\ value = EmptyStream
  \/ kind = "key" /\ slack = 0 /\ value = <<>>

Push ==
  /\ kind = "strings"
  /\ \/ value = <<>> /\ \E e \in Elements : value' = <<e>>
     \/ value = <<>> /\ slack <= 2 /\ \E e \in LongElements : value' = <<e>>
     \/ /\ Len(value) = 1 /\ value[1] \in Elements /\ slack <= 1
        /\ \E e \in Elements : value' = Append(value, e)
     \/ /\ Len(value) \in 2 .. MaxElements - 1 /\ ToSet(value) \subseteq Few
        /\ \E e \in Few : value' = Append(value, e)
  /\ UNCHANGED <<kind, slack>>

ExtendKey ==
  /\ kind = "key"
  /\ \/ value = <<>> /\ \E b \in 0 .. 255 : value' = <<b>>
     \/ /\ Len(value) \in 1 .. MaxKey - 1 /\ ToSet(value) \subseteq KeyBytes
        /\ \E b \in KeyBytes : value' = Append(value, b)
  /\ UNCHANGED <<kind, slack>>

After(a, b) == a[1] > b[1] \/ (a[1] = b[1] /\ a[2] > b[2])

\* Ids whose sequence numbers may be below that of the first of their node.
Ids == {<<1, 2>>, <<201, 0>>, <<201, 1>>}

Xadd ==
  /\ kind = "stream"
  /\ \E id \in Ids, fields \in {<< <<102>> >>, << <<102>>, <<103>> >>} :
       /\ After(id, value.last)
       /\ LET entry == [id |-> id, deleted |-> FALSE,
                        pairs |-> [i \in DOMAIN fields |-> <<fields[i], FormatInt(id[1] + i)>>]]
              full == value.nodes = <<>> \/ Len(Last(value.nodes)) = NodeSize
          IN value' = [value EXCEPT
               !.last = id,
               !.nodes = IF full THEN Append(@, <<entry>>)
                         ELSE [@ EXCEPT ![Len(@)] = Append(@, entry)]]
  /\ UNCHANGED <<kind, slack>>

\* A node whose entries are all deleted goes away.
Xdel ==
  /\ kind = "stream"
  /\ \E n \in DOMAIN value.nodes : \E i \in DOMAIN value.nodes[n] :
       /\ ~value.nodes[n][i].deleted
       /\ LET nodes == [value.nodes EXCEPT ![n][i].deleted = TRUE]
          IN value' = [value EXCEPT !.nodes =
                         SelectSeq(nodes, LAMBDA node : \E k \in DOMAIN node : ~node[k].deleted)]
  /\ UNCHANGED <<kind, slack>>

XgroupCreate ==
  /\ kind = "stream" /\ value.groups = <<>>
  /\ \E last \in {<<0, 0>>, value.last} :
       value' = [value EXCEPT !.groups =
         <<[name |-> <<71>>, last |-> last, consumers |-> <<<<120>>, <<121>>>>, pel |-> <<>>]>>]
  /\ UNCHANGED <<kind, slack>>

\* The group hands its next entry to a consumer.
Xreadgroup ==
  /\ kind = "stream" /\ value.groups # <<>>
  /\ LET unread == SelectSeq(LiveEntries(value), LAMBDA e : After(e.id, value.groups[1].last))
     IN /\ unread # <<>>
        /\ \E consumer \in ToSet(value.groups[1].consumers) :
             value' = [value EXCEPT
               !.groups[1].last = unread[1].id,
               !.groups[1].pel = Append(@, [id |-> unread[1].id, consumer |-> consumer,
                                             time |-> unread[1].id[1] + Len(@), count |-> 1])]
  /\ UNCHANGED <<kind, slack>>

Next == Push \/ ExtendKey \/ Xadd \/ Xdel \/ XgroupCreate \/ Xreadgroup

Spec == Init /\ [][Next]_vars

---------------------------------------------------------------------------
(* Properties *)

\* What follows a value in the file, which its loader must leave.
Following == <<255, 254, 0>>

Loaded(typeByte, bytes) == ParseObject(bytes \o Following, typeByte)

AllNumbers == \A i \in DOMAIN value : IsNumber(value[i])
HasNegative == \E i \in DOMAIN value : IsNumber(value[i]) /\ ParseInt(value[i]) < 0
ScoresAreNumbers == \A i \in DOMAIN value : i % 2 = 0 => IsNumber(value[i])

\* The types that store elements in pairs, and those the value can be put into.
PairTypes == {3, 4, 5, 12, 13, 16, 17}
Types ==
  {1, 2, 14, 18}
    \cup (IF Len(value) = 1 THEN {0} ELSE {})
    \cup (IF AllNumbers THEN {11} ELSE {})
    \cup (IF Len(value) < Unknown THEN {10, 12, 13, 16, 17} ELSE {})
    \cup (IF Len(value) % 2 = 0 THEN {4} ELSE {})
    \cup (IF Len(value) % 2 = 0 /\ ScoresAreNumbers THEN {3, 5} ELSE {})

\* ParseObject: strings, lists, sets, hashes and sorted sets are read back,
\* and not a byte more, from every type byte and encoding they may have been
\* stored with; a map with an odd number of entries never is.
ValuesLoad ==
  kind = "strings" =>
    \A typeByte \in Types :
      Loaded(typeByte, ValueBytes(typeByte, value, slack)) =
        IF typeByte \in PairTypes /\ Len(value) % 2 = 1 THEN Panicked
        ELSE Got(ValueOf(typeByte, value), Following)

\* ReadZipList and ReadListpack at a count that is not known any more: a
\* ziplist is never read to its end, a listpack only when it has exactly as
\* many elements as the count says; neither is read as anything but its beginning.
UncountedListsLoad ==
  kind = "strings" /\ Len(value) >= Unknown =>
    LET zip == ReadZipList(ZipListBytes(value, slack) \o Following)
        pack == ReadListpack(ListpackBytes(value, slack) \o Following)
    IN /\ zip.ok => IsStrictPrefix(zip.val, value) /\ zip.rest = Following
       /\ IF Len(value) = Unknown THEN pack = Got(value, Following) ELSE ~pack.ok

\* readStream: the commands are those that rebuild the stream, deleted entries
\* left out, whatever the fields its entries share and the groups reading it.
StreamsLoad ==
  kind = "stream" =>
    \A typeByte \in {15, 19} :
      Loaded(typeByte, StreamBytes(value, typeByte, slack)) = Got(StreamCommands(value), Following)

\* ModuleObject.LoadFromBuffer: a module value of strings, unsigned integers
\* and doubles is passed over to its end.  A float, four bytes in the file, is
\* read as the text of a score: -1 panics.  The operand of a signed integer is
\* taken for opcodes: a negative one panics, and a zero ends the value early,
\* the rest of it is taken for what follows.
ModulesPassedOver ==
  kind = "strings" =>
    \A signed, float \in BOOLEAN :
    \A read \in {Loaded(7, ModuleBytes(value, slack, signed, float))} :
      /\ ~signed => IF HasNegative \/ float THEN ~read.ok ELSE read = Got(<<>>, Following)
      /\ signed /\ slack = 0 /\ value # <<>> /\ value[1] = FormatInt(0) =>
           read.ok /\ Len(read.rest) > Len(Following)
=============================================================================
