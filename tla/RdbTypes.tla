------------------------------ MODULE RdbTypes ------------------------------
(***************************************************************************)
(* The objects of internal/rdb/types: what ParseObject reads for each type *)
(* byte of an RDB file.  An object keeps its elements; its key, which the  *)
(* loader has read before, is left out.                                    *)
(***************************************************************************)
EXTENDS RdbStructure

---------------------------------------------------------------------------
(* Helpers *)

\* <<list[1], list[2]>>, <<list[3], list[4]>>, ...  Go panics on an odd list:
\* hashes by an index out of range, sorted sets by a check.
Pairs(list) == [i \in 1 .. Len(list) \div 2 |-> <<list[2 * i - 1], list[2 * i]>>]

Paired(result) ==
  Bind(result, LAMBDA list, rest :
    IF Len(list) % 2 = 0 THEN Got(Pairs(list), rest) ELSE Panicked)

\* A length, and as many times what Read reads.
ReadCounted(rd, Read(_)) == Bind(ReadLength(rd), LAMBDA n, rest : ReadTimes(n, Read, rest))

ReadPair(rd, Read(_)) ==
  Bind(ReadString(rd), LAMBDA first, rest :
    Convert(Read(rest), LAMBDA second : <<first, second>>))

---------------------------------------------------------------------------
(* list.go *)

readList(rd) == ReadCounted(rd, ReadString)

readQuickList(rd) == Convert(ReadCounted(rd, ReadZipList), FlattenSeq)

QuickListNode(rd) ==
  Bind(ReadLength(rd), LAMBDA container, rest :
    CASE container = 1 -> Convert(ReadString(rest), LAMBDA ele : <<ele>>)
      [] container = 2 -> ReadListpack(rest)
      [] OTHER         -> Panicked)

readQuickList2(rd) == Convert(ReadCounted(rd, QuickListNode), FlattenSeq)

---------------------------------------------------------------------------
(* hash.go *)

\* The map after assigning the pairs in turn: a field's last value stays.
Assigned(pairs) ==
  [field \in {p[1] : p \in ToSet(pairs)} |->
     pairs[Max({i \in DOMAIN pairs : pairs[i][1] = field})][2]]

readHash(rd) ==
  Convert(ReadCounted(rd, LAMBDA r : ReadPair(r, ReadString)), Assigned)

readHashZiplist(rd) == Convert(Paired(ReadZipList(rd)), Assigned)
readHashListpack(rd) == Convert(Paired(ReadListpack(rd)), Assigned)

---------------------------------------------------------------------------
(* zset.go: members with their scores *)

readZset(rd) == ReadCounted(rd, LAMBDA r : ReadPair(r, ReadFloat))
readZset2(rd) == ReadCounted(rd, LAMBDA r : ReadPair(r, ReadDouble))
readZsetZiplist(rd) == Paired(ReadZipList(rd))
readZsetListpack(rd) == Paired(ReadListpack(rd))

---------------------------------------------------------------------------
(* module2.go: operands are read and dropped *)

Drop(result) == Convert(result, LAMBDA val : <<>>)

\* Mutation: a double is read in the text form of a float.
ModuleOperandText(rd, opcode) ==
  CASE opcode = 1 -> Got(<<>>, rd)
    [] opcode = 2 -> Drop(ReadLength(rd))
    [] opcode \in {3, 4} -> Drop(ReadFloat(rd))
    [] opcode = 5 -> Drop(ReadString(rd))
    [] OTHER      -> Panicked

\* The signed integer (1) has an opcode and, in the code, no operand.
ModuleOperand(rd, opcode) ==
  CASE opcode = 1 -> Got(<<>>, rd)
    [] opcode = 2 -> Drop(ReadLength(rd))
    [] opcode = 3 -> Drop(ReadFloat(rd))
    [] opcode = 4 -> Drop(ReadDouble(rd))
    [] opcode = 5 -> Drop(ReadString(rd))
    [] OTHER      -> Panicked

ModuleOperands(bytes) ==
  LET f[rd \in Seq(Byte)] ==
        Bind(ReadByte(rd), LAMBDA opcode, rest :
          IF opcode = 0 THEN Got(<<>>, rest)
          ELSE Bind(ModuleOperand(rest, opcode), LAMBDA none, left : f[left]))
  IN f[bytes]

ModuleLoad(rd) == Bind(ReadLength(rd), LAMBDA moduleId, rest : ModuleOperands(rest))

---------------------------------------------------------------------------
(* stream.go: the commands that rebuild the stream *)

\* Elements of a listpack are taken one by one; past the last Go panics.
nextString(elements) == ReadByte(elements)

nextInteger(elements) ==
  Bind(nextString(elements), LAMBDA ele, rest :
    IF IsInteger(ele) THEN Got(ParseInt(ele), rest) ELSE Panicked)

\* An id is its milliseconds and its sequence number, eight bytes each.
ReadId(rd) ==
  Convert(ReadBytes(rd, 16), LAMBDA bytes :
    <<BigEndian(SubSeq(bytes, 1, 8)), BigEndian(SubSeq(bytes, 9, 16))>>)

\* The master entry: how many entries live and are deleted, and the fields
\* that an entry with flag 2 shares; it ends with a zero.
MasterEntry(elements) ==
  Bind(ReadTimes(3, nextInteger, elements), LAMBDA counts, rest1 :
    Bind(ReadBytes(rest1, counts[3]), LAMBDA fields, rest2 :
      Bind(nextString(rest2), LAMBDA zero, rest :
        IF zero = <<48>>
        THEN Got([count |-> counts[1], deleted |-> counts[2], fields |-> fields], rest)
        ELSE Panicked)))

HasFlag(flags, flag) == (flags \div flag) % 2 = 1

EntryFields(elements, fields, flags) ==
  IF HasFlag(flags, 2)
  THEN Convert(ReadBytes(elements, Len(fields)),
               LAMBDA vals : [i \in DOMAIN fields |-> <<fields[i], vals[i]>>])
  ELSE Bind(nextInteger(elements), LAMBDA num, rest : Convert(ReadBytes(rest, 2 * num), Pairs))

\* Mutation: the count of pieces behind an entry is not skipped.
StreamEntryNoCount(elements, fields, id) ==
  Bind(ReadTimes(3, nextInteger, elements), LAMBDA head, rest :
    Convert(EntryFields(rest, fields, head[1]), LAMBDA pairs :
      [deleted |-> HasFlag(head[1], 1),
       cmd |-> [name |-> "xadd", id |-> <<id[1] + head[2], id[2] + head[3]>>, args |-> pairs]]))

\* One entry: flags, the difference to the id of the node, the fields, and the
\* number of pieces, which is skipped.
StreamEntry(elements, fields, id) ==
  Bind(ReadTimes(3, nextInteger, elements), LAMBDA head, rest1 :
    Bind(EntryFields(rest1, fields, head[1]), LAMBDA pairs, rest2 :
      Bind(nextString(rest2), LAMBDA lpCount, rest :
        Got([deleted |-> HasFlag(head[1], 1),
             cmd |-> [name |-> "xadd", id |-> <<id[1] + head[2], id[2] + head[3]>>,
                      args |-> pairs]], rest))))

\* Entries until as many live and deleted ones as the master entry counts.
StreamEntries(master, id, pieces) ==
  LET f[count \in Int, deleted \in Int, elements \in Seq(Seq(Byte))] ==
        IF count = 0 /\ deleted = 0 THEN Got(<<>>, elements)
        ELSE Bind(StreamEntry(elements, master.fields, id), LAMBDA e, rest :
               IF e.deleted THEN f[count, deleted - 1, rest]
               ELSE Convert(f[count - 1, deleted, rest], LAMBDA cmds : <<e.cmd>> \o cmds))
  IN f[master.count, master.deleted, pieces]

StreamNode(rd) ==
  Bind(ReadString(rd), LAMBDA key, rest1 :
    Bind(ReadListpack(rest1), LAMBDA elements, rest :
      Bind(ReadId(key), LAMBDA id, none :
        Bind(MasterEntry(elements), LAMBDA master, left :
          Bind(StreamEntries(master, id, left), LAMBDA cmds, unread :
            Got(cmds, rest))))))

\* A pending entry of a group: its id, when and how often it was delivered.
PelEntry(rd) ==
  Bind(ReadId(rd), LAMBDA id, rest1 :
    Bind(ReadUint(rest1, 8), LAMBDA time, rest :
      Convert(ReadLength(rest), LAMBDA count : <<id, <<time, count>> >>)))

\* A consumer: its name, when it was last seen, and the ids it has pending.
Consumer(rd) ==
  Bind(ReadString(rd), LAMBDA name, rest1 :
    Bind(ReadUint(rest1, 8), LAMBDA seen, rest :
      Convert(ReadCounted(rest, ReadId), LAMBDA ids : <<name, ids>>)))

\* The xclaim commands of the consumers, with the delivery the group has of
\* the id, or zeros.
Claims(group, pel, consumers) ==
  LET Delivery(id) == IF id \in DOMAIN pel THEN pel[id] ELSE <<0, 0>>
      Claim(consumer, id) == [name |-> "xclaim", group |-> group, consumer |-> consumer,
                              id |-> id, time |-> Delivery(id)[1], count |-> Delivery(id)[2]]
  IN FlattenSeq([c \in DOMAIN consumers |->
       [i \in DOMAIN consumers[c][2] |-> Claim(consumers[c][1], consumers[c][2][i])]])

StreamGroup(rd, typeByte) ==
  Bind(ReadString(rd), LAMBDA group, rest1 :
    Bind(ReadTimes(2, ReadLength, rest1), LAMBDA last, rest2 :
      Bind(ReadTimes(IF typeByte = 19 THEN 1 ELSE 0, ReadLength, rest2), LAMBDA offset, rest3 :
        Bind(ReadCounted(rest3, PelEntry), LAMBDA pel, rest4 :
          Bind(ReadCounted(rest4, Consumer), LAMBDA consumers, rest :
            Got(<<[name |-> "CREATE", group |-> group, id |-> last]>>
                  \o Claims(group, Assigned(pel), consumers), rest))))))

\* The nodes, the length, the last id, in a type 19 five lengths more, and the
\* groups.  A stream without nodes is made by an xadd that keeps nothing.
readStream(rd, typeByte) ==
  Bind(ReadCounted(rd, StreamNode), LAMBDA nodes, rest1 :
    Bind(ReadTimes(3, ReadLength, rest1), LAMBDA lengthAndLast, rest2 :
      Bind(ReadTimes(IF typeByte = 19 THEN 5 ELSE 0, ReadLength, rest2), LAMBDA extra, rest3 :
        Bind(ReadCounted(rest3, LAMBDA r : StreamGroup(r, typeByte)), LAMBDA groups, rest :
          LET lastid == Tail(lengthAndLast)
              empty == IF nodes = <<>> THEN <<[name |-> "xadd MAXLEN 0", id |-> lastid]>> ELSE <<>>
          IN Got(FlattenSeq(nodes) \o empty \o <<[name |-> "xsetid", id |-> lastid]>>
                   \o FlattenSeq(groups), rest)))))

---------------------------------------------------------------------------
(* interface.go *)

ParseObject(rd, typeByte) ==
  CASE typeByte = 0  -> ReadString(rd)
    [] typeByte = 1  -> readList(rd)
    [] typeByte = 10 -> ReadZipList(rd)
    [] typeByte = 14 -> readQuickList(rd)
    [] typeByte = 18 -> readQuickList2(rd)
    [] typeByte = 2  -> ReadCounted(rd, ReadString)     \* readSet
    [] typeByte = 11 -> ReadIntset(rd)
    [] typeByte = 3  -> readZset(rd)
    [] typeByte = 5  -> readZset2(rd)
    [] typeByte = 12 -> readZsetZiplist(rd)
    [] typeByte = 17 -> readZsetListpack(rd)
    [] typeByte = 4  -> readHash(rd)
    [] typeByte = 13 -> readHashZiplist(rd)
    [] typeByte = 16 -> readHashListpack(rd)
    [] typeByte \in {15, 19} -> readStream(rd, typeByte)
    [] typeByte = 7  -> ModuleLoad(rd)
    [] OTHER         -> Panicked    \* zipmaps (9), modules of version 1 (6), unknown types
=============================================================================
