---------------------------- MODULE RdbStructure ----------------------------
(***************************************************************************)
(* The byte decoders of internal/rdb/structure.                            *)
(*                                                                         *)
(* A reader is the sequence of the bytes that are left in it.  A decoder   *)
(* panics, or returns a value and the reader after it; nothing recovers a  *)
(* panic of the loader, so every way to panic (a short read, an unknown    *)
(* encoding, an index out of range) is the same result here.  A Go string  *)
(* is the sequence of its bytes.  The numbers stay below 2^31 whatever     *)
(* their width, which is as far as TLC counts.                             *)
(***************************************************************************)
EXTENDS Integers, Sequences, SequencesExt

CONSTANT Unknown    \* the element count that says "not known": 65535 in Redis

ASSUME UnknownAssumption == Unknown \in Nat \ {0} /\ Unknown < 65536

---------------------------------------------------------------------------
(* Readers *)

Byte == 0 .. 255

Panicked == [ok |-> FALSE]

Got(val, rest) == [ok |-> TRUE, val |-> val, rest |-> rest]

\* What is read next, from the value just read and the reader after it.
Bind(result, Then(_, _)) == IF result.ok THEN Then(result.val, result.rest) ELSE Panicked

Convert(result, F(_)) == Bind(result, LAMBDA val, rest : Got(F(val), rest))

\* The same decoder n times in a row.
ReadTimes(n, Read(_), rd) ==
  LET upTo[i \in 0 .. n] ==
        IF i = 0 THEN Got(<<>>, rd)
        ELSE Bind(upTo[i - 1], LAMBDA vals, rest :
               Convert(Read(rest), LAMBDA val : Append(vals, val)))
  IN upTo[n]

---------------------------------------------------------------------------
(* byte.go, int.go, float.go *)

ReadByte(rd) == IF rd = <<>> THEN Panicked ELSE Got(Head(rd), Tail(rd))

ReadBytes(rd, n) ==
  IF n \notin 0 .. Len(rd) THEN Panicked ELSE Got(SubSeq(rd, 1, n), SubSeq(rd, n + 1, Len(rd)))

\* The number whose digits follow the ones that make up start already.
Horner(start, base, digits) ==
  LET value[i \in 0 .. Len(digits)] ==
        IF i = 0 THEN start ELSE base * value[i - 1] + digits[i]
  IN value[Len(digits)]

BigEndian(bytes) == Horner(0, 256, bytes)
LittleEndian(bytes) == BigEndian(Reverse(bytes))

\* Little endian and two's complement.
Signed(bytes) ==
  LET top == Last(bytes)
  IN Horner(IF top < 128 THEN top ELSE top - 256, 256, Reverse(Front(bytes)))

ReadUint(rd, width) == Convert(ReadBytes(rd, width), LittleEndian)
ReadInt(rd, width) == Convert(ReadBytes(rd, width), Signed)

\* strconv.FormatInt(v, 10)
FormatInt(v) ==
  LET digits[n \in Nat] ==
        IF n < 10 THEN <<48 + n>> ELSE Append(digits[n \div 10], 48 + (n % 10))
  IN IF v < 0 THEN <<45>> \o digits[-v] ELSE digits[v]

IsInteger(s) ==
  LET digits == IF s # <<>> /\ Head(s) \in {43, 45} THEN Tail(s) ELSE s
  IN digits # <<>> /\ \A i \in DOMAIN digits : digits[i] \in 48 .. 57

ParseInt(s) ==
  LET value(digits) == Horner(0, 10, [i \in DOMAIN digits |-> digits[i] - 48])
  IN CASE Head(s) = 43 -> value(Tail(s))
       [] Head(s) = 45 -> -value(Tail(s))
       [] OTHER        -> value(s)

\* A floating-point number is the text that "%f" prints of it.  Fractions are
\* left out, so that the six decimals are zeros.
Float(v) == FormatInt(v) \o <<46, 48, 48, 48, 48, 48, 48>>
NaN == <<78, 97, 78>>
Inf(sign) == <<sign, 73, 110, 102>>

\* A short read is a zero.
ReadFloat(rd) ==
  Bind(ReadByte(rd), LAMBDA u, rest :
    CASE u = 253 -> Got(NaN, rest)
      [] u = 254 -> Got(Inf(43), rest)
      [] u = 255 -> Got(Inf(45), rest)
      [] u < 253 /\ u > Len(rest) -> Got(Float(0), <<>>)
      [] OTHER -> Bind(ReadBytes(rest, u), LAMBDA text, left :
                    IF IsInteger(text) THEN Got(Float(ParseInt(text)), left) ELSE Panicked))

Bits(bytes) ==
  LET unit == <<128, 64, 32, 16, 8, 4, 2, 1>>
  IN [i \in 1 .. 8 * Len(bytes) |-> (bytes[1 + (i - 1) \div 8] \div unit[1 + ((i - 1) % 8)]) % 2]

\* math.Float64frombits: a sign, eleven bits of exponent and the bits after
\* the leading one.
FloatFromBits(bits) ==
  LET exponent == Horner(0, 2, SubSeq(bits, 2, 12)) - 1023
      fraction == SubSeq(bits, 13, 64)
      magnitude == IF exponent < 0 THEN 0 ELSE Horner(1, 2, SubSeq(fraction, 1, exponent))
  IN CASE exponent = 1024 /\ 1 \in ToSet(fraction)    -> NaN
       [] exponent = 1024 /\ 1 \notin ToSet(fraction) -> Inf(IF bits[1] = 1 THEN 45 ELSE 43)
       [] OTHER -> Float(IF bits[1] = 1 THEN -magnitude ELSE magnitude)

ReadDouble(rd) == Convert(ReadBytes(rd, 8), LAMBDA bytes : FloatFromBits(Bits(Reverse(bytes))))

---------------------------------------------------------------------------
(* length.go *)

readEncodedLength(rd) ==
  LET Plain(len) == [len |-> len, special |-> FALSE]
  IN Bind(ReadByte(rd), LAMBDA first, rest :
       CASE first < 64  -> Got(Plain(first), rest)
         [] first \in 64 .. 127 ->
              Convert(ReadByte(rest), LAMBDA low : Plain((first - 64) * 256 + low))
         [] first = 128 -> Convert(ReadBytes(rest, 4), LAMBDA b : Plain(BigEndian(b)))
         [] first = 129 -> Convert(ReadBytes(rest, 8), LAMBDA b : Plain(BigEndian(b)))
         [] first \in 130 .. 191 -> Panicked   \* an error that every caller raises
         [] OTHER -> Got([len |-> first - 192, special |-> TRUE], rest))

ReadLength(rd) ==
  Bind(readEncodedLength(rd), LAMBDA l, rest :
    IF l.special THEN Panicked ELSE Got(l.len, rest))

---------------------------------------------------------------------------
(* string.go *)

\* Mutation: the copy loop stops one byte early.
CopiedShort(out, ref, n) == [x \in 1 .. n - 1 |-> out[ref + 1 + ((x - 1) % (Len(out) - ref))]]

\* The bytes a back reference appends, one at a time, so that it may reach
\* into what it has just appended.
Copied(out, ref, n) == [x \in 1 .. n |-> out[ref + 1 + ((x - 1) % (Len(out) - ref))]]

\* The output when p[2] has been decompressed already and p[1] is left.
lzf ==
  LET f[p \in Seq(Byte) \X Seq(Byte)] ==
        LET in == p[1]
            out == p[2]
            ctrl == Head(in)
            runLength == IF ctrl \div 32 = 7
                         THEN Convert(ReadByte(Tail(in)), LAMBDA b : 7 + b)
                         ELSE Got(ctrl \div 32, Tail(in))
        IN CASE in = <<>>  -> Got(out, in)
             [] in # <<>> /\ ctrl < 32 ->
                  Bind(ReadBytes(Tail(in), ctrl + 1), LAMBDA literal, rest :
                    f[<<rest, out \o literal>>])
             [] OTHER ->
                  Bind(runLength, LAMBDA len, rest :
                    Bind(ReadByte(rest), LAMBDA low, left :
                      LET ref == Len(out) - (ctrl % 32) * 256 - low - 1
                      IN IF ref < 0 THEN Panicked ELSE f[<<left, out \o Copied(out, ref, len + 2)>>]))
  IN f

lzfDecompress(in, outLen) ==
  Bind(lzf[<<in, <<>>>>], LAMBDA out, rest : IF Len(out) = outLen THEN Got(out, rest) ELSE Panicked)

ReadCompressed(rd) ==
  Bind(ReadLength(rd), LAMBDA inLen, rest1 :
    Bind(ReadLength(rest1), LAMBDA outLen, rest2 :
      Bind(ReadBytes(rest2, inLen), LAMBDA in, rest :
        Bind(lzfDecompress(in, outLen), LAMBDA out, left : Got(out, rest)))))

ReadString(rd) ==
  Bind(readEncodedLength(rd), LAMBDA l, rest :
    CASE ~l.special -> ReadBytes(rest, l.len)
      [] l.special /\ l.len \in 0 .. 2 -> Convert(ReadInt(rest, <<1, 2, 4>>[l.len + 1]), FormatInt)
      [] l.special /\ l.len = 3 -> ReadCompressed(rest)
      [] OTHER -> Panicked)

\* A structure inside a string: what it leaves of the string is dropped.
Inside(rd, Read(_)) ==
  Bind(ReadString(rd), LAMBDA bytes, rest :
    Bind(Read(bytes), LAMBDA val, left : Got(val, rest)))

\* Mutation: the end byte is read but not looked at.
EndedAnyhow(result) ==
  Bind(result, LAMBDA val, rest :
    Bind(ReadByte(rest), LAMBDA end, left : Got(val, left)))

\* A structure that ends with the byte 0xFF.
Ended(result) ==
  Bind(result, LAMBDA val, rest :
    Bind(ReadByte(rest), LAMBDA end, left : IF end = 255 THEN Got(val, left) ELSE Panicked))

---------------------------------------------------------------------------
(* ziplist.go *)

\* The encoding byte and the content, after the length of the previous entry.
ZipContent(rd) ==
  Bind(ReadByte(rd), LAMBDA e, rest :
    CASE e < 64           -> ReadBytes(rest, e)
      [] e \in 64 .. 127  -> Bind(ReadByte(rest), LAMBDA low, left :
                               ReadBytes(left, (e - 64) * 256 + low))
      [] e \in 128 .. 191 -> Bind(ReadBytes(rest, 4), LAMBDA len, left :
                               ReadBytes(left, BigEndian(len)))
      [] e = 254          -> Convert(ReadInt(rest, 1), FormatInt)
      [] e = 192          -> Convert(ReadInt(rest, 2), FormatInt)
      [] e = 240          -> Convert(ReadInt(rest, 3), FormatInt)
      [] e = 208          -> Convert(ReadInt(rest, 4), FormatInt)
      [] e = 224          -> Convert(ReadInt(rest, 8), FormatInt)
      [] e \in 241 .. 253 -> Got(FormatInt(e - 241), rest)
      [] OTHER            -> Panicked)

\* firstByte begins the length of the previous entry, in one byte or in five.
readZipListEntry(rd, firstByte) ==
  IF firstByte = 254
  THEN Bind(ReadBytes(rd, 4), LAMBDA prevlen, rest : ZipContent(rest))
  ELSE ZipContent(rd)

ZipEntry(rd) == Bind(ReadByte(rd), LAMBDA first, rest : readZipListEntry(rest, first))

\* A list of unknown length is read up to a byte 0xFE where an entry begins.
ZipEntriesToFE(bytes) ==
  LET f[rd \in Seq(Byte)] ==
        Bind(ReadByte(rd), LAMBDA first, rest :
          IF first = 254 THEN Got(<<>>, rest)
          ELSE Bind(readZipListEntry(rest, first), LAMBDA ele, left :
                 Convert(f[left], LAMBDA elements : <<ele>> \o elements)))
  IN f[bytes]

ZipBody(rd) ==
  Bind(ReadBytes(rd, 8), LAMBDA zlbytesAndZltail, rest1 :
    Bind(ReadUint(rest1, 2), LAMBDA size, rest :
      IF size = Unknown THEN ZipEntriesToFE(rest)
      ELSE Ended(ReadTimes(size, ZipEntry, rest))))

ReadZipList(rd) == Inside(rd, ZipBody)

---------------------------------------------------------------------------
(* listpack.go *)

lpEncodeBacklen(len) ==
  IF len <= 127 THEN 1
  ELSE IF len < 16383 THEN 2
  ELSE IF len < 2097151 THEN 3
  ELSE IF len < 268435455 THEN 4
  ELSE 5

\* The signed number of an unsigned one; 32 and 64 bits go through Signed,
\* which is the same conversion on bytes.
TwosComplement(uval, negstart, negmax) ==
  IF uval >= negstart THEN -(negmax - uval) - 1 ELSE uval

\* The entry that was read, once the length behind it has been skipped.
Backed(result, Length(_)) ==
  Bind(result, LAMBDA ele, rest :
    Bind(ReadBytes(rest, lpEncodeBacklen(Length(ele))), LAMBDA backlen, left : Got(ele, left)))

readListpackEntry(rd) ==
  Bind(ReadByte(rd), LAMBDA e, rest :
    LET Number(result, bytes) == Backed(Convert(result, FormatInt), LAMBDA ele : bytes)
        Text(result, head) == Backed(result, LAMBDA ele : head + Len(ele))
    IN CASE e < 128           -> Number(Got(e, rest), 1)
         [] e \in 128 .. 191  -> Text(ReadBytes(rest, e - 128), 1)
         [] e \in 192 .. 223  -> Number(Convert(ReadByte(rest), LAMBDA low :
                                   TwosComplement((e - 192) * 256 + low, 4096, 8191)), 2)
         [] e = 241           -> Number(Convert(ReadUint(rest, 2), LAMBDA u :
                                   TwosComplement(u, 32768, 65535)), 2)
         [] e = 242           -> Number(Convert(ReadUint(rest, 3), LAMBDA u :
                                   TwosComplement(u, 8388608, 16777215)), 4)
         [] e = 243           -> Number(ReadInt(rest, 4), 5)
         [] e = 244           -> Number(ReadInt(rest, 8), 9)
         [] e \in 224 .. 239  -> Text(Bind(ReadByte(rest), LAMBDA low, left :
                                   ReadBytes(left, (e - 224) * 256 + low)), 2)
         [] e = 240           -> Text(Bind(ReadUint(rest, 4), LAMBDA len, left :
                                   ReadBytes(left, len)), 5)
         [] OTHER             -> Panicked)

ListpackBody(rd) ==
  Bind(ReadBytes(rd, 4), LAMBDA total, rest1 :
    Bind(ReadUint(rest1, 2), LAMBDA size, rest :
      Ended(ReadTimes(size, readListpackEntry, rest))))

ReadListpack(rd) == Inside(rd, ListpackBody)

---------------------------------------------------------------------------
(* intset.go *)

\* An encoding other than two, four or eight bytes leaves empty strings.
IntsetElement(rd, encodingType) ==
  Convert(ReadBytes(rd, encodingType), LAMBDA bytes :
    IF encodingType \in {2, 4, 8} THEN FormatInt(Signed(bytes)) ELSE <<>>)

IntsetBody(rd) ==
  Bind(ReadUint(rd, 4), LAMBDA encodingType, rest1 :
    Bind(ReadUint(rest1, 4), LAMBDA size, rest :
      ReadTimes(size, LAMBDA r : IntsetElement(r, encodingType), rest)))

ReadIntset(rd) == Inside(rd, IntsetBody)
=============================================================================
