------------------------------ MODULE HashKey ------------------------------
(***************************************************************************)
(* internal/utils/hashtag.go: the part of a key that decides its cluster   *)
(* slot.  A key is the sequence of its bytes.                              *)
(***************************************************************************)
EXTENDS Integers, Sequences, FiniteSets, SequencesExt

Open == 123     \* {
Close == 125    \* }

\* strings.IndexByte, counted from 1 and 0 when there is none.
IndexByte(s, b) == IF b \in ToSet(s) THEN Min({i \in DOMAIN s : s[i] = b}) ELSE 0

\* Mutation: the braces may enclose nothing.
KeyOfEmptyTag(key) ==
  LET s == IndexByte(key, Open)
      rest == SubSeq(key, s + 1, Len(key))
      e == IndexByte(rest, Close)
  IN IF s > 0 /\ e > 0 THEN SubSeq(rest, 1, e - 1) ELSE key

\* The tag between the first opening brace and the next closing one, unless it
\* is empty.
Key(key) ==
  LET s == IndexByte(key, Open)
      rest == SubSeq(key, s + 1, Len(key))
      e == IndexByte(rest, Close)
  IN IF s > 0 /\ e > 1 THEN SubSeq(rest, 1, e - 1) ELSE key

---------------------------------------------------------------------------
(* The tag by the cluster specification *)

\* The least s and e that enclose at least one byte which is no closing brace.
HasTag(key, s, e) ==
  /\ key[s] = Open /\ \A i \in 1 .. s - 1 : key[i] # Open
  /\ e > s + 1
  /\ key[e] = Close /\ \A i \in s + 1 .. e - 1 : key[i] # Close

Hashed(key) ==
  IF \E s, e \in DOMAIN key : HasTag(key, s, e)
  THEN LET tag == CHOOSE t \in (DOMAIN key) \X (DOMAIN key) : HasTag(key, t[1], t[2])
       IN SubSeq(key, tag[1] + 1, tag[2] - 1)
  ELSE key
=============================================================================
