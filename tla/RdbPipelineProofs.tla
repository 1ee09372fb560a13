------------------------- MODULE RdbPipelineProofs -------------------------
(***************************************************************************)
(* Proofs about RdbPipeline, for any users, any files and any capacity of  *)
(* the channel: its types, that nothing is lost on the way from the file   *)
(* to the sums, and that the published result is exact.                    *)
(*                                                                         *)
(* The invariant says that expireMs holds the expiry of the next key, that *)
(* the parser leaves its loop at the end of the file or cut short only,    *)
(* and that the channel is closed after it has.  With NothingLostInFlight, *)
(* a closed and empty channel leaves no place for an entry.                *)
(***************************************************************************)
EXTENDS RdbPipeline, DataProofs

\* The expiry that the loader holds is the one of the next key.
ExpiryOK == expireMs = IF HasExpiry(pos) THEN 1 ELSE 0

ReaderOK ==
  /\ closed <=> reader = "done"
  /\ reader \in {"returned", "done"} => cut \/ pos = Len(file) + 1

IsResult(sums) == \E nan \in NaNToUint64 : sums = Rehashed(Reference(pos - 1), nan)

TaskOK ==
  /\ task # "range" => closed /\ ch = <<>>
  /\ task = "publish" => IsResult(userAndOverheadTemp)
  /\ task = "done" => IsResult(userAndOverhead)
  /\ task # "done" => userAndOverhead = Old

Inv == TypeOK /\ ExpiryOK /\ ReaderOK /\ NothingLostInFlight /\ TaskOK

---------------------------------------------------------------------------
(* Files and their keys *)

LEMMA FilesAreSequences ==
  ASSUME file \in Files
  PROVE  file \in Seq(Opcode) /\ Len(file) \in Nat /\ \A i \in 1 .. Len(file) : file[i] \in Opcode
  BY FilesAssumption

LEMMA KeysAreFinite ==
  \A u \in User, n \in Nat : IsFiniteSet(KeysOf(u, n)) /\ KeysOf(u, n) \in SUBSET (1 .. n)
<1> TAKE u \in User, n \in Nat
<1>1. IsFiniteSet(1 .. n) BY FS_Interval
<1>2. KeysOf(u, n) \in SUBSET (1 .. n) BY DEF KeysOf
<1> QED BY <1>1, <1>2, FS_Subset

LEMMA FirstHasNone == ~HasExpiry(1)
  BY DEF HasExpiry

\* How the expiry of the next key follows from the opcode before it.
LEMMA NextExpiry ==
  ASSUME file \in Files, NEW i \in 1 .. Len(file)
  PROVE  /\ file[i].op = "key" => ~HasExpiry(i + 1)
         /\ file[i].op = "expire" => (HasExpiry(i + 1) <=> file[i].at # "now")
         /\ file[i].op \notin {"key", "expire"} => (HasExpiry(i + 1) <=> HasExpiry(i))
<1>1. i \in Nat /\ (i + 1) - 1 = i /\ i >= 1 BY FilesAreSequences
<1> DEFINE Ex(j) == file[j].op = "expire" /\ file[j].at # "now"
           Stop(m) == file[m].op \in {"key", "expire"}
<1>2. HasExpiry(i + 1) <=> \E j \in 1 .. i : Ex(j) /\ \A m \in j + 1 .. i : ~Stop(m)
  BY <1>1 DEF HasExpiry
<1>3. HasExpiry(i) <=> \E j \in 1 .. i - 1 : Ex(j) /\ \A m \in j + 1 .. i - 1 : ~Stop(m)
  BY DEF HasExpiry
<1>4. CASE file[i].op = "key"
  <2> SUFFICES ASSUME HasExpiry(i + 1) PROVE FALSE BY <1>4
  <2>1. PICK j \in 1 .. i : Ex(j) /\ \A m \in j + 1 .. i : ~Stop(m) BY <1>2
  <2>2. j # i BY <1>4, <2>1
  <2>3. i \in j + 1 .. i BY <1>1, <2>2
  <2> QED BY <1>4, <2>1, <2>3
<1>5. CASE file[i].op = "expire"
  <2>1. ASSUME NEW j \in 1 .. i, \A m \in j + 1 .. i : ~Stop(m) PROVE j = i
    <3> SUFFICES ASSUME j # i PROVE FALSE OBVIOUS
    <3>1. i \in j + 1 .. i BY <1>1
    <3> QED BY <1>5, <2>1, <3>1
  <2>2. ASSUME NEW m \in i + 1 .. i PROVE FALSE BY <1>1
  <2>3. i \in 1 .. i BY <1>1
  <2> QED BY <1>2, <1>5, <2>1, <2>2, <2>3
<1>6. CASE ~Stop(i)
  <2>1. ASSUME HasExpiry(i) PROVE HasExpiry(i + 1)
    <3>1. PICK j \in 1 .. i - 1 : Ex(j) /\ \A m \in j + 1 .. i - 1 : ~Stop(m) BY <1>3, <2>1
    <3>2. j \in 1 .. i BY <1>1
    <3>3. \A m \in j + 1 .. i : m = i \/ m \in j + 1 .. i - 1 BY <1>1
    <3>4. \A m \in j + 1 .. i : ~Stop(m) BY <1>6, <3>1, <3>3
    <3> QED BY <1>2, <3>1, <3>2, <3>4
  <2>2. ASSUME HasExpiry(i + 1) PROVE HasExpiry(i)
    <3>1. PICK j \in 1 .. i : Ex(j) /\ \A m \in j + 1 .. i : ~Stop(m) BY <1>2, <2>2
    <3>2. j # i BY <1>6, <3>1
    <3>3. j \in 1 .. i - 1 /\ \A m \in j + 1 .. i - 1 : m \in j + 1 .. i BY <1>1, <3>2
    <3> QED BY <1>3, <3>1, <3>3
  <2> QED BY <1>6, <2>1, <2>2
<1> QED BY <1>4, <1>5, <1>6

\* The sums of a user, and what they are after one more opcode.
Sums(u, n) ==
  [KeyCount       |-> Cardinality(KeysOf(u, n)),
   ExpireKeyCount |-> Cardinality({i \in KeysOf(u, n) : HasExpiry(i)}),
   Overhead       |-> SumFunction([i \in KeysOf(u, n) |-> file[i].cost])
                        + 24 * Cardinality({i \in KeysOf(u, n) : HasExpiry(i)})]

LEMMA ReferenceIsSums == \A n : Reference(n) = [u \in User |-> Sums(u, n)]
  BY DEF Reference, Sums

\* The sums only depend on the keys.
LEMMA SameKeysSameSums ==
  ASSUME NEW n, NEW m, \A u \in User : KeysOf(u, n) = KeysOf(u, m)
  PROVE  Reference(n) = Reference(m)
<1>1. \A u \in User : Sums(u, n) = Sums(u, m) BY DEF Sums
<1> QED BY <1>1, ReferenceIsSums

LEMMA SumsType ==
  ASSUME file \in Files, NEW u \in User, NEW n \in 0 .. Len(file)
  PROVE  /\ Sums(u, n) \in UserOverhead
         /\ SumFunction([i \in KeysOf(u, n) |-> file[i].cost]) \in Nat
         /\ Cardinality({i \in KeysOf(u, n) : HasExpiry(i)}) \in Nat
<1> DEFINE keys == KeysOf(u, n)
           expires == {i \in keys : HasExpiry(i)}
           cost == [i \in keys |-> file[i].cost]
<1>1. n \in Nat BY FilesAreSequences
<1>2. IsFiniteSet(keys) /\ keys \in SUBSET (1 .. n) BY <1>1, KeysAreFinite
<1>3. IsFiniteSet(expires) BY <1>2, FS_Subset
<1>4. Cardinality(keys) \in Nat /\ Cardinality(expires) \in Nat BY <1>2, <1>3, FS_CardinalityType
<1>5. cost \in [keys -> Nat]
  <2> SUFFICES ASSUME NEW i \in keys PROVE file[i].cost \in Nat OBVIOUS
  <2>1. file[i].op = "key" /\ i \in 1 .. n BY DEF KeysOf
  <2>2. file[i] \in Opcode BY <1>1, <2>1, FilesAreSequences
  <2> QED BY <2>1, <2>2 DEF Opcode
<1>6. SumFunction(cost) \in Nat BY <1>2, <1>5, SumFunctionType
<1>7. Sums(u, n) = [KeyCount       |-> Cardinality(keys),
                    ExpireKeyCount |-> Cardinality(expires),
                    Overhead       |-> SumFunction(cost) + 24 * Cardinality(expires)]
  BY DEF Sums
<1> HIDE DEF keys, expires, cost
<1>8. SumFunction(cost) + 24 * Cardinality(expires) \in Nat BY <1>4, <1>6
<1>9. Sums(u, n) \in UserOverhead BY <1>4, <1>7, <1>8 DEF UserOverhead
<1> QED BY <1>4, <1>6, <1>9 DEF keys, expires, cost

LEMMA ReferenceType ==
  ASSUME file \in Files, NEW n \in 0 .. Len(file)
  PROVE  Reference(n) \in [User -> UserOverhead]
  BY SumsType, ReferenceIsSums

\* One more key of a user adds its entry to the sums.
LEMMA KeyAdds ==
  ASSUME file \in Files, NEW i \in 1 .. Len(file),
         file[i].op = "key", file[i].user \in User
  PROVE  Sums(file[i].user, i) = Add(Sums(file[i].user, i - 1), EntryOf(i))
<1> DEFINE u == file[i].user
           keys == KeysOf(u, i - 1)
           expires == {k \in keys : HasExpiry(k)}
           cost == [k \in keys |-> file[k].cost]
           keys1 == KeysOf(u, i)
           expires1 == {k \in keys1 : HasExpiry(k)}
           cost1 == [k \in keys1 |-> file[k].cost]
<1>1. i \in Nat /\ i - 1 \in Nat /\ i - 1 \in 0 .. Len(file) /\ i \in 0 .. Len(file)
  BY FilesAreSequences
<1>2. i \notin keys /\ keys1 = keys \cup {i} BY <1>1 DEF KeysOf
<1>3. IsFiniteSet(keys) /\ IsFiniteSet(keys1) BY <1>1, KeysAreFinite
<1>4. Cardinality(keys1) = Cardinality(keys) + 1 BY <1>2, <1>3, FS_AddElement
<1>5. Cardinality(expires1) = Cardinality(expires) + (IF HasExpiry(i) THEN 1 ELSE 0)
  <2>1. IsFiniteSet(expires) /\ i \notin expires BY <1>2, <1>3, FS_Subset
  <2>2. Cardinality(expires) \in Nat BY <2>1, FS_CardinalityType
  <2>3. CASE HasExpiry(i)
    <3>1. expires1 = expires \cup {i} BY <1>2, <2>3
    <3> QED BY <2>1, <2>3, <3>1, FS_AddElement
  <2>4. CASE ~HasExpiry(i)
    <3>1. expires1 = expires BY <1>2, <2>4
    <3> HIDE DEF expires, expires1
    <3> QED BY <2>2, <2>4, <3>1
  <2> QED BY <2>3, <2>4
<1>6. SumFunction(cost1) = SumFunction(cost) + file[i].cost
  <2>1. \A k \in keys1 : file[k].cost \in Int
    <3> SUFFICES ASSUME NEW k \in keys1 PROVE file[k].cost \in Int OBVIOUS
    <3>1. file[k].op = "key" /\ k \in 1 .. i BY DEF KeysOf
    <3>2. file[k] \in Opcode BY <1>1, <3>1, FilesAreSequences
    <3> QED BY <3>1, <3>2 DEF Opcode
  <2>2. cost \in [keys -> Int] /\ cost1 \in [keys \cup {i} -> Int] BY <1>2, <2>1
  <2>3. \A k \in keys : cost[k] = cost1[k] BY <1>2
  <2>4. cost1[i] = file[i].cost BY <1>2
  <2> HIDE DEF cost, cost1, keys, keys1
  <2>5. AddsOne(cost1, cost, keys, i) BY <1>2, <1>3, <2>2, <2>3 DEF AddsOne
  <2>6. SumFunction(cost1) = SumFunction(cost) + cost1[i] BY <2>5, SumFunctionAdds
  <2> QED BY <2>4, <2>6
<1>7. file[i].cost \in Nat
  <2>1. file[i] \in Opcode BY FilesAreSequences
  <2> QED BY <2>1 DEF Opcode
<1>8. SumFunction(cost) \in Nat /\ Cardinality(expires) \in Nat BY <1>1, SumsType
<1>9. Sums(u, i - 1) = [KeyCount       |-> Cardinality(keys),
                        ExpireKeyCount |-> Cardinality(expires),
                        Overhead       |-> SumFunction(cost) + 24 * Cardinality(expires)]
  BY DEF Sums
<1>10. Sums(u, i) = [KeyCount       |-> Cardinality(keys1),
                     ExpireKeyCount |-> Cardinality(expires1),
                     Overhead       |-> SumFunction(cost1) + 24 * Cardinality(expires1)]
  BY DEF Sums
<1>11. /\ EntryOf(i).isExpireKey = HasExpiry(i)
       /\ EntryOf(i).overhead = file[i].cost + (IF HasExpiry(i) THEN 24 ELSE 0)
  BY DEF EntryOf
<1> HIDE DEF keys, expires, cost, keys1, expires1, cost1
<1>12. SumFunction(cost1) + 24 * Cardinality(expires1)
         = (SumFunction(cost) + 24 * Cardinality(expires))
             + (file[i].cost + (IF HasExpiry(i) THEN 24 ELSE 0))
  BY <1>5, <1>6, <1>7, <1>8
<1> QED BY <1>4, <1>5, <1>9, <1>10, <1>11, <1>12 DEF Add

\* What the task makes of an entry.
CountedIn(sums, e) == IF e.user = NoUser THEN sums ELSE [sums EXCEPT ![e.user] = Add(@, e)]

\* Counting the entry of an opcode takes the sums one opcode further.
LEMMA EntryAdvances ==
  ASSUME file \in Files, NEW i \in 1 .. Len(file), Sends(i)
  PROVE  CountedIn(Reference(i - 1), EntryOf(i)) = Reference(i)
<1>1. i \in Nat /\ i - 1 \in Nat BY FilesAreSequences
<1>2. ASSUME NEW u \in User, ~(file[i].op = "key" /\ file[i].user = u)
      PROVE  KeysOf(u, i) = KeysOf(u, i - 1)
  BY <1>1, <1>2 DEF KeysOf
<1>3. file[i] \in Opcode BY FilesAreSequences
<1>4. CASE file[i].op = "lua"
  <2>1. EntryOf(i).user = NoUser BY <1>4 DEF EntryOf
  <2>2. Reference(i) = Reference(i - 1) BY <1>2, <1>4, SameKeysSameSums
  <2> QED BY <2>1, <2>2 DEF CountedIn
<1>5. CASE file[i].op = "key"
  <2>1. EntryOf(i).user = file[i].user BY <1>5 DEF EntryOf
  <2>2. file[i].user \in User \cup {NoUser} BY <1>3, <1>5 DEF Opcode
  <2>3. CASE file[i].user = NoUser
    <3>1. Reference(i) = Reference(i - 1) BY <1>2, <2>3, UserAssumption, SameKeysSameSums
    <3> QED BY <2>1, <2>3, <3>1 DEF CountedIn
  <2>4. CASE file[i].user \in User
    <3>1. CountedIn(Reference(i - 1), EntryOf(i))
            = [Reference(i - 1) EXCEPT ![file[i].user] = Add(@, EntryOf(i))]
      BY <2>1, <2>4, UserAssumption DEF CountedIn
    <3>2. Reference(i - 1) = [u \in User |-> Sums(u, i - 1)] /\ Reference(i) = [u \in User |-> Sums(u, i)]
      BY ReferenceIsSums
    <3>3. Sums(file[i].user, i) = Add(Sums(file[i].user, i - 1), EntryOf(i)) BY <1>5, <2>4, KeyAdds
    <3>4. \A u \in User : u # file[i].user => Sums(u, i) = Sums(u, i - 1) BY <1>2 DEF Sums
    <3> QED BY <2>4, <3>1, <3>2, <3>3, <3>4
  <2> QED BY <2>2, <2>3, <2>4
<1> QED BY <1>4, <1>5 DEF Sends

\* Opcodes that send nothing leave the sums alone.
LEMMA SilenceKeepsReference ==
  ASSUME NEW n \in Nat, NEW m \in Nat, n <= m, \A i \in n + 1 .. m : ~Sends(i)
  PROVE  Reference(n) = Reference(m)
<1>1. \A u \in User : KeysOf(u, n) = KeysOf(u, m)
  <2> SUFFICES ASSUME NEW u \in User, NEW i \in 1 .. m, file[i].op = "key" PROVE i \in 1 .. n
    BY DEF KeysOf
  <2>1. Sends(i) BY DEF Sends
  <2> QED BY <2>1
<1> QED BY <1>1, SameKeysSameSums

LEMMA ReferenceStartsEmpty == Reference(0) = Empty
<1>1. ASSUME NEW u \in User PROVE Sums(u, 0) = [KeyCount |-> 0, ExpireKeyCount |-> 0, Overhead |-> 0]
  <2>1. KeysOf(u, 0) = {} /\ {i \in KeysOf(u, 0) : HasExpiry(i)} = {} BY DEF KeysOf
  <2>2. Cardinality({}) = 0 BY FS_EmptySet
  <2>3. SumFunction([i \in KeysOf(u, 0) |-> file[i].cost]) = 0 BY <2>1, SumOfNothing
  <2> QED BY <2>1, <2>2, <2>3 DEF Sums
<1> QED BY <1>1, ReferenceIsSums DEF Empty

\* What is said of the file stays true while it is not replaced.
LEMMA FileKept ==
  ASSUME file' = file
  PROVE  /\ \A n : Reference(n)' = Reference(n)
         /\ \A i : HasExpiry(i)' = HasExpiry(i)
         /\ \A i : Sends(i)' = Sends(i)
         /\ \A i : EntryOf(i)' = EntryOf(i)
  BY DEF Reference, KeysOf, HasExpiry, Sends, EntryOf

---------------------------------------------------------------------------
(* Types of what the task computes *)

LEMMA AddType ==
  ASSUME NEW s \in UserOverhead, NEW e \in Entry
  PROVE  Add(s, e) \in UserOverhead
  BY DEF Add, UserOverhead, Entry

LEMMA ShareType ==
  ASSUME NEW count \in Nat, NEW total \in Nat, NEW nan \in Nat
  PROVE  RehashShare(count, total, nan) \in Nat
<1>1. CASE total = 0 BY <1>1 DEF RehashShare
<1>2. CASE total # 0
  <2>1. \A a, b \in Nat : a * b \in Nat OBVIOUS
  <2>2. \A a \in Nat : a \div total \in Nat BY <1>2
  <2>3. FieldBucketOverhead(total) * count \in Nat BY <2>1, FieldBucketsType
  <2> QED BY <1>2, <2>2, <2>3 DEF RehashShare
<1> QED BY <1>1, <1>2

LEMMA TotalType ==
  ASSUME NEW sums \in [User -> UserOverhead], NEW count \in {"KeyCount", "ExpireKeyCount", "Overhead"}
  PROVE  Total(sums, count) \in Nat
<1> DEFINE f == [u \in User |-> sums[u][count]]
<1>1. f \in [User -> Nat] BY DEF UserOverhead
<1> HIDE DEF f
<1>2. SumFunction(f) \in Nat BY <1>1, UserAssumption, SumFunctionType
<1> QED BY <1>2 DEF Total, f

LEMMA RehashedType ==
  ASSUME NEW sums \in [User -> UserOverhead], NEW nan \in NaNToUint64
  PROVE  Rehashed(sums, nan) \in [User -> UserOverhead]
<1> DEFINE keys == Total(sums, "KeyCount")
           expires == Total(sums, "ExpireKeyCount")
           share(u) == RehashShare(sums[u].KeyCount, keys, nan)
           expireShare(u) == RehashShare(sums[u].ExpireKeyCount, expires, nan)
<1>1. keys \in Nat /\ expires \in Nat /\ nan \in Nat BY TotalType, NaNAssumption
<1>2. ASSUME NEW u \in User PROVE share(u) \in Nat /\ expireShare(u) \in Nat
  BY <1>1, ShareType DEF UserOverhead
<1>3. Rehashed(sums, nan) =
        [u \in User |-> IF sums[u].KeyCount = 0 THEN sums[u]
                        ELSE [sums[u] EXCEPT !.Overhead = @ + share(u) + expireShare(u)]]
  BY DEF Rehashed
<1> HIDE DEF share, expireShare
<1>4. ASSUME NEW u \in User
      PROVE  [sums[u] EXCEPT !.Overhead = @ + share(u) + expireShare(u)] \in UserOverhead
  BY <1>2 DEF UserOverhead
<1> QED BY <1>3, <1>4

LEMMA SentEntryType ==
  ASSUME file \in Files, NEW i \in 1 .. Len(file), Sends(i)
  PROVE  EntryOf(i) \in Entry
<1>1. file[i] \in Opcode BY FilesAreSequences
<1>2. HasExpiry(i) \in BOOLEAN BY DEF HasExpiry
<1> QED BY <1>1, <1>2 DEF Opcode, Entry, EntryOf, Sends

---------------------------------------------------------------------------
(* The accounts *)

\* Opcode pos is parsed and sends nothing.
LEMMA SilentReadAccounted ==
  ASSUME TypeOK, NothingLostInFlight, pos <= Len(file), ~Sends(pos),
         pos' = pos + 1, UNCHANGED <<file, ch, task, userAndOverheadTemp>>
  PROVE  NothingLostInFlight'
<1> SUFFICES ASSUME task = "range"
             PROVE  \E n \in 0 .. pos' - 1 : \E at \in [1 .. Len(ch') -> n + 1 .. pos' - 1] :
                      Accounts(n, at)'
  BY DEF NothingLostInFlight
<1>0. PICK n \in 0 .. pos - 1 : \E at \in [1 .. Len(ch) -> n + 1 .. pos - 1] : Accounts(n, at)
  BY DEF NothingLostInFlight
<1>1. PICK at \in [1 .. Len(ch) -> n + 1 .. pos - 1] : Accounts(n, at) BY <1>0
<1>2. pos \in Nat /\ n \in Nat /\ n <= pos - 1 BY FilesAreSequences DEF TypeOK
<1>3. n \in 0 .. pos' - 1 /\ at \in [1 .. Len(ch') -> n + 1 .. pos' - 1] BY <1>2
<1>4. {i \in n + 1 .. pos' - 1 : Sends(i)} = {i \in n + 1 .. pos - 1 : Sends(i)} BY <1>2
<1>5. Accounts(n, at)'
  <2>1. /\ userAndOverheadTemp = Reference(n)
        /\ \A k, l \in DOMAIN at : k < l => at[k] < at[l]
        /\ {at[k] : k \in DOMAIN at} = {i \in n + 1 .. pos - 1 : Sends(i)}
        /\ \A k \in DOMAIN at : ch[k] = EntryOf(at[k])
    BY <1>1 DEF Accounts
  <2>2. userAndOverheadTemp' = Reference(n)' BY <2>1, FileKept
  <2>3. {at[k] : k \in DOMAIN at} = {i \in n + 1 .. pos' - 1 : Sends(i)'} BY <1>4, <2>1, FileKept
  <2>4. \A k \in DOMAIN at : ch'[k] = EntryOf(at[k])' BY <2>1, FileKept
  <2> QED BY <2>1, <2>2, <2>3, <2>4 DEF Accounts
<1> QED BY <1>3, <1>5

\* Opcode pos is parsed and its entry sent.
LEMMA SendingReadAccounted ==
  ASSUME TypeOK, NothingLostInFlight, pos <= Len(file), Sends(pos),
         pos' = pos + 1, ch' = Append(ch, EntryOf(pos)),
         UNCHANGED <<file, task, userAndOverheadTemp>>
  PROVE  NothingLostInFlight'
<1> SUFFICES ASSUME task = "range"
             PROVE  \E n \in 0 .. pos' - 1 : \E at \in [1 .. Len(ch') -> n + 1 .. pos' - 1] :
                      Accounts(n, at)'
  BY DEF NothingLostInFlight
<1>0. PICK n \in 0 .. pos - 1 : \E at \in [1 .. Len(ch) -> n + 1 .. pos - 1] : Accounts(n, at)
  BY DEF NothingLostInFlight
<1>1. PICK at \in [1 .. Len(ch) -> n + 1 .. pos - 1] : Accounts(n, at) BY <1>0
<1>a. PICK c : c = Len(ch) OBVIOUS
<1>b. PICK more : more = [k \in 1 .. c + 1 |-> IF k <= c THEN at[k] ELSE pos] OBVIOUS
<1>2. pos \in Nat /\ n \in Nat /\ n <= pos - 1 /\ c \in Nat BY <1>a, FilesAreSequences DEF TypeOK
<1>3. /\ Len(ch') = c + 1 /\ ch'[c + 1] = EntryOf(pos)
      /\ \A k \in 1 .. c : ch'[k] = ch[k]
  BY <1>a DEF TypeOK
<1>4. /\ userAndOverheadTemp = Reference(n)
      /\ \A k, l \in 1 .. c : k < l => at[k] < at[l]
      /\ {at[k] : k \in 1 .. c} = {i \in n + 1 .. pos - 1 : Sends(i)}
      /\ \A k \in 1 .. c : ch[k] = EntryOf(at[k])
  BY <1>1, <1>a DEF Accounts
<1>5. ASSUME NEW k \in 1 .. c PROVE more[k] = at[k] /\ more[k] \in n + 1 .. pos - 1
  <2>1. k \in 1 .. c + 1 /\ k <= c BY <1>2
  <2>2. more[k] = at[k] BY <1>b, <2>1
  <2>3. k \in 1 .. Len(ch) BY <1>a
  <2>4. at[k] \in n + 1 .. pos - 1 BY <2>3
  <2> QED BY <2>2, <2>4
<1>6. more[c + 1] = pos BY <1>2, <1>b
<1>7. DOMAIN more = 1 .. c + 1 /\ \A k \in 1 .. c + 1 : k \in 1 .. c \/ k = c + 1 BY <1>2, <1>b
<1>8. more \in [1 .. c + 1 -> n + 1 .. pos]
  <2>1. more = [k \in 1 .. c + 1 |-> more[k]] BY <1>b
  <2>2. \A k \in 1 .. c + 1 : more[k] \in n + 1 .. pos BY <1>2, <1>5, <1>6, <1>7
  <2> QED BY <2>1, <2>2
<1>9. n \in 0 .. pos' - 1 /\ more \in [1 .. Len(ch') -> n + 1 .. pos' - 1] BY <1>2, <1>3, <1>8
<1>10. ASSUME NEW k \in 1 .. c + 1, NEW l \in 1 .. c + 1, k < l PROVE more[k] < more[l]
  <2>1. k \in 1 .. c BY <1>2, <1>10
  <2>2. CASE l \in 1 .. c BY <1>4, <1>5, <1>10, <2>1, <2>2
  <2>3. CASE l = c + 1
    <3>1. more[k] \in n + 1 .. pos - 1 BY <1>5, <2>1
    <3> QED BY <1>2, <1>6, <2>3, <3>1
  <2> QED BY <1>7, <2>2, <2>3
<1>11. {more[k] : k \in DOMAIN more} = {i \in n + 1 .. pos' - 1 : Sends(i)'}
  <2>1. {more[k] : k \in 1 .. c + 1} = {at[k] : k \in 1 .. c} \cup {pos}
    <3>1. ASSUME NEW k \in 1 .. c + 1 PROVE more[k] \in {at[l] : l \in 1 .. c} \cup {pos}
      BY <1>5, <1>6, <1>7
    <3>2. ASSUME NEW k \in 1 .. c PROVE at[k] = more[k] /\ k \in 1 .. c + 1 BY <1>2, <1>5
    <3>3. pos = more[c + 1] /\ c + 1 \in 1 .. c + 1 BY <1>2, <1>6
    <3> QED BY <3>1, <3>2, <3>3
  <2>2. {i \in n + 1 .. pos : Sends(i)} = {i \in n + 1 .. pos - 1 : Sends(i)} \cup {pos} BY <1>2
  <2>3. pos' - 1 = pos BY <1>2
  <2> QED BY <1>4, <1>7, <2>1, <2>2, <2>3, FileKept
<1>12. \A k \in DOMAIN more : ch'[k] = EntryOf(more[k])'
  BY <1>3, <1>4, <1>5, <1>6, <1>7, FileKept
<1>13. Accounts(n, more)' BY <1>4, <1>7, <1>10, <1>11, <1>12, FileKept DEF Accounts
<1> QED BY <1>9, <1>13

\* An entry is received.
LEMMA ReceiptAccounted ==
  ASSUME TypeOK, NothingLostInFlight, Receive
  PROVE  NothingLostInFlight'
<1> USE DEF Receive, fileVars
<1> SUFFICES \E n \in 0 .. pos' - 1 : \E at \in [1 .. Len(ch') -> n + 1 .. pos' - 1] :
               Accounts(n, at)'
  BY DEF NothingLostInFlight
<1>0. PICK n \in 0 .. pos - 1 : \E at \in [1 .. Len(ch) -> n + 1 .. pos - 1] : Accounts(n, at)
  BY DEF NothingLostInFlight
<1>1. PICK at \in [1 .. Len(ch) -> n + 1 .. pos - 1] : Accounts(n, at) BY <1>0
<1>a. PICK c : c = Len(ch) OBVIOUS
<1> DEFINE first == at[1]
           rest == [k \in 1 .. c - 1 |-> at[k + 1]]
<1>2. pos \in Nat /\ n \in Nat /\ n <= pos - 1 /\ c \in Nat /\ c > 0 /\ pos <= Len(file) + 1
      /\ Len(file) \in Nat
  BY <1>a, FilesAreSequences DEF TypeOK
<1>3. /\ userAndOverheadTemp = Reference(n)
      /\ \A k, l \in 1 .. c : k < l => at[k] < at[l]
      /\ {at[k] : k \in 1 .. c} = {i \in n + 1 .. pos - 1 : Sends(i)}
      /\ \A k \in 1 .. c : ch[k] = EntryOf(at[k])
  BY <1>1, <1>a DEF Accounts
<1>4. Len(ch') = c - 1 /\ Head(ch) = ch[1] /\ \A k \in 1 .. c - 1 : ch'[k] = ch[k + 1]
  BY <1>a DEF TypeOK
<1>5. \A k \in 1 .. c : at[k] \in n + 1 .. pos - 1 /\ Sends(at[k]) BY <1>3
<1>6. 1 \in 1 .. c /\ \A k \in 1 .. c - 1 : k + 1 \in 1 .. c /\ k + 1 > 1 BY <1>2
<1>7. first \in n + 1 .. pos - 1 /\ Sends(first) BY <1>5, <1>6
<1>7a. \A k \in 1 .. c - 1 : rest[k] = at[k + 1] OBVIOUS
<1> DOMAIN rest = 1 .. c - 1 OBVIOUS
<1>8. rest \in [1 .. c - 1 -> first + 1 .. pos - 1]
  <2>1. ASSUME NEW k \in 1 .. c - 1 PROVE at[k + 1] \in first + 1 .. pos - 1
    <3>1. first < at[k + 1] BY <1>3, <1>6
    <3>2. at[k + 1] \in n + 1 .. pos - 1 BY <1>5, <1>6
    <3> QED BY <1>2, <1>7, <3>1, <3>2
  <2> QED BY <2>1
<1>9. first \in 0 .. pos' - 1 /\ rest \in [1 .. Len(ch') -> first + 1 .. pos' - 1]
  BY <1>2, <1>4, <1>7, <1>8
<1>10. userAndOverheadTemp' = Reference(first)'
  <2>1. Reference(n) = Reference(first - 1)
    <3>1. first - 1 \in Nat /\ n <= first - 1 BY <1>2, <1>7
    <3>2. ASSUME NEW i \in n + 1 .. first - 1, Sends(i) PROVE FALSE
      <4>1. i \in n + 1 .. pos - 1 BY <1>2, <1>7
      <4>2. PICK k \in 1 .. c : at[k] = i BY <1>3, <3>2, <4>1
      <4>3. first <= i
        <5>1. CASE k = 1 BY <1>2, <1>7, <4>2, <5>1
        <5>2. CASE k # 1
          <6>1. 1 < k BY <5>2
          <6>2. first < at[k] BY <1>3, <1>6, <6>1
          <6> QED BY <1>2, <1>7, <4>1, <4>2, <6>2
        <5> QED BY <5>1, <5>2
      <4> QED BY <1>2, <1>7, <4>3
    <3> HIDE DEF first
    <3> QED BY <1>2, <3>1, <3>2, SilenceKeepsReference
  <2>2. Head(ch) = EntryOf(first) BY <1>3, <1>4, <1>6
  <2>3. userAndOverheadTemp' = CountedIn(Reference(first - 1), EntryOf(first))
    BY <1>3, <2>1, <2>2 DEF CountedIn
  <2>4. first \in 1 .. Len(file) BY <1>2, <1>7
  <2> HIDE DEF first
  <2>5. file \in Files BY DEF TypeOK
  <2>6. CountedIn(Reference(first - 1), EntryOf(first)) = Reference(first)
    BY <1>7, <2>4, <2>5, EntryAdvances
  <2>7. file' = file OBVIOUS
  <2>8. Reference(first)' = Reference(first)
    BY <2>7 DEF Reference, KeysOf, HasExpiry
  <2> QED BY <2>3, <2>6, <2>8
<1>11. \A k, l \in DOMAIN rest : k < l => rest[k] < rest[l]
  <2>1. \A k, l \in 1 .. c - 1 : k < l => k + 1 < l + 1 BY <1>2
  <2> HIDE DEF rest
  <2> QED BY <1>3, <1>6, <1>7a, <2>1
<1>12. {rest[k] : k \in DOMAIN rest} = {i \in first + 1 .. pos' - 1 : Sends(i)'}
  <2>1. ASSUME NEW k \in 1 .. c - 1 PROVE rest[k] \in first + 1 .. pos - 1 /\ Sends(rest[k])
    BY <1>5, <1>6, <1>7a, <1>8
  <2>2. ASSUME NEW i \in first + 1 .. pos - 1, Sends(i) PROVE \E k \in 1 .. c - 1 : rest[k] = i
    <3>1. i \in n + 1 .. pos - 1 BY <1>2, <1>7
    <3>2. PICK k \in 1 .. c : at[k] = i BY <1>3, <2>2, <3>1
    <3>3. k # 1 BY <1>2, <1>7, <3>2
    <3>4. k - 1 \in 1 .. c - 1 /\ (k - 1) + 1 = k BY <1>2, <3>3
    <3> QED BY <1>7a, <3>2, <3>4
  <2> HIDE DEF first, rest
  <2>3. {rest[k] : k \in 1 .. c - 1} = {i \in first + 1 .. pos - 1 : Sends(i)} BY <2>1, <2>2
  <2> QED BY <2>3, FileKept
<1>13. \A k \in DOMAIN rest : ch'[k] = EntryOf(rest[k])'
  <2>1. \A k \in 1 .. c - 1 : ch'[k] = EntryOf(rest[k]) BY <1>3, <1>4, <1>6, <1>7a
  <2> HIDE DEF rest
  <2> QED BY <2>1, FileKept
<1> HIDE DEF first, rest
<1>14. Accounts(first, rest)' BY <1>10, <1>11, <1>12, <1>13 DEF Accounts
<1> QED BY <1>9, <1>14

---------------------------------------------------------------------------
(* The invariant *)

LEMMA InitInv == Init => Inv
<1> SUFFICES ASSUME Init PROVE Inv OBVIOUS
<1> USE DEF Init
<1>1. TypeOK
  <2>1. Len(file) \in Nat BY FilesAreSequences
  <2>2. Empty \in [User -> UserOverhead] BY DEF Empty, UserOverhead
  <2>3. pos \in 1 .. Len(file) + 1 /\ ch \in Seq(Entry) /\ Len(ch) <= Cap BY <2>1, CapAssumption
  <2> QED BY <2>2, <2>3 DEF TypeOK
<1>2. NothingLostInFlight
  <2>1. PICK at : at \in [1 .. 0 -> 1 .. 0] /\ at = [k \in 1 .. 0 |-> k] OBVIOUS
  <2>2. Accounts(0, at) BY <2>1, ReferenceStartsEmpty DEF Accounts
  <2>3. 1 .. Len(ch) = 1 .. 0 /\ 0 + 1 .. pos - 1 = 1 .. 0 /\ 0 \in 0 .. pos - 1 OBVIOUS
  <2>4. at \in [1 .. Len(ch) -> 0 + 1 .. pos - 1] BY <2>1, <2>3
  <2> HIDE DEF Init
  <2> QED BY <2>2, <2>3, <2>4 DEF NothingLostInFlight
<1>3. ExpiryOK BY FirstHasNone DEF ExpiryOK
<1>4. ReaderOK /\ TaskOK BY DEF ReaderOK, TaskOK
<1> QED BY <1>1, <1>2, <1>3, <1>4 DEF Inv

\* While the file is parsed, the channel is open and the task adds up.
LEMMA ParsingMeansRange == Inv /\ reader # "done" => ~closed /\ task = "range" /\ userAndOverhead = Old
  BY DEF Inv, TypeOK, ReaderOK, TaskOK

\* What every opcode that is read on has in common.
LEMMA ReadKeepsInv ==
  ASSUME Inv, NEW op, Reads(op), Tick \/ (op = "eof" /\ reader' = "returned" /\ UNCHANGED cut),
         expireMs' \in {0, 1}, ExpiryOK',
         \/ ~Sends(pos) /\ UNCHANGED ch
         \/ Sends(pos) /\ Len(ch) < Cap /\ ch' = Append(ch, EntryOf(pos))
  PROVE  Inv'
<1> USE DEF Reads, taskVars
<1>1. TypeOK /\ NothingLostInFlight BY DEF Inv
<1>2. ~closed /\ task = "range" /\ userAndOverhead = Old BY ParsingMeansRange
<1>3. pos \in 1 .. Len(file) /\ pos \in Nat /\ Len(file) \in Nat
  BY <1>1, FilesAreSequences DEF TypeOK
<1>4. reader' \in {"parse", "returned"} /\ cut' \in BOOLEAN BY <1>1 DEF Tick, TypeOK
<1>5. ch' \in Seq(Entry) /\ Len(ch') <= Cap
  <2>1. CASE UNCHANGED ch BY <1>1, <2>1 DEF TypeOK
  <2>2. CASE Sends(pos) /\ Len(ch) < Cap /\ ch' = Append(ch, EntryOf(pos))
    <3>1. EntryOf(pos) \in Entry BY <1>1, <1>3, <2>2, SentEntryType DEF TypeOK
    <3>2. ch \in Seq(Entry) /\ Len(ch) \in Nat /\ Cap \in Nat BY <1>1, CapAssumption DEF TypeOK
    <3> QED BY <2>2, <3>1, <3>2
  <2> QED BY <2>1, <2>2
<1>6. TypeOK'
  <2>1. pos' \in 1 .. Len(file) + 1 BY <1>3
  <2> QED BY <1>1, <1>4, <1>5, <2>1 DEF TypeOK
<1>7. NothingLostInFlight'
  BY <1>1, <1>3, SilentReadAccounted, SendingReadAccounted
<1>8. ReaderOK'
  <2>1. op = "eof" => pos = Len(file) 
    BY <1>1, <1>3, FilesAssumption, FilesAreSequences DEF TypeOK
  <2>2. reader' = "returned" => cut' \/ pos' = Len(file') + 1 BY <1>3, <2>1 DEF Tick
  <2> QED BY <1>2, <1>4, <2>2 DEF ReaderOK
<1>9. TaskOK' BY <1>2 DEF TaskOK
<1> QED BY <1>6, <1>7, <1>8, <1>9 DEF Inv

\* The expiry after an opcode.
LEMMA ExpiryAfter ==
  ASSUME Inv, NEW op, Reads(op),
         op = "key" => expireMs' = 0,
         op = "expire" => expireMs' = IF file[pos].at = "now" THEN 0 ELSE 1,
         op \notin {"key", "expire"} => UNCHANGED expireMs
  PROVE  expireMs' \in {0, 1} /\ ExpiryOK'
<1> USE DEF Reads
<1>1. file \in Files /\ pos \in 1 .. Len(file) BY FilesAreSequences DEF Inv, TypeOK
<1>2. HasExpiry(pos)' <=> HasExpiry(pos + 1) BY DEF HasExpiry
<1>3. expireMs = IF HasExpiry(pos) THEN 1 ELSE 0 BY DEF Inv, ExpiryOK
<1>4. expireMs' = IF HasExpiry(pos + 1) THEN 1 ELSE 0 BY <1>1, <1>3, NextExpiry
<1> QED BY <1>2, <1>4 DEF ExpiryOK

LEMMA ReadKeyStep == Inv /\ ReadKey => Inv'
<1> SUFFICES ASSUME Inv, ReadKey PROVE Inv' OBVIOUS
<1>1. expireMs' \in {0, 1} /\ ExpiryOK' BY ExpiryAfter DEF ReadKey
<1>2. expireMs = IF HasExpiry(pos) THEN 1 ELSE 0 BY DEF Inv, ExpiryOK
<1>3. Sends(pos) /\ Len(ch) < Cap /\ ch' = Append(ch, EntryOf(pos))
  <2>1. (expireMs # 0) = HasExpiry(pos)
    <3>1. HasExpiry(pos) \in BOOLEAN BY DEF HasExpiry
    <3> QED BY <1>2, <3>1
  <2>2. (IF expireMs # 0 THEN 24 ELSE 0) = IF HasExpiry(pos) THEN 24 ELSE 0 BY <1>2
  <2>3. EntryOf(pos) = [user        |-> file[pos].user,
                        overhead    |-> file[pos].cost + (IF expireMs # 0 THEN 24 ELSE 0),
                        isExpireKey |-> expireMs # 0]
    BY <2>1, <2>2 DEF EntryOf, ReadKey, Reads
  <2> QED BY <2>3 DEF ReadKey, Reads, Send, Sends
<1> QED BY <1>1, <1>3, ReadKeepsInv DEF ReadKey

LEMMA ReadLuaStep == Inv /\ ReadLua => Inv'
<1> SUFFICES ASSUME Inv, ReadLua PROVE Inv' OBVIOUS
<1>1. expireMs' \in {0, 1} /\ ExpiryOK' BY ExpiryAfter DEF ReadLua
<1>2. Sends(pos) /\ Len(ch) < Cap /\ ch' = Append(ch, EntryOf(pos))
  BY DEF ReadLua, Reads, Send, Sends, EntryOf
<1> QED BY <1>1, <1>2, ReadKeepsInv DEF ReadLua

LEMMA ReadExpireStep == Inv /\ ReadExpire => Inv'
<1> SUFFICES ASSUME Inv, ReadExpire PROVE Inv' OBVIOUS
<1>1. expireMs' \in {0, 1} /\ ExpiryOK' BY ExpiryAfter DEF ReadExpire
<1>2. ~Sends(pos) BY DEF ReadExpire, Reads, Sends
<1> QED BY <1>1, <1>2, ReadKeepsInv DEF ReadExpire

LEMMA ReadOtherStep == Inv /\ (ReadOther \/ ReadEOF) => Inv'
<1> SUFFICES ASSUME Inv, ReadOther \/ ReadEOF PROVE Inv' OBVIOUS
<1>1. CASE ReadOther
  <2>1. expireMs' \in {0, 1} /\ ExpiryOK' BY <1>1, ExpiryAfter DEF ReadOther
  <2>2. ~Sends(pos) BY <1>1 DEF ReadOther, Reads, Sends
  <2> QED BY <1>1, <2>1, <2>2, ReadKeepsInv DEF ReadOther
<1>2. CASE ReadEOF
  <2>1. expireMs' \in {0, 1} /\ ExpiryOK' BY <1>2, ExpiryAfter DEF ReadEOF
  <2>2. ~Sends(pos) BY <1>2 DEF ReadEOF, Reads, Sends
  <2> QED BY <1>2, <2>1, <2>2, ReadKeepsInv DEF ReadEOF
<1> QED BY <1>1, <1>2

\* Steps that leave the file, the channel and the sums alone.
LEMMA AccountsKept ==
  ASSUME NothingLostInFlight, task' = "range" => task = "range",
         UNCHANGED <<file, pos, ch, userAndOverheadTemp>>
  PROVE  NothingLostInFlight'
<1> SUFFICES ASSUME task = "range"
             PROVE  \E n \in 0 .. pos - 1 : \E at \in [1 .. Len(ch) -> n + 1 .. pos - 1] :
                      Accounts(n, at)'
  BY DEF NothingLostInFlight
<1>0. PICK n \in 0 .. pos - 1 : \E at \in [1 .. Len(ch) -> n + 1 .. pos - 1] : Accounts(n, at)
  BY DEF NothingLostInFlight
<1>1. PICK at \in [1 .. Len(ch) -> n + 1 .. pos - 1] : Accounts(n, at) BY <1>0
<1>2. Accounts(n, at)' BY <1>1, FileKept DEF Accounts
<1> QED BY <1>2

LEMMA OpenStep == Inv /\ Open => Inv'
<1> SUFFICES ASSUME Inv, Open PROVE Inv' OBVIOUS
<1> USE DEF Open, taskVars
<1>1. TypeOK' BY DEF Inv, TypeOK
<1>2. NothingLostInFlight' BY AccountsKept DEF Inv
<1>3. ExpiryOK' BY DEF Inv, ExpiryOK, HasExpiry
<1>4. ReaderOK' BY DEF Inv, ReaderOK
<1>5. TaskOK' BY ParsingMeansRange DEF TaskOK
<1> QED BY <1>1, <1>2, <1>3, <1>4, <1>5 DEF Inv

LEMMA CloseStep == Inv /\ Close => Inv'
<1> SUFFICES ASSUME Inv, Close PROVE Inv' OBVIOUS
<1> USE DEF Close, taskVars
<1>1. TypeOK' BY DEF Inv, TypeOK
<1>2. NothingLostInFlight' BY AccountsKept DEF Inv
<1>3. ExpiryOK' BY DEF Inv, ExpiryOK, HasExpiry
<1>4. ReaderOK' BY DEF Inv, ReaderOK
<1>5. TaskOK' BY ParsingMeansRange DEF TaskOK
<1> QED BY <1>1, <1>2, <1>3, <1>4, <1>5 DEF Inv

LEMMA ReceiveStep == Inv /\ Receive => Inv'
<1> SUFFICES ASSUME Inv, Receive PROVE Inv' OBVIOUS
<1> USE DEF Receive, fileVars
<1>1. TypeOK'
  <2>1. ch \in Seq(Entry) /\ ch # <<>> /\ Len(ch) \in Nat /\ Cap \in Nat /\ Len(ch) <= Cap
    BY CapAssumption DEF Inv, TypeOK
  <2>2. ch' \in Seq(Entry) /\ Len(ch') <= Cap /\ Head(ch) \in Entry BY <2>1
  <2>3. userAndOverheadTemp' \in [User -> UserOverhead]
    <3>1. userAndOverheadTemp \in [User -> UserOverhead] BY DEF Inv, TypeOK
    <3>2. ASSUME NEW u \in User PROVE Add(userAndOverheadTemp[u], Head(ch)) \in UserOverhead
      BY <2>2, <3>1, AddType
    <3>3. Head(ch).user \in User \cup {NoUser} BY <2>2 DEF Entry
    <3> QED BY <3>1, <3>2, <3>3
  <2> QED BY <2>2, <2>3 DEF Inv, TypeOK
<1>2. NothingLostInFlight' BY ReceiptAccounted DEF Inv
<1>3. ExpiryOK' BY DEF Inv, ExpiryOK, HasExpiry
<1>4. ReaderOK' BY DEF Inv, ReaderOK
<1>5. TaskOK' BY DEF Inv, TaskOK
<1> QED BY <1>1, <1>2, <1>3, <1>4, <1>5 DEF Inv

\* With nothing left in the channel, everything that was parsed is counted.
LEMMA DrainedIsComplete ==
  ASSUME Inv, task = "range", ch = <<>>
  PROVE  userAndOverheadTemp = Reference(pos - 1)
<1>0. PICK n \in 0 .. pos - 1 : \E at \in [1 .. Len(ch) -> n + 1 .. pos - 1] : Accounts(n, at)
  BY DEF Inv, NothingLostInFlight
<1>1. PICK at \in [1 .. Len(ch) -> n + 1 .. pos - 1] : Accounts(n, at) BY <1>0
<1>2. pos \in Nat /\ n \in Nat /\ n <= pos - 1 /\ pos - 1 \in Nat
  BY FilesAreSequences DEF Inv, TypeOK
<1>3. DOMAIN at = {} OBVIOUS
<1>4. \A i \in n + 1 .. pos - 1 : ~Sends(i) BY <1>1, <1>3 DEF Accounts
<1> QED BY <1>1, <1>2, <1>4, SilenceKeepsReference DEF Accounts

LEMMA EndRangeStep == Inv /\ EndRange => Inv'
<1> SUFFICES ASSUME Inv, EndRange PROVE Inv' OBVIOUS
<1> USE DEF EndRange, fileVars
<1>1. TypeOK'
  <2>1. userAndOverheadTemp' \in [User -> UserOverhead] BY RehashedType DEF Inv, TypeOK
  <2> QED BY <2>1 DEF Inv, TypeOK
<1>2. NothingLostInFlight' BY DEF NothingLostInFlight
<1>3. ExpiryOK' BY DEF Inv, ExpiryOK, HasExpiry
<1>4. ReaderOK' BY DEF Inv, ReaderOK
<1>5. TaskOK'
  <2>1. userAndOverheadTemp = Reference(pos - 1) BY DrainedIsComplete
  <2>2. Reference(pos - 1)' = Reference(pos - 1) BY DEF Reference, KeysOf, HasExpiry
  <2>3. \E nan \in NaNToUint64 : userAndOverheadTemp' = Rehashed(userAndOverheadTemp, nan)
    OBVIOUS
  <2>4. IsResult(userAndOverheadTemp)' BY <2>1, <2>2, <2>3 DEF IsResult
  <2> QED BY <2>4 DEF Inv, TaskOK
<1> QED BY <1>1, <1>2, <1>3, <1>4, <1>5 DEF Inv

LEMMA PublishStep == Inv /\ Publish => Inv'
<1> SUFFICES ASSUME Inv, Publish PROVE Inv' OBVIOUS
<1> USE DEF Publish, fileVars
<1>1. TypeOK' BY DEF Inv, TypeOK
<1>2. NothingLostInFlight' BY DEF NothingLostInFlight
<1>3. ExpiryOK' BY DEF Inv, ExpiryOK, HasExpiry
<1>4. ReaderOK' BY DEF Inv, ReaderOK
<1>5. TaskOK'
  <2>1. Reference(pos - 1)' = Reference(pos - 1) BY DEF Reference, KeysOf, HasExpiry
  <2>2. IsResult(userAndOverhead)' BY <2>1 DEF IsResult, Inv, TaskOK
  <2> QED BY <2>2 DEF Inv, TaskOK
<1> QED BY <1>1, <1>2, <1>3, <1>4, <1>5 DEF Inv

\* The rest of the system: a failover, the end of the process, stuttering.
LEMMA QuietStep ==
  ASSUME Inv, UNCHANGED <<fileVars, ch, closed, taskVars>>,
         role' \in {"master", "slave"}, up' \in BOOLEAN
  PROVE  Inv'
<1> USE DEF fileVars, taskVars
<1>1. TypeOK' BY DEF Inv, TypeOK
<1>2. NothingLostInFlight' BY AccountsKept DEF Inv
<1>3. ExpiryOK' BY DEF Inv, ExpiryOK, HasExpiry
<1>4. ReaderOK' BY DEF Inv, ReaderOK
<1>5. TaskOK'
  <2>1. Reference(pos - 1)' = Reference(pos - 1) BY DEF Reference, KeysOf, HasExpiry
  <2> QED BY <2>1 DEF IsResult, Inv, TaskOK
<1> QED BY <1>1, <1>2, <1>3, <1>4, <1>5 DEF Inv

LEMMA StepInv == Inv /\ [Next]_vars => Inv'
<1> SUFFICES ASSUME Inv, [Next]_vars PROVE Inv' OBVIOUS
<1>1. CASE Open BY <1>1, OpenStep
<1>2. CASE ReadKey BY <1>2, ReadKeyStep
<1>3. CASE ReadExpire BY <1>3, ReadExpireStep
<1>4. CASE ReadLua BY <1>4, ReadLuaStep
<1>5. CASE ReadOther \/ ReadEOF BY <1>5, ReadOtherStep
<1>6. CASE Close BY <1>6, CloseStep
<1>7. CASE Panic BY <1>7, QuietStep DEF Panic, Inv, TypeOK
<1>8. CASE Receive BY <1>8, ReceiveStep
<1>9. CASE EndRange BY <1>9, EndRangeStep
<1>10. CASE Publish BY <1>10, PublishStep
<1>11. CASE Failover BY <1>11, QuietStep DEF Failover, Inv, TypeOK
<1>12. CASE UNCHANGED vars BY <1>12, QuietStep DEF vars, Inv, TypeOK
<1> QED BY <1>1, <1>2, <1>3, <1>4, <1>5, <1>6, <1>7, <1>8, <1>9, <1>10, <1>11, <1>12
        DEF Next, Parse, Collect

\* The invariant holds throughout.
THEOREM Invariant == Spec => []Inv
  BY InitInv, StepInv, PTL DEF Spec

---------------------------------------------------------------------------
(* What follows *)

\* Every variable keeps its type; with any number of keys the estimates and
\* their shares stay natural numbers.
THEOREM PipelineTypes == Spec => []TypeOK
<1>1. Inv => TypeOK BY DEF Inv
<1> QED BY <1>1, Invariant, PTL

\* At every moment the sums and the channel account for exactly what was
\* parsed, whatever the file, the capacity and the interleaving.
THEOREM PipelineLosesNothing == Spec => []NothingLostInFlight
<1>1. Inv => NothingLostInFlight BY DEF Inv
<1> QED BY <1>1, Invariant, PTL

\* What is published is exact, and of the whole file unless a failover cut
\* the parsing short.
THEOREM PublishedIsExact == Spec => []ResultIsExact
<1>1. Inv => ResultIsExact
  <2> SUFFICES ASSUME Inv, userAndOverhead # Old PROVE ResultIsExact BY DEF ResultIsExact
  <2>1. task = "done" BY DEF Inv, TaskOK
  <2>2. reader = "done" BY <2>1 DEF Inv, TaskOK, ReaderOK
  <2> QED BY <2>1, <2>2 DEF Inv, TaskOK, ReaderOK, IsResult, ResultIsExact
<1> QED BY <1>1, Invariant, PTL

\* A user has no more keys that expire than keys.
LEMMA ExpiringAreKeys ==
  ASSUME file \in Files, NEW u \in User, NEW n \in 0 .. Len(file)
  PROVE  Sums(u, n).ExpireKeyCount <= Sums(u, n).KeyCount
<1>1. n \in Nat BY FilesAreSequences
<1>2. IsFiniteSet(KeysOf(u, n)) BY <1>1, KeysAreFinite
<1>3. Cardinality({i \in KeysOf(u, n) : HasExpiry(i)}) <= Cardinality(KeysOf(u, n))
  BY <1>2, FS_Subset
<1> QED BY <1>3 DEF Sums

\* What the users are charged for one dictionary.
LEMMA ChargesOfDictionary ==
  ASSUME NEW counts \in [User -> Nat], NEW total, total = SumFunction(counts), total > 0,
         NEW nan, NEW charges, charges = [u \in User |-> RehashShare(counts[u], total, nan)]
  PROVE  /\ charges \in [User -> Nat] /\ SumFunction(charges) \in Nat
         /\ SumFunction(charges) <= FieldBucketOverhead(total)
         /\ SumFunction(charges) > FieldBucketOverhead(total) - Cardinality(User)
<1> DEFINE whole == FieldBucketOverhead(total)
<1>1. IsFiniteSet(User) /\ total \in Nat BY UserAssumption, SumFunctionType
<1>2. whole \in Nat BY <1>1, FieldBucketsType
<1>3. charges = [u \in User |-> (whole * counts[u]) \div total] BY <1>1 DEF RehashShare
<1> HIDE DEF whole
<1>4. /\ charges \in [User -> Nat]
      /\ SumFunction(charges) <= whole
      /\ SumFunction(charges) > whole - Cardinality(User)
  BY <1>1, <1>2, <1>3, SharesOfWhole
<1>5. SumFunction(charges) \in Nat BY <1>1, <1>4, SumFunctionType
<1> QED BY <1>4, <1>5 DEF whole

\* The result of rehashing sums in which somebody's keys expire.
LEMMA ChargesAddUp ==
  ASSUME NEW base \in [User -> UserOverhead],
         \A u \in User : base[u].ExpireKeyCount <= base[u].KeyCount,
         NEW nan \in NaNToUint64, Total(base, "ExpireKeyCount") > 0
  PROVE  LET shared == Total(Rehashed(base, nan), "Overhead") - Total(base, "Overhead")
             whole == FieldBucketOverhead(Total(base, "KeyCount"))
                        + FieldBucketOverhead(Total(base, "ExpireKeyCount"))
         IN shared <= whole /\ shared > whole - 2 * Cardinality(User)
<1> DEFINE keys == [u \in User |-> base[u].KeyCount]
           expires == [u \in User |-> base[u].ExpireKeyCount]
           held == [u \in User |-> base[u].Overhead]
           K == SumFunction(keys)
           E == SumFunction(expires)
           keyShares == [u \in User |-> RehashShare(keys[u], K, nan)]
           expireShares == [u \in User |-> RehashShare(expires[u], E, nan)]
           charges == [u \in User |-> keyShares[u] + expireShares[u]]
           after == [u \in User |-> held[u] + charges[u]]
<1>1. keys \in [User -> Nat] /\ expires \in [User -> Nat] /\ held \in [User -> Nat]
  BY DEF UserOverhead
<1>2. /\ Total(base, "KeyCount") = K /\ Total(base, "ExpireKeyCount") = E
      /\ Total(base, "Overhead") = SumFunction(held)
  BY DEF Total
<1>3. IsFiniteSet(User) /\ Cardinality(User) \in Nat
  BY UserAssumption, FS_CardinalityType
<1>4. \A u \in User : expires[u] <= keys[u] OBVIOUS
<1>5. K \in Nat /\ E \in Nat /\ E > 0 /\ E <= K
  <2>1. E > 0 BY <1>2
  <2> HIDE DEF keys, expires
  <2>2. E <= K BY <1>1, <1>3, <1>4, SumFunctionMonotone
  <2>3. K \in Nat /\ E \in Nat BY <1>1, <1>3, SumFunctionType
  <2> QED BY <2>1, <2>2, <2>3
<1>6. \A u \in User : Rehashed(base, nan)[u].Overhead = after[u]
  <2> TAKE u \in User
  <2>1. Rehashed(base, nan)[u] =
          IF keys[u] = 0 THEN base[u]
          ELSE [base[u] EXCEPT !.Overhead = @ + RehashShare(keys[u], K, nan)
                                              + RehashShare(expires[u], E, nan)]
    BY <1>2 DEF Rehashed
  <2>2. base[u] \in UserOverhead OBVIOUS
  <2>3. keys[u] \in Nat /\ expires[u] \in Nat /\ held[u] \in Nat BY <1>1
  <2>4. RehashShare(keys[u], K, nan) \in Nat /\ RehashShare(expires[u], E, nan) \in Nat
    BY <1>5, <2>3, ShareType, NaNAssumption
  <2>5. after[u] = held[u] + (RehashShare(keys[u], K, nan) + RehashShare(expires[u], E, nan))
    OBVIOUS
  <2>6. CASE keys[u] = 0
    <3>1. expires[u] = 0 BY <1>4, <2>3, <2>6
    <3>2. \A t \in Nat : t > 0 => RehashShare(0, t, nan) = 0
      <4> TAKE t \in Nat
      <4> HAVE t > 0
      <4>1. FieldBucketOverhead(t) * 0 = 0 BY FieldBucketsType
      <4>2. 0 \div t = 0 OBVIOUS
      <4> QED BY <4>1, <4>2 DEF RehashShare
    <3>3. RehashShare(keys[u], K, nan) = 0 /\ RehashShare(expires[u], E, nan) = 0
      BY <1>5, <2>6, <3>1, <3>2
    <3>4. Rehashed(base, nan)[u].Overhead = held[u] BY <2>1, <2>6
    <3> HIDE DEF after, held, keys, expires
    <3> QED BY <2>3, <2>5, <3>3, <3>4
  <2>7. CASE keys[u] # 0
    <3>1. Rehashed(base, nan)[u].Overhead
            = held[u] + RehashShare(keys[u], K, nan) + RehashShare(expires[u], E, nan)
      BY <2>1, <2>2, <2>7 DEF UserOverhead
    <3> HIDE DEF after, held, keys, expires
    <3> QED BY <2>3, <2>4, <2>5, <3>1
  <2> QED BY <2>6, <2>7
<1>7. Total(Rehashed(base, nan), "Overhead") = SumFunction(after)
  <2>1. [u \in User |-> Rehashed(base, nan)[u].Overhead] = [u \in User |-> after[u]] BY <1>6
  <2>2. after = [u \in User |-> after[u]] OBVIOUS
  <2> HIDE DEF after
  <2>3. [u \in User |-> Rehashed(base, nan)[u].Overhead] = after BY <2>1, <2>2
  <2>4. Total(Rehashed(base, nan), "Overhead")
          = SumFunction([u \in User |-> Rehashed(base, nan)[u].Overhead])
    BY DEF Total
  <2> QED BY <2>3, <2>4
<1> HIDE DEF keys, expires, held
<1>8. /\ keyShares \in [User -> Nat] /\ SumFunction(keyShares) \in Nat
      /\ SumFunction(keyShares) <= FieldBucketOverhead(K)
      /\ SumFunction(keyShares) > FieldBucketOverhead(K) - Cardinality(User)
  <2>1. K > 0 BY <1>5
  <2> HIDE DEF keyShares
  <2>2. keyShares = [u \in User |-> RehashShare(keys[u], K, nan)] BY DEF keyShares
  <2> QED BY <1>1, <2>1, <2>2, ChargesOfDictionary
<1>9. /\ expireShares \in [User -> Nat] /\ SumFunction(expireShares) \in Nat
      /\ SumFunction(expireShares) <= FieldBucketOverhead(E)
      /\ SumFunction(expireShares) > FieldBucketOverhead(E) - Cardinality(User)
  <2>1. E > 0 BY <1>5
  <2> HIDE DEF expireShares
  <2>2. expireShares = [u \in User |-> RehashShare(expires[u], E, nan)] BY DEF expireShares
  <2> QED BY <1>1, <2>1, <2>2, ChargesOfDictionary
<1> HIDE DEF keyShares, expireShares
<1>10. charges \in [User -> Nat]
       /\ SumFunction(charges) = SumFunction(keyShares) + SumFunction(expireShares)
  BY <1>3, <1>8, <1>9, SumFunctionOfSums
<1> HIDE DEF charges
<1>11. SumFunction(after) = SumFunction(held) + SumFunction(charges)
  BY <1>1, <1>3, <1>10, SumFunctionOfSums
<1>12. SumFunction(held) \in Nat BY <1>1, <1>3, SumFunctionType
<1>13. FieldBucketOverhead(K) \in Nat /\ FieldBucketOverhead(E) \in Nat BY <1>5, FieldBucketsType
<1> HIDE DEF after, K, E
<1>14. Total(Rehashed(base, nan), "Overhead") - Total(base, "Overhead")
         = SumFunction(keyShares) + SumFunction(expireShares)
  BY <1>2, <1>7, <1>8, <1>9, <1>10, <1>11, <1>12
<1> QED BY <1>2, <1>3, <1>8, <1>9, <1>13, <1>14

\* However many users share them, the rehash overheads that are charged miss
\* the two of the whole by less than a byte for each user and dictionary.
THEOREM ChargedSharesAddUp == Spec => []SharesAddUp
<1>1. Inv /\ ResultIsExact => SharesAddUp
  <2> SUFFICES ASSUME Inv, ResultIsExact, userAndOverhead # Old,
                      Total(userAndOverhead, "ExpireKeyCount") > 0
               PROVE  SharesAddUp
    BY DEF SharesAddUp
  <2> DEFINE base == Reference(pos - 1)
  <2>1. file \in Files /\ pos - 1 \in 0 .. Len(file)
    BY FilesAreSequences DEF Inv, TypeOK
  <2>2. base \in [User -> UserOverhead] BY <2>1, ReferenceType
  <2>3. \A u \in User : base[u].ExpireKeyCount <= base[u].KeyCount
    BY <2>1, ExpiringAreKeys, ReferenceIsSums
  <2>4. PICK nan \in NaNToUint64 : userAndOverhead = Rehashed(base, nan) BY DEF ResultIsExact
  <2> HIDE DEF base
  <2>5. Total(userAndOverhead, "ExpireKeyCount") = Total(base, "ExpireKeyCount")
    <3>1. \A u \in User : userAndOverhead[u].ExpireKeyCount = base[u].ExpireKeyCount
      BY <2>2, <2>4 DEF Rehashed, UserOverhead
    <3>2. [u \in User |-> userAndOverhead[u].ExpireKeyCount]
            = [u \in User |-> base[u].ExpireKeyCount]
      BY <3>1
    <3> QED BY <3>2 DEF Total
  <2>6. Total(base, "ExpireKeyCount") > 0 BY <2>5
  <2> QED BY <2>2, <2>3, <2>4, <2>6, ChargesAddUp DEF SharesAddUp, base
<1> QED BY <1>1, Invariant, PublishedIsExact, PTL
=============================================================================
