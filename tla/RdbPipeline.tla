---------------------------- MODULE RdbPipeline ----------------------------
(***************************************************************************)
(* The second half of a statistic task: one goroutine (reader.StartRead,   *)
(* rdb.ParseRDB) parses the RDB file and sends an entry per key over a     *)
(* channel, the goroutine of the task (memanalysis.Statistic) adds the     *)
(* entries up per user and publishes the sums.                             *)
(*                                                                         *)
(* A file is a sequence of RDB opcodes.  A key carries the memory that the *)
(* MemOverhead of its value estimates (Overhead.tla); the expiry opcodes   *)
(* carry when the key expires, seen from the moment they are read.  "bad"  *)
(* stands for everything the parser panics on; a file that does not end in *)
(* "eof" is truncated, which it panics on too.                             *)
(***************************************************************************)
EXTENDS Overhead

CONSTANTS
  User,           \* the user spaces
  NoUser,         \* what a key without ':' and a lua entry have for a user
  Files,          \* the RDB files that may be there
  Cap,            \* the capacity of the channel: 1024
  Old,            \* the result of an earlier task, or nil
  NaNToUint64     \* what uint64(NaN) may be: Go leaves it to the platform

ASSUME CapAssumption == Cap \in Nat \ {0}
ASSUME UserAssumption == IsFiniteSet(User) /\ NoUser \notin User
ASSUME NaNAssumption == NaNToUint64 \subseteq Nat

Opcode ==
  [op : {"key"}, user : User \cup {NoUser}, cost : Nat]
    \cup [op : {"expire"}, at : {"past", "now", "future"}]
    \cup [op : {"lua", "other", "eof", "bad"}]

\* Nothing follows the end of a file.
ASSUME FilesAssumption ==
  \A f \in Files : f \in Seq(Opcode) /\ \A i \in DOMAIN f : f[i].op = "eof" => i = Len(f)

VARIABLES
  file,           \* the file this task reads
  pos,            \* the next opcode
  expireMs,       \* Loader.expireMs: 0 is "no expiry seen"
  reader,         \* where the parsing goroutine is
  cut,            \* history: parsing ended because the node became master
  role,           \* what INFO Replication answers
  ch,             \* the entries in the channel
  closed,         \* close(r.ch) was called
  task,           \* where the goroutine of the task is
  userAndOverheadTemp,
  userAndOverhead,
  up              \* is the agent process alive?

fileVars == <<file, pos, expireMs, reader, cut>>
taskVars == <<task, userAndOverheadTemp, userAndOverhead>>
vars == <<fileVars, role, ch, closed, taskVars, up>>

UserOverhead == [KeyCount : Nat, ExpireKeyCount : Nat, Overhead : Nat]
Empty == [u \in User |-> [KeyCount |-> 0, ExpireKeyCount |-> 0, Overhead |-> 0]]

Entry == [user : User \cup {NoUser}, overhead : Nat, isExpireKey : BOOLEAN]

TypeOK ==
  /\ file \in Files
  /\ pos \in 1 .. Len(file) + 1
  /\ expireMs \in {0, 1}
  /\ reader \in {"stat", "parse", "returned", "done"}
  /\ cut \in BOOLEAN
  /\ role \in {"master", "slave"}
  /\ ch \in Seq(Entry) /\ Len(ch) <= Cap
  /\ closed \in BOOLEAN
  /\ task \in {"range", "publish", "done"}
  /\ userAndOverheadTemp \in [User -> UserOverhead]
  /\ userAndOverhead \in {Old} \cup [User -> UserOverhead]
  /\ up \in BOOLEAN

Init ==
  /\ file \in Files
  /\ pos = 1
  /\ expireMs = 0
  /\ reader = "stat"
  /\ cut = FALSE
  /\ role = "slave"
  /\ ch = <<>>
  /\ closed = FALSE
  /\ task = "range"
  /\ userAndOverheadTemp = Empty
  /\ userAndOverhead = Old
  /\ up = TRUE

---------------------------------------------------------------------------
(* The parsing goroutine *)

\* The file is found, opened and starts with the magic string.
Open ==
  /\ up /\ reader = "stat"
  /\ reader' = "parse"
  /\ UNCHANGED <<file, pos, expireMs, cut, role, ch, closed, taskVars, up>>

\* The end of a round of the loop: if the ticker has fired and the node is a
\* master now, parseRDBEntry returns; otherwise it reads on.
Tick ==
  \/ UNCHANGED <<reader, cut>>
  \/ role = "master" /\ reader' = "returned" /\ cut' = TRUE

Reads(op) ==
  /\ up /\ reader = "parse"
  /\ pos <= Len(file) /\ file[pos].op = op
  /\ pos' = pos + 1
  /\ UNCHANGED <<file, role, closed, taskVars, up>>

\* Mutation: a channel without a bound.
SendUnbounded(e) == ch' = Append(ch, e)

\* A send blocks while the channel is full.
Send(e) == Len(ch) < Cap /\ ch' = Append(ch, e)

\* Mutation: the expiry is not reset after a key.
ReadKeyNoReset ==
  /\ Reads("key")
  /\ Send([user        |-> file[pos].user,
           overhead    |-> file[pos].cost + (IF expireMs # 0 THEN 24 ELSE 0),
           isExpireKey |-> expireMs # 0])
  /\ Tick
  /\ UNCHANGED expireMs

\* A key and its value: the entry is sent and the expiry is reset.
ReadKey ==
  /\ Reads("key")
  /\ Send([user        |-> file[pos].user,
           overhead    |-> file[pos].cost + (IF expireMs # 0 THEN 24 ELSE 0),
           isExpireKey |-> expireMs # 0])
  /\ expireMs' = 0
  /\ Tick

\* EXPIRETIME and EXPIRETIMEMS: what is left is negative (it becomes 1), zero
\* or positive when it is read.  Zero is also the value for "no expiry".
ReadExpire ==
  /\ Reads("expire")
  /\ expireMs' = IF file[pos].at = "now" THEN 0 ELSE 1
  /\ Tick
  /\ UNCHANGED ch

\* The aux field lua is sent as an entry without a key.
ReadLua ==
  /\ Reads("lua")
  /\ Send([user |-> NoUser, overhead |-> 0, isExpireKey |-> FALSE])
  /\ Tick
  /\ UNCHANGED expireMs

\* Other aux fields, SELECTDB, RESIZEDB, idle time and frequency.
ReadOther ==
  /\ Reads("other")
  /\ Tick
  /\ UNCHANGED <<ch, expireMs>>

ReadEOF ==
  /\ Reads("eof")
  /\ reader' = "returned"
  /\ UNCHANGED <<cut, ch, expireMs>>

\* Mutation: StartRead without close(r.ch).
CloseForgotten ==
  /\ up /\ reader = "returned"
  /\ reader' = "done"
  /\ UNCHANGED <<file, pos, expireMs, cut, role, ch, closed, taskVars, up>>

\* StartRead closes the channel after ParseRDB has returned.
Close ==
  /\ up /\ reader = "returned"
  /\ reader' = "done"
  /\ closed' = TRUE
  /\ UNCHANGED <<file, pos, expireMs, cut, role, ch, taskVars, up>>

\* What comes next cannot be parsed, or the file ends here.
Unreadable == IF pos <= Len(file) THEN file[pos].op = "bad" ELSE TRUE

\* The goroutine panics: the file is missing when it is opened or looked at
\* again at the end, or cannot be parsed.  Nothing recovers it, so the whole
\* process ends.
Panic ==
  /\ up
  /\ \/ reader \in {"stat", "returned"}
     \/ reader = "parse" /\ Unreadable
  /\ up' = FALSE
  /\ UNCHANGED <<fileVars, role, ch, closed, taskVars>>

---------------------------------------------------------------------------
(* The goroutine of the task *)

Add(s, e) == [KeyCount       |-> s.KeyCount + 1,
              ExpireKeyCount |-> s.ExpireKeyCount + (IF e.isExpireKey THEN 1 ELSE 0),
              Overhead       |-> s.Overhead + e.overhead]

\* One round of the loop over the channel: an entry whose key does not match
\* *:* is skipped.
Receive ==
  /\ up /\ task = "range"
  /\ ch # <<>>
  /\ ch' = Tail(ch)
  /\ userAndOverheadTemp' =
       IF Head(ch).user = NoUser THEN userAndOverheadTemp
       ELSE [userAndOverheadTemp EXCEPT ![Head(ch).user] = Add(@, Head(ch))]
  /\ UNCHANGED <<fileVars, role, closed, task, userAndOverhead, up>>

Total(sums, count) == SumFunction([u \in User |-> sums[u][count]])

\* Mutation: every user is charged the whole overhead.
RehashShareWhole(count, total, nan) ==
  IF total = 0 THEN nan ELSE FieldBucketOverhead(total)

\* The part of a dictionary's rehash overhead that falls to count of total
\* keys, rounded down (the code divides by float64 first).  With no keys at all the proportion is 0/0 and the part uint64(NaN).
RehashShare(count, total, nan) ==
  IF total = 0 THEN nan ELSE (FieldBucketOverhead(total) * count) \div total

\* keyRehashOverhead and expireKeyRehashOverhead, for the users in the map.
Rehashed(sums, nan) ==
  LET keys == Total(sums, "KeyCount")
      expires == Total(sums, "ExpireKeyCount")
  IN [u \in User |->
        IF sums[u].KeyCount = 0 THEN sums[u]
        ELSE [sums[u] EXCEPT !.Overhead =
                @ + RehashShare(sums[u].KeyCount, keys, nan)
                  + RehashShare(sums[u].ExpireKeyCount, expires, nan)]]

\* Mutation: the loop ends when the channel is closed, drained or not.
EndRangeEarly ==
  /\ up /\ task = "range"
  /\ closed
  /\ \E nan \in NaNToUint64 : userAndOverheadTemp' = Rehashed(userAndOverheadTemp, nan)
  /\ task' = "publish"
  /\ UNCHANGED <<fileVars, role, ch, closed, userAndOverhead, up>>

\* The channel is closed and drained: the rehash overheads are added.
EndRange ==
  /\ up /\ task = "range"
  /\ ch = <<>> /\ closed
  /\ \E nan \in NaNToUint64 : userAndOverheadTemp' = Rehashed(userAndOverheadTemp, nan)
  /\ task' = "publish"
  /\ UNCHANGED <<fileVars, role, ch, closed, userAndOverhead, up>>

\* The new map replaces the one that GET /analysisInfo answers.
Publish ==
  /\ up /\ task = "publish"
  /\ userAndOverhead' = userAndOverheadTemp
  /\ task' = "done"
  /\ UNCHANGED <<fileVars, role, ch, closed, userAndOverheadTemp, up>>

\* A failover changes the role of the node.
Failover ==
  /\ role' = IF role = "master" THEN "slave" ELSE "master"
  /\ UNCHANGED <<fileVars, ch, closed, taskVars, up>>

---------------------------------------------------------------------------
Parse == Open \/ ReadKey \/ ReadExpire \/ ReadLua \/ ReadOther \/ ReadEOF \/ Close \/ Panic
Collect == Receive \/ EndRange \/ Publish

Next == Parse \/ Collect \/ Failover

Spec == Init /\ [][Next]_vars

\* Both goroutines are scheduled; a failover need not happen.
FairSpec == Spec /\ WF_vars(Parse) /\ WF_vars(Collect)

---------------------------------------------------------------------------
(* What the task has to compute, from the file alone *)

\* The keys among the first n opcodes, by position.
KeysOf(u, n) == {i \in 1 .. n : file[i].op = "key" /\ file[i].user = u}

\* Key i has an expiry: the last expiry opcode since the key before it did not
\* name the very millisecond it was read at, which the loader takes for none.
HasExpiry(i) ==
  \E j \in 1 .. i - 1 :
    /\ file[j].op = "expire" /\ file[j].at # "now"
    /\ \A m \in j + 1 .. i - 1 : file[m].op \notin {"key", "expire"}

Reference(n) ==
  [u \in User |->
     LET keys == KeysOf(u, n)
         expires == {i \in keys : HasExpiry(i)}
     IN [KeyCount       |-> Cardinality(keys),
         ExpireKeyCount |-> Cardinality(expires),
         Overhead       |-> SumFunction([i \in keys |-> file[i].cost])
                              + 24 * Cardinality(expires)]]

---------------------------------------------------------------------------
Sends(i) == file[i].op \in {"key", "lua"}

EntryOf(i) ==
  IF file[i].op = "lua" THEN [user |-> NoUser, overhead |-> 0, isExpireKey |-> FALSE]
  ELSE [user        |-> file[i].user,
        overhead    |-> file[i].cost + (IF HasExpiry(i) THEN 24 ELSE 0),
        isExpireKey |-> HasExpiry(i)]

\* The task has counted the first n opcodes, and the channel holds the entries
\* of the others that were parsed, in the order of their positions at.
Accounts(n, at) ==
  /\ userAndOverheadTemp = Reference(n)
  /\ \A k, l \in DOMAIN at : k < l => at[k] < at[l]
  /\ {at[k] : k \in DOMAIN at} = {i \in n + 1 .. pos - 1 : Sends(i)}
  /\ \A k \in DOMAIN at : ch[k] = EntryOf(at[k])

\* At every moment the sums of the task and the entries in the channel account
\* for exactly what was parsed: nothing is lost, counted twice, overtaken,
\* charged to another user or given the expiry of the key before it.
NothingLostInFlight ==
  task = "range" =>
    \E n \in 0 .. pos - 1 : \E at \in [1 .. Len(ch) -> n + 1 .. pos - 1] : Accounts(n, at)

\* What is published is the sums over exactly what was parsed, with the rehash
\* overhead added once: the whole file, unless a failover cut the parsing short.
ResultIsExact ==
  userAndOverhead # Old =>
    /\ \E nan \in NaNToUint64 : userAndOverhead = Rehashed(Reference(pos - 1), nan)
    /\ cut \/ pos = Len(file) + 1

\* The users share the rehash overheads of the two dictionaries: together they
\* are charged no more than those, and less by at most rounding (a byte for
\* each user and dictionary).
SharesAddUp ==
  userAndOverhead # Old /\ Total(userAndOverhead, "ExpireKeyCount") > 0 =>
    LET base == Reference(pos - 1)
        shared == Total(userAndOverhead, "Overhead") - Total(base, "Overhead")
        whole == FieldBucketOverhead(Total(base, "KeyCount"))
                   + FieldBucketOverhead(Total(base, "ExpireKeyCount"))
    IN shared <= whole /\ shared > whole - 2 * Cardinality(User)

\* The task always ends or the process does: neither goroutine is left waiting
\* for the other on the bounded channel.
PipelineEnds == task = "range" ~> task = "done" \/ ~up

---------------------------------------------------------------------------
(* What comments of the code say and the code does not do *)

\* The comment at the assignment (memanalysis/memstatistics.go:81): the earlier
\* result is replaced after the analysis is complete.  When a failover cuts
\* the parsing short, part of a file replaces it.
PartialNeverPublished == cut => userAndOverhead = Old

\* The comments of expireKeyRehashOverhead (memanalysis/memstatistics.go:122):
\* a user is charged its proportion of the overhead, hence at most all of it.
ShareIsAProportion ==
  userAndOverhead # Old =>
    Total(userAndOverhead, "Overhead") <=
      Total(Reference(pos - 1), "Overhead")
        + FieldBucketOverhead(Total(Reference(pos - 1), "KeyCount"))
        + FieldBucketOverhead(Total(Reference(pos - 1), "ExpireKeyCount"))
=============================================================================
