------------------------------ MODULE Cleaner ------------------------------
(***************************************************************************)
(* Clean tasks of internal/cleaner/cleaner.go: SCAN the local Redis node    *)
(* for the keys of one user, by a pattern made of the user's name, group    *)
(* them by hash slot, UNLINK a slot's group once it is large enough and     *)
(* what is left of the groups at the end.                                   *)
(*                                                                         *)
(* A task is a goroutine of its own with its own cursor and groups; several *)
(* may run, for the same name or for different ones, while clients write    *)
(* keys and keys expire.  SCAN and UNLINK are external commands, modelled   *)
(* by what Redis and the go-redis client promise: a SCAN from cursor c      *)
(* returns the keys that stayed in the part of the table c stands for, and  *)
(* possibly others again; an UNLINK runs at once, or not at all, and its    *)
(* reply may be lost in either case.                                        *)
(***************************************************************************)
EXTENDS Naturals, Sequences, Functions, Glob

CONSTANTS
  Task,         \* the clean tasks that run
  Key,          \* the keys that may be on the node, as texts
  Slot,         \* the hash slots
  SlotOf,       \* Key -> Slot: utils.Slot
  Parts,        \* how many SCAN calls visit the whole table
  PartOf,       \* Key -> 0 .. Parts - 1: the call that visits a key
  UserOf,       \* Task -> Text: cleanTaskParam.UserName
  StartCursor,  \* Task -> cursor: cleanTaskParam.Cursor
  Flush         \* batchCount - batchFloat

ASSUME FlushAssumption == Flush \in Nat \ {0}
ASSUME PartsAssumption == Parts \in Nat \ {0}
ASSUME MapsAssumption ==
  /\ ":" \in Char
  /\ Key \subseteq Text
  /\ SlotOf \in [Key -> Slot]
  /\ PartOf \in [Key -> 0 .. Parts - 1]
  /\ UserOf \in [Task -> Text]
  /\ StartCursor \in [Task -> 0 .. Parts - 1]

VARIABLES
  db,               \* the keys on the node
  pc,               \* where each task is
  cursor,           \* the cursor its next SCAN uses
  page,             \* what is left of the result of its last SCAN
  keyGroupBySlot,   \* its groups
  full,             \* the slots whose group it is about to UNLINK
  owed              \* history: keys it found at its start, not written since

vars == <<db, pc, cursor, page, keyGroupBySlot, full, owed>>

TaskState == {"idle", "scan", "group", "unlink", "final", "done", "failed"}
Stopped == {"done", "failed"}

TypeOK ==
  /\ db \in SUBSET Key
  /\ pc \in [Task -> TaskState]
  /\ cursor \in [Task -> 0 .. Parts - 1]
  /\ page \in [Task -> SUBSET Key]
  /\ keyGroupBySlot \in [Task -> [Slot -> Seq(Key)]]
  /\ full \in [Task -> SUBSET Slot]
  /\ owed \in [Task -> SUBSET Key]

Init ==
  /\ db \in SUBSET Key
  /\ pc = [t \in Task |-> "idle"]
  /\ cursor = StartCursor
  /\ page = [t \in Task |-> {}]
  /\ keyGroupBySlot = [t \in Task |-> [s \in Slot |-> <<>>]]
  /\ full = [t \in Task |-> {}]
  /\ owed = [t \in Task |-> {}]

\* Key k is of user u: u is the part of k before its first ':'.
Owns(u, k) ==
  /\ Len(u) < Len(k) /\ k[Len(u) + 1] = ":"
  /\ \A i \in DOMAIN u : u[i] = k[i] /\ u[i] # ":"

\* A name that says what it seems to say: nothing in it is a pattern, and it
\* may be the first part of a key.
PlainName(u) == Literal(u) /\ \A i \in DOMAIN u : u[i] # ":"

\* userName + ":*", a pattern in which the name is not escaped, nor checked
\* when the task is created.
Pattern(t) == UserOf[t] \o <<":", "*">>

Matching == [t \in Task |-> {k \in Key : Matches(Pattern(t), k)}]

\* Mutation: the pattern lacks the ':'.
MatchPrefix(t, k) == Matches(UserOf[t] \o <<"*">>, k)

Match(t, k) == k \in Matching[t]

\* The keys a task has to remove: those its calls will visit.
Due(t) == {k \in db : Match(t, k) /\ PartOf[k] >= StartCursor[t]}

\* ExecuteClean is called.
Start(t) ==
  /\ pc[t] = "idle"
  /\ pc' = [pc EXCEPT ![t] = "scan"]
  /\ owed' = [owed EXCEPT ![t] = Due(t)]
  /\ UNCHANGED <<db, cursor, page, keyGroupBySlot, full>>

\* The cursors stand for the parts of the table; after the last one comes 0.
NextCursor(c) == IF c + 1 = Parts THEN 0 ELSE c + 1

\* Mutation: the task counts its calls instead of taking the returned cursor.
ScanCountsCalls(t) ==
  /\ pc[t] = "scan"
  /\ page' = [page EXCEPT ![t] = {k \in db : Match(t, k) /\ PartOf[k] = cursor[t]}]
  /\ cursor' = [cursor EXCEPT ![t] = @ + 1]
  /\ pc' = [pc EXCEPT ![t] = "group"]
  /\ UNCHANGED <<db, keyGroupBySlot, full, owed>>

\* One SCAN: every matching key of the part of the table, and any other
\* matching key a second time.
Scan(t) ==
  /\ pc[t] = "scan"
  /\ \E again \in SUBSET {k \in db : Match(t, k) /\ PartOf[k] # cursor[t]} :
       page' = [page EXCEPT ![t] =
                  again \cup {k \in db : Match(t, k) /\ PartOf[k] = cursor[t]}]
  /\ cursor' = [cursor EXCEPT ![t] = NextCursor(@)]
  /\ pc' = [pc EXCEPT ![t] = "group"]
  /\ UNCHANGED <<db, keyGroupBySlot, full, owed>>

ScanError(t) ==
  /\ pc[t] = "scan"
  /\ pc' = [pc EXCEPT ![t] = "failed"]
  /\ UNCHANGED <<db, cursor, page, keyGroupBySlot, full, owed>>

\* Mutations of Group: > for >= in the test of the group's size ...
GroupFlushesLate(t) ==
  /\ pc[t] = "group"
  /\ \E k \in page[t] :
       LET s == SlotOf[k]
           g == Append(keyGroupBySlot[t][s], k)
       IN /\ page' = [page EXCEPT ![t] = @ \ {k}]
          /\ keyGroupBySlot' = [keyGroupBySlot EXCEPT ![t][s] = g]
          /\ IF Len(g) > Flush
             THEN /\ pc' = [pc EXCEPT ![t] = "unlink"]
                  /\ full' = [full EXCEPT ![t] = {s}]
             ELSE UNCHANGED <<pc, full>>
  /\ UNCHANGED <<db, cursor, owed>>

\* ... and the key that fills a group is not put into it.
GroupDropsKey(t) ==
  /\ pc[t] = "group"
  /\ \E k \in page[t] :
       LET s == SlotOf[k]
           g == Append(keyGroupBySlot[t][s], k)
       IN /\ page' = [page EXCEPT ![t] = @ \ {k}]
          /\ IF Len(g) >= Flush
             THEN /\ pc' = [pc EXCEPT ![t] = "unlink"]
                  /\ full' = [full EXCEPT ![t] = {s}]
                  /\ UNCHANGED keyGroupBySlot
             ELSE /\ keyGroupBySlot' = [keyGroupBySlot EXCEPT ![t][s] = g]
                  /\ UNCHANGED <<pc, full>>
  /\ UNCHANGED <<db, cursor, owed>>

\* One round of the loop over keys: a group that has reached batchCount -
\* batchFloat is unlinked before the next key is looked at.
Group(t) ==
  /\ pc[t] = "group"
  /\ \E k \in page[t] :
       LET s == SlotOf[k]
           g == Append(keyGroupBySlot[t][s], k)
       IN /\ page' = [page EXCEPT ![t] = @ \ {k}]
          /\ keyGroupBySlot' = [keyGroupBySlot EXCEPT ![t][s] = g]
          /\ IF Len(g) >= Flush
             THEN /\ pc' = [pc EXCEPT ![t] = "unlink"]
                  /\ full' = [full EXCEPT ![t] = {s}]
             ELSE UNCHANGED <<pc, full>>
  /\ UNCHANGED <<db, cursor, owed>>

\* Mutation: the groups that are left are not unlinked.
EndPageDropsRest(t) ==
  /\ pc[t] = "group"
  /\ page[t] = {}
  /\ pc' = [pc EXCEPT ![t] = IF cursor[t] = 0 THEN "final" ELSE "scan"]
  /\ UNCHANGED <<db, cursor, page, keyGroupBySlot, full, owed>>

\* Mutation: the break at cursor 0 is missing.
EndPageNeverBreaks(t) ==
  /\ pc[t] = "group"
  /\ page[t] = {}
  /\ pc' = [pc EXCEPT ![t] = "scan"]
  /\ UNCHANGED <<db, cursor, page, keyGroupBySlot, full, owed>>

\* The page is exhausted: scan on, or leave the loop when the cursor is 0.
EndPage(t) ==
  /\ pc[t] = "group"
  /\ page[t] = {}
  /\ IF cursor[t] = 0
     THEN /\ pc' = [pc EXCEPT ![t] = "final"]
          /\ full' = [full EXCEPT ![t] = {s \in Slot : keyGroupBySlot[t][s] # <<>>}]
     ELSE /\ pc' = [pc EXCEPT ![t] = "scan"]
          /\ UNCHANGED full
  /\ UNCHANGED <<db, cursor, page, keyGroupBySlot, owed>>

Remaining(t, s) == db \ Range(keyGroupBySlot[t][s])

\* The UNLINK inside the loop succeeds and the group is emptied.
Unlink(t) ==
  /\ pc[t] = "unlink"
  /\ \E s \in full[t] :
       /\ db' = Remaining(t, s)
       /\ keyGroupBySlot' = [keyGroupBySlot EXCEPT ![t][s] = <<>>]
  /\ full' = [full EXCEPT ![t] = {}]
  /\ pc' = [pc EXCEPT ![t] = "group"]
  /\ UNCHANGED <<cursor, page, owed>>

\* One round of the last loop, over the groups in the order of the map.
UnlinkFinal(t) ==
  /\ pc[t] = "final"
  /\ \E s \in full[t] :
       /\ db' = Remaining(t, s)
       /\ full' = [full EXCEPT ![t] = @ \ {s}]
  /\ UNCHANGED <<pc, cursor, page, keyGroupBySlot, owed>>

Finish(t) ==
  /\ pc[t] = "final"
  /\ full[t] = {}
  /\ pc' = [pc EXCEPT ![t] = "done"]
  /\ UNCHANGED <<db, cursor, page, keyGroupBySlot, full, owed>>

\* An UNLINK returns an error: Redis refused it (the slot has moved, the node
\* is a replica) or ran it and the reply was lost.  The task gives up.
UnlinkError(t) ==
  /\ pc[t] \in {"unlink", "final"}
  /\ \E s \in full[t] : db' \in {db, Remaining(t, s)}
  /\ pc' = [pc EXCEPT ![t] = "failed"]
  /\ UNCHANGED <<cursor, page, keyGroupBySlot, full, owed>>

\* The reply of an UNLINK is lost and go-redis sends the command again.
UnlinkResent(t) ==
  /\ pc[t] \in {"unlink", "final"}
  /\ \E s \in full[t] : db' = Remaining(t, s)
  /\ UNCHANGED <<pc, cursor, page, keyGroupBySlot, full, owed>>

\* A client writes a key: from here on no running task owes its removal.
Write(k) ==
  /\ db' = db \cup {k}
  /\ owed' = [t \in Task |-> owed[t] \ {k}]
  /\ UNCHANGED <<pc, cursor, page, keyGroupBySlot, full>>

\* A key expires, or a client deletes it.
Vanish(k) ==
  /\ db' = db \ {k}
  /\ UNCHANGED <<pc, cursor, page, keyGroupBySlot, full, owed>>

---------------------------------------------------------------------------
Advance(t) ==
  Scan(t) \/ Group(t) \/ EndPage(t) \/ Unlink(t) \/ UnlinkFinal(t) \/ Finish(t)

Fail(t) == ScanError(t) \/ UnlinkError(t)

Next ==
  \/ \E t \in Task : Start(t) \/ Advance(t) \/ Fail(t) \/ UnlinkResent(t)
  \/ \E k \in Key : Write(k) \/ Vanish(k)

Spec == Init /\ [][Next]_vars

\* The goroutine of a task is scheduled and its commands are answered.
FairSpec == Spec /\ \A t \in Task : WF_vars(Advance(t) \/ Fail(t))

---------------------------------------------------------------------------
\* When a task reports success, every key that matches its pattern and was on
\* the node at its start, in the part of the table from its start cursor on, is
\* gone, unless a client wrote it since: no key is lost between SCAN, groups,
\* batches and the last loop, whatever other tasks and clients do meanwhile.
CleanIsComplete ==
  \A t \in Task : pc[t] = "done" => owed[t] \cap db = {}

\* A task will still come to key k: it is in a part that is not scanned yet,
\* in the page, or in a group.
Ahead(t, k) ==
  \/ pc[t] = "scan" /\ PartOf[k] >= cursor[t]
  \/ pc[t] \in {"group", "unlink"} /\ cursor[t] # 0 /\ PartOf[k] >= cursor[t]
  \/ k \in page[t]
  \/ /\ k \in Range(keyGroupBySlot[t][SlotOf[k]])
     /\ pc[t] = "final" => SlotOf[k] \in full[t]

\* A running task still has every key it owes ahead of it: no flush of a group,
\* duplicate of SCAN, end of a page or last loop drops one.
NothingForgotten ==
  \A t \in Task : pc[t] \notin Stopped => \A k \in owed[t] \cap db : Ahead(t, k)

\* No UNLINK spans two slots, names more than batchCount - batchFloat keys
\* (duplicates of SCAN included), or is empty: Redis refuses the first and the
\* last, and the slices that hold the groups never have to grow.
BatchesAreLegal ==
  \A t \in Task :
    /\ \A s \in Slot :
         /\ \A k \in Range(keyGroupBySlot[t][s]) : SlotOf[k] = s
         /\ Len(keyGroupBySlot[t][s]) <= Flush
         /\ Len(keyGroupBySlot[t][s]) = Flush =>
              s \in full[t] /\ pc[t] \in {"unlink", "failed"}
    /\ pc[t] \in {"unlink", "final"} =>
         \A s \in full[t] : keyGroupBySlot[t][s] # <<>>

\* A task whose user name is plain removes keys of that user only, however many
\* tasks for other names, patterns among them, run with it and whatever is
\* written into the slots it unlinks from.  Of a name that is a pattern, or has
\* a ':', the code does not ensure it.
RemovesOwnKeysOnly ==
  [][\A t \in Task :
       /\ PlainName(UserOf[t])
       /\ Unlink(t) \/ UnlinkFinal(t) \/ UnlinkError(t) \/ UnlinkResent(t)
       => \A k \in db : k \notin db' => Owns(UserOf[t], k)]_vars

\* A task that was started ends, even if clients keep writing matching keys
\* into the part of the table that is still to be scanned.
TasksEnd == \A t \in Task : pc[t] = "scan" ~> pc[t] \in Stopped
=============================================================================
