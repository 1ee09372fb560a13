--------------------------- MODULE CleanerProofs ---------------------------
(***************************************************************************)
(* Theorems about Cleaner for any number of tasks, keys, names and slots,  *)
(* any partition of the table and any batch size; and that a plain user    *)
(* name, made a pattern, selects that user's keys and no others.           *)
(*                                                                         *)
(* What has to be carried along is where a key that a task owes can be:    *)
(* NothingForgotten, strengthened by facts about the phases of a task      *)
(* (PhaseInv), and by what its page and groups hold (ContentInv) and what  *)
(* it owes (OwedInv), which all match its pattern.                         *)
(***************************************************************************)
EXTENDS Cleaner, DataProofs   \* for its lemmas on recursive functions

\* What the phase of a task says of its page, cursor and full groups.
PhaseInv == \A t \in Task :
  /\ pc[t] = "idle" => cursor[t] = StartCursor[t]
  /\ pc[t] \in {"idle", "scan", "final", "done"} => page[t] = {}
  /\ pc[t] \in {"final", "done"} => cursor[t] = 0
  /\ pc[t] \in {"idle", "scan", "group"} => full[t] = {}
  /\ pc[t] = "unlink" => \E s \in Slot : full[t] = {s}

\* Page and groups hold keys that match the task's pattern only.
ContentInv == \A t \in Task :
  /\ \A k \in page[t] : Match(t, k)
  /\ \A s \in Slot : \A k \in Range(keyGroupBySlot[t][s]) : Match(t, k)

OwedInv == \A t \in Task : \A k \in owed[t] : Match(t, k)

IInv == /\ TypeOK
        /\ PhaseInv
        /\ ContentInv
        /\ OwedInv
        /\ BatchesAreLegal
        /\ NothingForgotten
        /\ CleanIsComplete

---------------------------------------------------------------------------
(* Sequences as groups *)

\* The empty sequence has no elements.
LEMMA RangeEmpty == Range(<<>>) = {}
BY DEF Range

\* Appending an element to a sequence adds it to the range.
LEMMA RangeAppend ==
  ASSUME NEW S, NEW g \in Seq(S), NEW e \in S
  PROVE  /\ Range(Append(g, e)) = Range(g) \cup {e}
         /\ Append(g, e) \in Seq(S)
         /\ Len(Append(g, e)) = Len(g) + 1
         /\ Append(g, e) # <<>>
<1>1. /\ Append(g, e) \in Seq(S)
      /\ Len(Append(g, e)) = Len(g) + 1
      /\ Append(g, e)[Len(g) + 1] = e
      /\ \A i \in 1 .. Len(g) : Append(g, e)[i] = g[i]
  BY AppendProperties
<1>2. DOMAIN g = 1 .. Len(g) /\ DOMAIN Append(g, e) = 1 .. Len(g) + 1 /\ Len(g) \in Nat
  BY <1>1
<1>3. 1 .. Len(g) + 1 = (1 .. Len(g)) \cup {Len(g) + 1}
  BY <1>2
<1>4. Range(Append(g, e)) = Range(g) \cup {e}
  BY <1>1, <1>2, <1>3 DEF Range
<1> QED
  BY <1>1, <1>4, AppendProperties

---------------------------------------------------------------------------
(* Every action preserves IInv *)

\* Start preserves the invariant.
LEMMA StartKeeps ==
  ASSUME IInv, NEW t \in Task, Start(t)
  PROVE  IInv'
<1>1. TypeOK'
  BY DEF IInv, Start, Due, TypeOK, TaskState
<1>2. PhaseInv'
  BY DEF IInv, Start, Due, TypeOK, PhaseInv
<1>3. OwedInv'
  BY DEF IInv, Start, Due, TypeOK, OwedInv, Match
<1>4. BatchesAreLegal'
  BY FlushAssumption DEF IInv, Start, Due, TypeOK, PhaseInv, BatchesAreLegal
<1>5. NothingForgotten'
  BY MapsAssumption DEF IInv, Start, Due, TypeOK, PhaseInv, OwedInv,
     NothingForgotten, Ahead, Match, Stopped
<1>6. CleanIsComplete'
  BY DEF IInv, Start, Due, TypeOK, PhaseInv, NothingForgotten, Ahead,
     CleanIsComplete, Stopped
<1>7. ContentInv'
  BY DEF IInv, Match, Ahead, Start, Due, ContentInv
<1> QED
  BY <1>1, <1>2, <1>3, <1>4, <1>5, <1>6, <1>7 DEF IInv

\* Scan preserves the invariant.
LEMMA ScanKeeps ==
  ASSUME IInv, NEW t \in Task, Scan(t)
  PROVE  IInv'
<1>1. TypeOK'
  <2>1. NextCursor(cursor[t]) \in 0 .. Parts - 1
    BY PartsAssumption DEF NextCursor, IInv, TypeOK
  <2>2. PICK again \in SUBSET Key : page' = [page EXCEPT ![t] =
                  again \cup {k \in db : Match(t, k) /\ PartOf[k] = cursor[t]}]
    BY DEF Scan, IInv, TypeOK
  <2>3. page' \in [Task -> SUBSET Key]
    BY <2>2 DEF IInv, TypeOK
  <2>4. cursor' \in [Task -> 0 .. Parts - 1]
    BY <2>1 DEF Scan, IInv, TypeOK
  <2> QED
    BY <2>3, <2>4 DEF IInv, Scan, TypeOK, TaskState
<1>2. PhaseInv'
  BY MapsAssumption, PartsAssumption DEF IInv, Scan, NextCursor, TypeOK,
     PhaseInv
<1>3. ContentInv'
  BY MapsAssumption, PartsAssumption DEF IInv, Scan, NextCursor, TypeOK,
     ContentInv, Match
<1>4. BatchesAreLegal'
  BY MapsAssumption, PartsAssumption DEF IInv, Scan, NextCursor, TypeOK,
     PhaseInv, BatchesAreLegal
<1>5. NothingForgotten'
  BY MapsAssumption, PartsAssumption DEF IInv, Scan, NextCursor, TypeOK,
     PhaseInv, OwedInv, NothingForgotten, Ahead, Match, Stopped
<1>6. CleanIsComplete'
  BY MapsAssumption, PartsAssumption DEF IInv, Scan, NextCursor, TypeOK,
     PhaseInv, NothingForgotten, Ahead, CleanIsComplete, Stopped
<1>7. OwedInv'
  BY DEF IInv, Match, Ahead, Scan, NextCursor, OwedInv
<1> QED
  BY <1>1, <1>2, <1>3, <1>4, <1>5, <1>6, <1>7 DEF IInv

\* ScanError preserves the invariant.
LEMMA ScanErrorKeeps ==
  ASSUME IInv, NEW t \in Task, ScanError(t)
  PROVE  IInv'
<1>1. TypeOK'
  BY DEF IInv, ScanError, TypeOK, TaskState
<1>2. PhaseInv'
  BY DEF IInv, ScanError, TypeOK, PhaseInv
<1>3. BatchesAreLegal'
  BY FlushAssumption DEF IInv, ScanError, TypeOK, PhaseInv, BatchesAreLegal
<1>4. NothingForgotten'
  BY MapsAssumption DEF IInv, ScanError, TypeOK, PhaseInv, OwedInv,
     NothingForgotten, Ahead, Match, Stopped
<1>5. CleanIsComplete'
  BY DEF IInv, ScanError, TypeOK, PhaseInv, NothingForgotten, Ahead,
     CleanIsComplete, Stopped
<1>6. ContentInv' /\ OwedInv'
  BY DEF IInv, Match, Ahead, ScanError, ContentInv, OwedInv
<1> QED
  BY <1>1, <1>2, <1>3, <1>4, <1>5, <1>6 DEF IInv

\* The state after key k was taken from the page of t.
Grouped(t, k) ==
  /\ page' = [page EXCEPT ![t] = @ \ {k}]
  /\ keyGroupBySlot' =
       [keyGroupBySlot EXCEPT ![t][SlotOf[k]] = Append(keyGroupBySlot[t][SlotOf[k]], k)]
  /\ IF Len(Append(keyGroupBySlot[t][SlotOf[k]], k)) >= Flush
     THEN /\ pc' = [pc EXCEPT ![t] = "unlink"]
          /\ full' = [full EXCEPT ![t] = {SlotOf[k]}]
     ELSE UNCHANGED <<pc, full>>

\* Group preserves the invariant.
LEMMA GroupKeeps ==
  ASSUME IInv, NEW t \in Task, Group(t)
  PROVE  IInv'
<1>1. PICK k \in page[t] : Grouped(t, k)
  BY DEF Group, Grouped
<1> DEFINE s == SlotOf[k]
           g == keyGroupBySlot[t][s]
<1>2. /\ k \in Key /\ s \in Slot /\ g \in Seq(Key) /\ Len(g) \in Nat
      /\ pc[t] = "group" /\ full[t] = {}
      /\ UNCHANGED <<db, cursor, owed>>
  BY <1>1, MapsAssumption DEF Group, IInv, TypeOK, PhaseInv
<1>3. /\ Range(Append(g, k)) = Range(g) \cup {k}
      /\ Append(g, k) \in Seq(Key)
      /\ Len(Append(g, k)) = Len(g) + 1
      /\ Append(g, k) # <<>>
  BY <1>2, RangeAppend
<1>4. /\ keyGroupBySlot'[t][s] = Append(g, k)
      /\ \A x \in Slot \ {s} : keyGroupBySlot'[t][x] = keyGroupBySlot[t][x]
      /\ page'[t] = page[t] \ {k}
      /\ \A u \in Task \ {t} : /\ keyGroupBySlot'[u] = keyGroupBySlot[u]
                              /\ page'[u] = page[u]
  BY <1>1, <1>2 DEF Grouped, IInv, TypeOK
<1>5. /\ \/ pc'[t] = "unlink" /\ full'[t] = {s} /\ Len(g) + 1 >= Flush
         \/ pc'[t] = "group" /\ full'[t] = {} /\ ~ (Len(g) + 1 >= Flush)
      /\ \A u \in Task \ {t} : pc'[u] = pc[u] /\ full'[u] = full[u]
  BY <1>1, <1>2, <1>3 DEF Grouped, IInv, TypeOK
<1>6. TypeOK'
  <2>1. page' \in [Task -> SUBSET Key]
    BY <1>1 DEF Grouped, IInv, TypeOK
  <2>2. pc' \in [Task -> TaskState] /\ full' \in [Task -> SUBSET Slot]
    <3>1. /\ pc' = pc \/ pc' = [pc EXCEPT ![t] = "unlink"]
          /\ full' = full \/ full' = [full EXCEPT ![t] = {s}]
      BY <1>1 DEF Grouped
    <3>2. {s} \in SUBSET Slot
      BY <1>2
    <3>3. pc' \in [Task -> TaskState]
      BY <3>1 DEF IInv, TypeOK, TaskState
    <3>4. full' \in [Task -> SUBSET Slot]
      <4> HIDE DEF s
      <4> QED
        BY <3>1, <3>2 DEF IInv, TypeOK
    <3> QED
      BY <3>3, <3>4
  <2>3. keyGroupBySlot' \in [Task -> [Slot -> Seq(Key)]]
    BY <1>1, <1>2, <1>3 DEF Grouped, IInv, TypeOK
  <2> QED
    BY <1>2, <2>1, <2>2, <2>3 DEF IInv, TypeOK
<1>7. PhaseInv'
  BY <1>2, <1>4, <1>5 DEF IInv, PhaseInv
<1>8. ContentInv'
  <2>1. \A z \in page'[t] : Match(t, z)
    BY <1>4 DEF IInv, ContentInv
  <2>2. ASSUME NEW x \in Slot, NEW z \in Range(keyGroupBySlot'[t][x])
        PROVE  Match(t, z)
    <3>1. Match(t, k) /\ \A y \in Range(keyGroupBySlot[t][x]) : Match(t, y)
      BY <1>1, <2>2 DEF IInv, ContentInv
    <3>2. z = k \/ z \in Range(keyGroupBySlot[t][x])
      BY <1>2, <1>3, <1>4, <2>2
    <3> QED
      BY <3>1, <3>2
  <2> QED
    BY <1>4, <2>1, <2>2 DEF IInv, ContentInv, Match
<1>9. OwedInv'
  BY <1>2 DEF IInv, OwedInv, Match
<1>10. BatchesAreLegal'
  <2>1. Len(g) < Flush
    BY <1>2, FlushAssumption DEF IInv, BatchesAreLegal
  <2>2. ASSUME NEW x \in Slot
        PROVE  /\ \A z \in Range(keyGroupBySlot'[t][x]) : SlotOf[z] = x
               /\ Len(keyGroupBySlot'[t][x]) <= Flush
               /\ Len(keyGroupBySlot'[t][x]) = Flush =>
                    x \in full'[t] /\ pc'[t] \in {"unlink", "failed"}
    <3>1. CASE x = s
      <4>1. \A z \in Range(g) : SlotOf[z] = s
        BY <1>2 DEF IInv, BatchesAreLegal
      <4>2. Len(keyGroupBySlot'[t][x]) = Len(g) + 1
        BY <3>1, <1>3, <1>4
      <4> HIDE DEF g
      <4> QED
        BY <3>1, <4>1, <4>2, <1>2, <1>3, <1>4, <1>5, <2>1, FlushAssumption
    <3>2. CASE x # s
      BY <3>2, <1>2, <1>4 DEF IInv, BatchesAreLegal
    <3> QED
      BY <3>1, <3>2
  <2>3. pc'[t] \in {"unlink", "final"} =>
          \A x \in full'[t] : keyGroupBySlot'[t][x] # <<>>
    BY <1>3, <1>4, <1>5
  <2> QED
    BY <1>4, <1>5, <2>2, <2>3 DEF IInv, BatchesAreLegal
<1>11. NothingForgotten'
  <2>1. ASSUME NEW z \in owed[t] \cap db
        PROVE  Ahead(t, z)'
    <3>1. Ahead(t, z) /\ SlotOf[z] \in Slot
      BY <1>2, <2>1, MapsAssumption DEF IInv, TypeOK, NothingForgotten, Stopped
    <3>2. pc'[t] \in {"group", "unlink"}
      BY <1>5
    <3>3. z \in page[t] => z \in page'[t] \/ z \in Range(keyGroupBySlot'[t][SlotOf[z]])
      BY <1>3, <1>4
    <3>4. z \in Range(keyGroupBySlot[t][SlotOf[z]]) =>
            z \in Range(keyGroupBySlot'[t][SlotOf[z]])
      BY <1>3, <1>4, <3>1
    <3> QED
      BY <1>2, <3>1, <3>2, <3>3, <3>4 DEF Ahead
  <2>2. \A u \in Task \ {t} : \A z \in Key : Ahead(u, z)' <=> Ahead(u, z)
    BY <1>2, <1>4, <1>5 DEF Ahead
  <2>3. pc[t] \notin Stopped
    BY <1>2 DEF Stopped
  <2> QED
    BY <1>2, <1>5, <2>1, <2>2, <2>3 DEF IInv, TypeOK, NothingForgotten
<1>12. CleanIsComplete'
  BY <1>2, <1>5 DEF IInv, CleanIsComplete
<1> QED
  BY <1>6, <1>7, <1>8, <1>9, <1>10, <1>11, <1>12 DEF IInv

\* EndPage preserves the invariant.
LEMMA EndPageKeeps ==
  ASSUME IInv, NEW t \in Task, EndPage(t)
  PROVE  IInv'
<1>1. TypeOK'
  <2>1. full' \in [Task -> SUBSET Slot]
    <3>1. \/ full' = [full EXCEPT ![t] = {s \in Slot : keyGroupBySlot[t][s] # <<>>}]
          \/ full' = full
      BY DEF EndPage
    <3> QED
      BY <3>1 DEF IInv, TypeOK
  <2>2. pc' \in [Task -> TaskState]
    BY DEF EndPage, IInv, TypeOK, TaskState
  <2> QED
    BY <2>1, <2>2 DEF IInv, EndPage, TypeOK
<1>2. PhaseInv'
  <2>1. /\ pc[t] = "group" /\ page[t] = {} /\ full[t] = {}
        /\ UNCHANGED <<cursor, page>>
    BY DEF EndPage, IInv, PhaseInv
  <2>2. /\ pc'[t] = IF cursor[t] = 0 THEN "final" ELSE "scan"
        /\ cursor[t] # 0 => full'[t] = {}
        /\ \A u \in Task \ {t} : pc'[u] = pc[u] /\ full'[u] = full[u]
    BY <2>1 DEF EndPage, IInv, TypeOK
  <2> QED
    BY <2>1, <2>2 DEF IInv, PhaseInv
<1>3. BatchesAreLegal'
  <2>1. /\ UNCHANGED keyGroupBySlot
        /\ pc[t] = "group" /\ pc'[t] \in {"scan", "final"}
        /\ pc'[t] = "final" => \A s \in full'[t] : keyGroupBySlot[t][s] # <<>>
        /\ \A u \in Task \ {t} : pc'[u] = pc[u] /\ full'[u] = full[u]
    BY DEF EndPage, IInv, TypeOK
  <2>2. \A s \in Slot : Len(keyGroupBySlot[t][s]) # Flush
    BY <2>1 DEF IInv, BatchesAreLegal
  <2> QED
    BY <2>1, <2>2 DEF IInv, BatchesAreLegal
<1>4. NothingForgotten'
  <2>1. /\ UNCHANGED <<db, owed, cursor, page, keyGroupBySlot>>
        /\ pc[t] = "group" /\ page[t] = {}
        /\ \A u \in Task \ {t} : pc'[u] = pc[u] /\ full'[u] = full[u]
    BY DEF EndPage, IInv, TypeOK
  <2>2. ASSUME NEW k \in owed[t] \cap db
        PROVE  Ahead(t, k)'
    <3>1. k \in Key /\ SlotOf[k] \in Slot /\ Ahead(t, k)
      BY <2>1, <2>2, MapsAssumption DEF IInv, TypeOK, NothingForgotten, Stopped
    <3>2. CASE cursor[t] = 0
      <4>1. k \in Range(keyGroupBySlot[t][SlotOf[k]])
        BY <2>1, <3>1, <3>2 DEF Ahead
      <4>2. keyGroupBySlot[t][SlotOf[k]] # <<>>
        BY <4>1, RangeEmpty
      <4>3. SlotOf[k] \in full'[t]
        BY <3>1, <3>2, <4>2 DEF EndPage, IInv, TypeOK
      <4> QED
        BY <2>1, <4>1, <4>3 DEF Ahead
    <3>3. CASE cursor[t] # 0
      <4>1. pc'[t] = "scan"
        BY <3>3 DEF EndPage, IInv, TypeOK
      <4> QED
        BY <2>1, <3>1, <4>1 DEF Ahead
    <3> QED
      BY <3>2, <3>3
  <2>3. \A u \in Task \ {t} : \A k \in Key : Ahead(u, k)' <=> Ahead(u, k)
    BY <2>1 DEF Ahead
  <2> QED
    BY <2>1, <2>2, <2>3 DEF IInv, TypeOK, NothingForgotten
<1>5. CleanIsComplete'
  BY DEF IInv, EndPage, TypeOK, PhaseInv, NothingForgotten, Ahead,
     CleanIsComplete, Stopped
<1>6. ContentInv' /\ OwedInv'
  BY DEF IInv, Match, Ahead, EndPage, ContentInv, OwedInv
<1> QED
  BY <1>1, <1>2, <1>3, <1>4, <1>5, <1>6 DEF IInv

\* Unlink preserves the invariant.
LEMMA UnlinkKeeps ==
  ASSUME IInv, NEW t \in Task, Unlink(t)
  PROVE  IInv'
<1>1. TypeOK'
  BY DEF IInv, Unlink, Remaining, TypeOK, TaskState
<1>2. PhaseInv'
  BY DEF IInv, Unlink, Remaining, TypeOK, PhaseInv
<1>3. ContentInv'
  <2>1. \A s \in Slot : \/ keyGroupBySlot'[t][s] = keyGroupBySlot[t][s]
                       \/ keyGroupBySlot'[t][s] = <<>>
    BY DEF Unlink, IInv, TypeOK
  <2>2. \A u \in Task \ {t} : keyGroupBySlot'[u] = keyGroupBySlot[u]
    BY DEF Unlink, IInv, TypeOK
  <2> QED
    BY <2>1, <2>2, RangeEmpty DEF Unlink, IInv, ContentInv, Match
<1>4. BatchesAreLegal'
  <2>1. PICK s \in Slot : /\ full[t] = {s}
                         /\ keyGroupBySlot' = [keyGroupBySlot EXCEPT ![t][s] = <<>>]
    BY DEF Unlink, IInv, PhaseInv
  <2>2. pc'[t] = "group" /\ full'[t] = {}
    BY DEF Unlink, IInv, TypeOK
  <2>3. \A x \in Slot \ {s} : keyGroupBySlot'[t][x] = keyGroupBySlot[t][x]
    BY <2>1 DEF IInv, TypeOK
  <2>4. keyGroupBySlot'[t][s] = <<>> /\ Len(<<>>) = 0 /\ Flush # 0
    BY <2>1, FlushAssumption DEF IInv, TypeOK
  <2>5. ASSUME NEW x \in Slot
        PROVE  /\ \A k \in Range(keyGroupBySlot'[t][x]) : SlotOf[k] = x
               /\ Len(keyGroupBySlot'[t][x]) <= Flush
               /\ Len(keyGroupBySlot'[t][x]) # Flush
    <3>1. CASE x = s
      BY <3>1, <2>4, RangeEmpty, FlushAssumption
    <3>2. CASE x # s
      BY <3>2, <2>1, <2>3 DEF IInv, BatchesAreLegal
    <3> QED
      BY <3>1, <3>2
  <2>6. \A u \in Task \ {t} : /\ keyGroupBySlot'[u] = keyGroupBySlot[u]
                             /\ pc'[u] = pc[u] /\ full'[u] = full[u]
    BY <2>1 DEF Unlink, IInv, TypeOK
  <2> QED
    BY <2>2, <2>5, <2>6 DEF IInv, BatchesAreLegal
<1>5. NothingForgotten'
  BY MapsAssumption DEF IInv, Unlink, Remaining, TypeOK, PhaseInv, OwedInv,
     NothingForgotten, Ahead, Match, Stopped
<1>6. CleanIsComplete'
  BY DEF IInv, Unlink, Remaining, TypeOK, PhaseInv, NothingForgotten, Ahead,
     CleanIsComplete, Stopped
<1>7. OwedInv'
  BY DEF IInv, Match, Ahead, Unlink, Remaining, OwedInv
<1> QED
  BY <1>1, <1>2, <1>3, <1>4, <1>5, <1>6, <1>7 DEF IInv

\* UnlinkFinal preserves the invariant.
LEMMA UnlinkFinalKeeps ==
  ASSUME IInv, NEW t \in Task, UnlinkFinal(t)
  PROVE  IInv'
<1>1. TypeOK'
  BY DEF IInv, UnlinkFinal, Remaining, TypeOK, TaskState
<1>2. PhaseInv'
  BY DEF IInv, UnlinkFinal, Remaining, TypeOK, PhaseInv
<1>3. BatchesAreLegal'
  BY FlushAssumption DEF IInv, UnlinkFinal, Remaining, TypeOK, PhaseInv,
     BatchesAreLegal
<1>4. NothingForgotten'
  BY MapsAssumption DEF IInv, UnlinkFinal, Remaining, TypeOK, PhaseInv,
     OwedInv, NothingForgotten, Ahead, Match, Stopped
<1>5. CleanIsComplete'
  BY DEF IInv, UnlinkFinal, Remaining, TypeOK, PhaseInv, NothingForgotten,
     Ahead, CleanIsComplete, Stopped
<1>6. ContentInv' /\ OwedInv'
  BY DEF IInv, Match, Ahead, UnlinkFinal, Remaining, ContentInv, OwedInv
<1> QED
  BY <1>1, <1>2, <1>3, <1>4, <1>5, <1>6 DEF IInv

\* Finish preserves the invariant.
LEMMA FinishKeeps ==
  ASSUME IInv, NEW t \in Task, Finish(t)
  PROVE  IInv'
<1>1. TypeOK'
  BY DEF IInv, Finish, TypeOK, TaskState
<1>2. PhaseInv'
  BY DEF IInv, Finish, TypeOK, PhaseInv
<1>3. BatchesAreLegal'
  BY FlushAssumption DEF IInv, Finish, TypeOK, PhaseInv, BatchesAreLegal
<1>4. NothingForgotten'
  BY MapsAssumption DEF IInv, Finish, TypeOK, PhaseInv, OwedInv,
     NothingForgotten, Ahead, Match, Stopped
<1>5. CleanIsComplete'
  BY DEF IInv, Finish, TypeOK, PhaseInv, NothingForgotten, Ahead,
     CleanIsComplete, Stopped
<1>6. ContentInv' /\ OwedInv'
  BY DEF IInv, Match, Ahead, Finish, ContentInv, OwedInv
<1> QED
  BY <1>1, <1>2, <1>3, <1>4, <1>5, <1>6 DEF IInv

\* UnlinkError preserves the invariant.
LEMMA UnlinkErrorKeeps ==
  ASSUME IInv, NEW t \in Task, UnlinkError(t)
  PROVE  IInv'
<1>1. TypeOK'
  BY DEF IInv, UnlinkError, Remaining, TypeOK, TaskState
<1>2. PhaseInv'
  BY DEF IInv, UnlinkError, Remaining, TypeOK, PhaseInv
<1>3. BatchesAreLegal'
  BY FlushAssumption DEF IInv, UnlinkError, Remaining, TypeOK, PhaseInv,
     BatchesAreLegal
<1>4. NothingForgotten'
  BY MapsAssumption DEF IInv, UnlinkError, Remaining, TypeOK, PhaseInv,
     OwedInv, NothingForgotten, Ahead, Match, Stopped
<1>5. CleanIsComplete'
  BY DEF IInv, UnlinkError, Remaining, TypeOK, PhaseInv, NothingForgotten,
     Ahead, CleanIsComplete, Stopped
<1>6. ContentInv' /\ OwedInv'
  BY DEF IInv, Match, Ahead, UnlinkError, Remaining, ContentInv, OwedInv
<1> QED
  BY <1>1, <1>2, <1>3, <1>4, <1>5, <1>6 DEF IInv

\* UnlinkResent preserves the invariant.
LEMMA UnlinkResentKeeps ==
  ASSUME IInv, NEW t \in Task, UnlinkResent(t)
  PROVE  IInv'
<1>1. TypeOK'
  BY DEF IInv, UnlinkResent, Remaining, TypeOK, TaskState
<1>2. NothingForgotten'
  BY MapsAssumption DEF IInv, UnlinkResent, Remaining, TypeOK, PhaseInv,
     OwedInv, NothingForgotten, Ahead, Match, Stopped
<1>3. CleanIsComplete'
  BY DEF IInv, UnlinkResent, Remaining, TypeOK, PhaseInv, NothingForgotten,
     Ahead, CleanIsComplete, Stopped
<1>4. PhaseInv' /\ ContentInv' /\ OwedInv' /\ BatchesAreLegal'
  BY DEF IInv, Match, Ahead, UnlinkResent, Remaining, PhaseInv, ContentInv,
     OwedInv, BatchesAreLegal
<1> QED
  BY <1>1, <1>2, <1>3, <1>4 DEF IInv

\* Write preserves the invariant.
LEMMA WriteKeeps ==
  ASSUME IInv, NEW k \in Key, Write(k)
  PROVE  IInv'
<1>1. TypeOK'
  BY DEF IInv, Write, TypeOK, TaskState
<1>2. OwedInv'
  BY DEF IInv, Write, TypeOK, OwedInv, Match
<1>3. NothingForgotten'
  BY MapsAssumption DEF IInv, Write, TypeOK, PhaseInv, OwedInv,
     NothingForgotten, Ahead, Match, Stopped
<1>4. CleanIsComplete'
  BY DEF IInv, Write, TypeOK, PhaseInv, NothingForgotten, Ahead,
     CleanIsComplete, Stopped
<1>5. PhaseInv' /\ ContentInv' /\ BatchesAreLegal'
  BY DEF IInv, Match, Ahead, Write, PhaseInv, ContentInv, BatchesAreLegal
<1> QED
  BY <1>1, <1>2, <1>3, <1>4, <1>5 DEF IInv

\* Vanish preserves the invariant.
LEMMA VanishKeeps ==
  ASSUME IInv, NEW k \in Key, Vanish(k)
  PROVE  IInv'
<1>1. TypeOK'
  BY DEF IInv, Vanish, TypeOK, TaskState
<1>2. NothingForgotten'
  BY MapsAssumption DEF IInv, Vanish, TypeOK, PhaseInv, OwedInv,
     NothingForgotten, Ahead, Match, Stopped
<1>3. CleanIsComplete'
  BY DEF IInv, Vanish, TypeOK, PhaseInv, NothingForgotten, Ahead,
     CleanIsComplete, Stopped
<1>4. PhaseInv' /\ ContentInv' /\ OwedInv' /\ BatchesAreLegal'
  BY DEF IInv, Match, Ahead, Vanish, PhaseInv, ContentInv, OwedInv,
     BatchesAreLegal
<1> QED
  BY <1>1, <1>2, <1>3, <1>4 DEF IInv

\* A stuttering step preserves the invariant.
LEMMA StutterKeeps ==
  ASSUME IInv, UNCHANGED vars
  PROVE  IInv'
BY DEF vars, IInv, TypeOK, PhaseInv, ContentInv, OwedInv, Match, BatchesAreLegal,
   NothingForgotten, Ahead, CleanIsComplete

\* The initial states satisfy the invariant.
LEMMA InitEstablishes == Init => IInv
<1> SUFFICES ASSUME Init PROVE IInv
  OBVIOUS
<1> USE DEF Init
<1>1. TypeOK
  BY MapsAssumption DEF TypeOK, TaskState
<1>2. PhaseInv /\ OwedInv /\ NothingForgotten /\ CleanIsComplete
  BY DEF PhaseInv, OwedInv, NothingForgotten, CleanIsComplete
<1>3. \A t \in Task, s \in Slot : /\ Range(keyGroupBySlot[t][s]) = {}
                                 /\ Len(keyGroupBySlot[t][s]) = 0
  BY RangeEmpty
<1>4. ContentInv
  BY <1>3 DEF ContentInv
<1>5. BatchesAreLegal
  BY <1>3, FlushAssumption DEF BatchesAreLegal
<1> QED
  BY <1>1, <1>2, <1>4, <1>5 DEF IInv

\* The invariant is inductive: every step of Next preserves it.
LEMMA Inductive == IInv /\ [Next]_vars => IInv'
BY StartKeeps, ScanKeeps, ScanErrorKeeps, GroupKeeps, EndPageKeeps, UnlinkKeeps,
   UnlinkFinalKeeps, FinishKeeps, UnlinkErrorKeeps, UnlinkResentKeeps, WriteKeeps,
   VanishKeeps, StutterKeeps DEF Next, Advance, Fail

---------------------------------------------------------------------------
(* Theorems *)

\* Every reachable state of the clean tasks satisfies IInv.
THEOREM InvariantHolds == Spec => []IInv
<1>1. Init => IInv
  BY InitEstablishes
<1>2. IInv /\ [Next]_vars => IInv'
  BY Inductive
<1> QED
  BY <1>1, <1>2, PTL DEF Spec

\* Cursors stay cursors of the table, groups stay sequences of keys and a task
\* stays in a state of ExecuteClean, for every layout of the keys.
THEOREM TypeCorrect == Spec => []TypeOK
<1>1. IInv => TypeOK
  BY DEF IInv
<1> QED
  BY <1>1, InvariantHolds, PTL

\* A clean task that ends well has removed every key it owed.
THEOREM CleanRemovesEverything == Spec => []CleanIsComplete
<1>1. IInv => CleanIsComplete
  BY DEF IInv
<1> QED
  BY <1>1, InvariantHolds, PTL

\* A running clean task has every key it owes ahead of it.
THEOREM NoKeyIsForgotten == Spec => []NothingForgotten
<1>1. IInv => NothingForgotten
  BY DEF IInv
<1> QED
  BY <1>1, InvariantHolds, PTL

\* Every UNLINK is one that Redis accepts, of at most Flush keys.
THEOREM UnlinksAreLegal == Spec => []BatchesAreLegal
<1>1. IInv => BatchesAreLegal
  BY DEF IInv
<1> QED
  BY <1>1, InvariantHolds, PTL

---------------------------------------------------------------------------
(* Patterns *)

\* The rest of a text after its first character.
LEMMA TextTail ==
  \A p \in Text : p # <<>> =>
    /\ Tail(p) \in Text /\ Len(Tail(p)) < Len(p)
    /\ Head(p) = p[1]
BY DEF Text

\* A piece is at least one character, so that a shorter text remains after it.
LEMMA PieceShortens ==
  \A p \in Text : p # <<>> => AfterPiece(p) \in Text /\ Len(AfterPiece(p)) < Len(p)
<1> TAKE p \in Text
<1> HAVE p # <<>>
<1>1. IsFiniteSet(InBrackets(p)) 
  <2>1. InBrackets(p) \in SUBSET (2 .. Len(p)) BY DEF InBrackets
  <2>2. IsFiniteSet(2 .. Len(p))
    <3>1. 2 \in Int /\ Len(p) \in Int BY DEF Text
    <3> QED BY <3>1, FS_Interval
  <2> QED BY <2>1, <2>2, FS_Subset
<1>2. PICK c \in Nat : c = Cardinality(InBrackets(p)) BY <1>1, FS_CardinalityType
<1>3. PieceLen(p) \in Nat /\ PieceLen(p) >= 1
  <2>1. Brackets(p) \in {c + 1, c + 2} BY <1>2 DEF Brackets
  <2>2. PieceLen(p) \in {Brackets(p), 1, 2} BY DEF PieceLen
  <2> HIDE DEF PieceLen
  <2> QED BY <2>1, <2>2
<1> HIDE DEF PieceLen
<1> DEFINE n == PieceLen(p)
<1>4. n \in Nat /\ n >= 1 BY <1>3
<1> HIDE DEF n
<1>5. SubSeq(p, n + 1, Len(p)) \in Text /\ Len(SubSeq(p, n + 1, Len(p))) < Len(p)
  BY <1>4 DEF Text
<1> QED BY <1>5 DEF AfterPiece, n

\* What match makes of a pattern and a string, given what it makes of shorter ones.
MatchStep(match, p, s) ==
  IF p = <<>> THEN s = <<>>
  ELSE IF Head(p) = "*"
  THEN match[<<Tail(p), s>>] \/ (s # <<>> /\ match[<<p, Tail(s)>>])
  ELSE s # <<>> /\ Accepts(p, Head(s)) /\ match[<<AfterPiece(p), Tail(s)>>]

\* The function that Matches chooses.
IsMatch(match) == match = [x \in Text \X Text |-> MatchStep(match, x[1], x[2])]

\* The pairs that the step for p and s looks at are shorter.
Nearer(p, s, q, r) == q \in Text /\ r \in Text /\ Len(q) + Len(r) < Len(p) + Len(s)

LEMMA StepIsNearer ==
  \A p, s \in Text :
    p # <<>> =>
      /\ Nearer(p, s, Tail(p), s)
      /\ s # <<>> => Nearer(p, s, p, Tail(s)) /\ Nearer(p, s, AfterPiece(p), Tail(s))
<1> TAKE p, s \in Text
<1> HAVE p # <<>>
<1>1. Len(p) \in Nat /\ Len(s) \in Nat BY DEF Text
<1>2. Tail(p) \in Text /\ Len(Tail(p)) < Len(p) /\ Len(Tail(p)) \in Nat BY TextTail DEF Text
<1>3. AfterPiece(p) \in Text /\ Len(AfterPiece(p)) < Len(p) /\ Len(AfterPiece(p)) \in Nat
  BY PieceShortens DEF Text
<1>4. s # <<>> => Tail(s) \in Text /\ Len(Tail(s)) < Len(s) /\ Len(Tail(s)) \in Nat
  BY TextTail DEF Text
<1> QED BY <1>1, <1>2, <1>3, <1>4 DEF Nearer

LEMMA MatchStepType ==
  \A match \in [Text \X Text -> BOOLEAN], p, s \in Text : MatchStep(match, p, s) \in BOOLEAN
BY Zenon DEF MatchStep

\* Equivalent truth values are equal.
LEMMA SameTruth == \A a, b \in BOOLEAN : (a <=> b) => a = b
OBVIOUS

LEMMA MatchStepAgrees ==
  ASSUME NEW p \in Text, NEW s \in Text,
         NEW g \in [Text \X Text -> BOOLEAN], NEW h \in [Text \X Text -> BOOLEAN],
         \A q, r \in Text : Nearer(p, s, q, r) => g[<<q, r>>] = h[<<q, r>>]
  PROVE  MatchStep(g, p, s) = MatchStep(h, p, s)
<1>1. CASE p = <<>>
  <2>1. MatchStep(g, p, s) <=> s = <<>> BY Zenon, <1>1 DEF MatchStep
  <2>2. MatchStep(h, p, s) <=> s = <<>> BY Zenon, <1>1 DEF MatchStep
  <2>3. MatchStep(g, p, s) \in BOOLEAN /\ MatchStep(h, p, s) \in BOOLEAN BY MatchStepType
  <2> QED BY Zenon, <2>1, <2>2, <2>3, SameTruth
<1>2. CASE p # <<>> /\ s = <<>>
  <2>1. g[<<Tail(p), s>>] <=> h[<<Tail(p), s>>] BY Zenon, <1>2, StepIsNearer DEF Nearer
  <2>2. MatchStep(g, p, s) <=> Head(p) = "*" /\ g[<<Tail(p), s>>] BY Zenon, <1>2 DEF MatchStep
  <2>3. MatchStep(h, p, s) <=> Head(p) = "*" /\ h[<<Tail(p), s>>] BY Zenon, <1>2 DEF MatchStep
  <2>4. MatchStep(g, p, s) \in BOOLEAN /\ MatchStep(h, p, s) \in BOOLEAN BY MatchStepType
  <2>5. MatchStep(g, p, s) <=> MatchStep(h, p, s) BY Zenon, <2>1, <2>2, <2>3
  <2> QED BY Zenon, <2>4, <2>5, SameTruth
<1>3. CASE p # <<>> /\ s # <<>>
  <2>1. /\ g[<<Tail(p), s>>] <=> h[<<Tail(p), s>>]
        /\ g[<<p, Tail(s)>>] <=> h[<<p, Tail(s)>>]
        /\ g[<<AfterPiece(p), Tail(s)>>] <=> h[<<AfterPiece(p), Tail(s)>>]
    BY Zenon, <1>3, StepIsNearer DEF Nearer
  <2>2. MatchStep(g, p, s) <=>
          IF Head(p) = "*" THEN g[<<Tail(p), s>>] \/ g[<<p, Tail(s)>>]
          ELSE Accepts(p, Head(s)) /\ g[<<AfterPiece(p), Tail(s)>>]
    BY Zenon, <1>3 DEF MatchStep
  <2>3. MatchStep(h, p, s) <=>
          IF Head(p) = "*" THEN h[<<Tail(p), s>>] \/ h[<<p, Tail(s)>>]
          ELSE Accepts(p, Head(s)) /\ h[<<AfterPiece(p), Tail(s)>>]
    BY Zenon, <1>3 DEF MatchStep
  <2>4. MatchStep(g, p, s) \in BOOLEAN /\ MatchStep(h, p, s) \in BOOLEAN BY MatchStepType
  <2>5. MatchStep(g, p, s) <=> MatchStep(h, p, s) BY Zenon, <2>1, <2>2, <2>3
  <2> QED BY Zenon, <2>4, <2>5, SameTruth
<1> QED BY <1>1, <1>2, <1>3

LEMMA MatchExists == \E match : IsMatch(match)
<1> DEFINE D == Text \X Text
           V == BOOLEAN
           step == [g \in [D -> V] |-> [x \in D |-> MatchStep(g, x[1], x[2])]]
           rank == [x \in D |-> Len(x[1]) + Len(x[2])]
<1>1. ASSUME NEW g \in [D -> V], NEW x \in D PROVE MatchStep(g, x[1], x[2]) \in V
  <2>1. x[1] \in Text /\ x[2] \in Text OBVIOUS
  <2> QED BY Zenon, <2>1, MatchStepType
<1>2. ASSUME NEW g \in [D -> V], NEW h \in [D -> V], NEW x \in D,
             \A y \in D : rank[y] < rank[x] => g[y] = h[y]
      PROVE  MatchStep(g, x[1], x[2]) = MatchStep(h, x[1], x[2])
  <2>1. PICK p \in Text, s \in Text : x = <<p, s>> OBVIOUS
  <2>2. x[1] = p /\ x[2] = s /\ rank[x] = Len(p) + Len(s) BY <2>1
  <2>3. ASSUME NEW q \in Text, NEW r \in Text, Nearer(p, s, q, r) PROVE g[<<q, r>>] = h[<<q, r>>]
    <3>1. <<q, r>> \in D /\ rank[<<q, r>>] = Len(q) + Len(r) OBVIOUS
    <3>2. Len(q) + Len(r) < Len(p) + Len(s) BY <2>3 DEF Nearer
    <3> HIDE DEF rank
    <3> QED BY Zenon, <1>2, <2>2, <3>1, <3>2
  <2>4. MatchStep(g, p, s) = MatchStep(h, p, s)
    <3>1. g \in [Text \X Text -> BOOLEAN] /\ h \in [Text \X Text -> BOOLEAN] OBVIOUS
    <3> HIDE DEF step, rank, D, V
    <3> QED BY ZenonT(30), <2>3, <3>1, MatchStepAgrees
  <2> QED BY <2>2, <2>4
<1>3. rank \in [D -> Nat]
  <2> SUFFICES ASSUME NEW x \in D PROVE Len(x[1]) + Len(x[2]) \in Nat OBVIOUS
  <2>1. PICK p \in Text, s \in Text : x = <<p, s>> OBVIOUS
  <2>2. x[1] = p /\ x[2] = s BY <2>1
  <2>3. Len(p) \in Nat /\ Len(s) \in Nat BY DEF Text
  <2> QED BY <2>2, <2>3
<1> HIDE DEF rank, D, V
<1>4. Descends(step, rank, D, V)
  <2>1. \A g \in [D -> V] : step[g] = [x \in D |-> MatchStep(g, x[1], x[2])] OBVIOUS
  <2>2. step \in [[D -> V] -> [D -> V]] BY <1>1
  <2> HIDE DEF step
  <2>3. \A g \in [D -> V], x \in D : step[g][x] = MatchStep(g, x[1], x[2]) BY <2>1
  <2>4. ASSUME NEW g \in [D -> V], NEW h \in [D -> V], NEW x \in D,
               \A y \in D : rank[y] < rank[x] => g[y] = h[y]
        PROVE  step[g][x] = step[h][x]
    <3>1. MatchStep(g, x[1], x[2]) = MatchStep(h, x[1], x[2]) BY Zenon, <1>2, <2>4
    <3>2. step[g][x] = MatchStep(g, x[1], x[2]) /\ step[h][x] = MatchStep(h, x[1], x[2])
      BY Zenon, <2>3
    <3> QED BY Zenon, <3>1, <3>2
  <2> QED BY Zenon, <1>3, <2>2, <2>4 DEF Descends
<1>5. V # {} BY DEF V
<1>6. PICK f : f \in [D -> V] /\ f = step[f]
  <2> HIDE DEF step
  <2> QED BY <1>4, <1>5, RecursionByRank
<1>7. f = [x \in D |-> MatchStep(f, x[1], x[2])] BY <1>6 DEF step
<1>8. IsMatch(f) BY Zenon, <1>7 DEF IsMatch, D
<1> QED BY <1>8

\* Matches satisfies the equation it is defined by.
LEMMA MatchesIs ==
  \A p, s \in Text :
    /\ Matches(<<>>, s) <=> s = <<>>
    /\ p # <<>> /\ Head(p) = "*" =>
         (Matches(p, s) <=> Matches(Tail(p), s) \/ (s # <<>> /\ Matches(p, Tail(s))))
    /\ p # <<>> /\ Head(p) # "*" =>
         (Matches(p, s) <=> s # <<>> /\ Accepts(p, Head(s)) /\ Matches(AfterPiece(p), Tail(s)))
<1> TAKE p, s \in Text
<1> DEFINE f == CHOOSE g : IsMatch(g)
<1>1. IsMatch(f) BY MatchExists
<1>2. \A q, r : Matches(q, r) = f[<<q, r>>] BY Zenon DEF Matches, IsMatch, MatchStep
<1> HIDE DEF f
<1>3. ASSUME NEW q \in Text, NEW r \in Text PROVE f[<<q, r>>] = MatchStep(f, q, r)
  <2>1. <<q, r>> \in Text \X Text /\ <<q, r>>[1] = q /\ <<q, r>>[2] = r OBVIOUS
  <2>2. f = [x \in Text \X Text |-> MatchStep(f, x[1], x[2])] BY Zenon, <1>1 DEF IsMatch
  <2>3. f[<<q, r>>] = MatchStep(f, <<q, r>>[1], <<q, r>>[2]) BY Zenon, <2>1, <2>2
  <2> QED BY <2>1, <2>3
<1>4. <<>> \in Text BY DEF Text
<1>5. Matches(<<>>, s) = MatchStep(f, <<>>, s) BY Zenon, <1>2, <1>3, <1>4
<1>6. Matches(p, s) = MatchStep(f, p, s) BY Zenon, <1>2, <1>3
<1>7. Matches(<<>>, s) <=> s = <<>> BY Zenon, <1>5 DEF MatchStep
<1>8. ASSUME p # <<>>, Head(p) = "*"
      PROVE  Matches(p, s) <=> Matches(Tail(p), s) \/ (s # <<>> /\ Matches(p, Tail(s)))
  BY Zenon, <1>2, <1>6, <1>8 DEF MatchStep
<1>9. ASSUME p # <<>>, Head(p) # "*"
      PROVE  Matches(p, s) <=> s # <<>> /\ Accepts(p, Head(s)) /\ Matches(AfterPiece(p), Tail(s))
  BY Zenon, <1>2, <1>6, <1>9 DEF MatchStep
<1> QED BY <1>7, <1>8, <1>9

---------------------------------------------------------------------------
(* Plain names *)

Star == <<"*">>

\* A * matches every string.
LEMMA StarMatches == \A s \in Text : Matches(Star, s)
<1> DEFINE N == {n \in Nat : \A s \in Text : Len(s) = n => Matches(Star, s)}
<1>0. Star \in Text /\ Star # <<>> /\ Head(Star) = "*" /\ Tail(Star) = <<>>
  BY CharAssumption DEF Star, Text
<1> HIDE DEF Star
<1>1. 0 \in N
  <2> SUFFICES ASSUME NEW s \in Text, Len(s) = 0 PROVE Matches(Star, s) OBVIOUS
  <2>1. s = <<>> BY DEF Text
  <2> QED BY Zenon, <1>0, <2>1, MatchesIs
<1>2. ASSUME NEW n \in N PROVE n + 1 \in N
  <2> SUFFICES ASSUME NEW s \in Text, Len(s) = n + 1 PROVE Matches(Star, s) OBVIOUS
  <2>1. s # <<>> /\ Tail(s) \in Text /\ Len(Tail(s)) = n BY DEF Text
  <2>2. Matches(Star, Tail(s)) BY <2>1
  <2> QED BY Zenon, <1>0, <2>1, <2>2, MatchesIs
<1> HIDE DEF N
<1>3. N \in SUBSET Nat BY DEF N
<1>4. N = Nat BY <1>1, <1>2, <1>3, NumberInduction
<1> QED BY <1>4 DEF N, Text

\* A character that is not special matches itself.
LEMMA CharacterMatches ==
  \A p, s \in Text :
    p # <<>> /\ p[1] \notin {"*", "?", "[", "\\"} =>
      (Matches(p, s) <=> s # <<>> /\ s[1] = p[1] /\ Matches(Tail(p), Tail(s)))
<1> TAKE p, s \in Text
<1> HAVE p # <<>> /\ p[1] \notin {"*", "?", "[", "\\"}
<1>0. p # <<>> OBVIOUS
<1>1. Head(p) = p[1] /\ Head(p) \notin {"*", "?", "[", "\\"} BY TextTail
<1>2. PieceLen(p) = 1 BY <1>1 DEF PieceLen, Escapes
<1>3. AfterPiece(p) = Tail(p) BY <1>2 DEF AfterPiece, Text
<1>4. \A c : Accepts(p, c) <=> c = Head(p)
  <2>1. ~Escapes(p) BY <1>1 DEF Escapes
  <2> QED BY <1>1, <2>1 DEF Accepts
<1>5. s # <<>> => Head(s) = s[1] BY TextTail
<1>6. Head(p) # "*" BY <1>1
<1>7. Matches(p, s) <=> s # <<>> /\ Accepts(p, Head(s)) /\ Matches(AfterPiece(p), Tail(s))
  BY Zenon, <1>0, <1>6, MatchesIs
<1>8. Accepts(p, Head(s)) <=> Head(s) = p[1] BY Zenon, <1>1, <1>4
<1> QED BY Zenon, <1>3, <1>5, <1>7, <1>8

\* What follows a text does not change what its first character is followed by.
LEMMA TailOfConcat ==
  ASSUME NEW u \in Text, NEW w \in Text, u # <<>>
  PROVE  /\ u \o w \in Text /\ u \o w # <<>> /\ (u \o w)[1] = u[1]
         /\ Tail(u \o w) = Tail(u) \o w
<1>1. u \in Seq(Char) /\ w \in Seq(Char) BY DEF Text
<1> DEFINE a == u \o w
           b == Tail(u) \o w
<1>2. /\ a \in Seq(Char) /\ Len(a) = Len(u) + Len(w)
      /\ \A i \in 1 .. Len(u) + Len(w) : a[i] = IF i <= Len(u) THEN u[i] ELSE w[i - Len(u)]
  BY <1>1, ConcatProperties
<1>3. /\ Tail(u) \in Seq(Char) /\ Len(Tail(u)) = Len(u) - 1
      /\ \A i \in 1 .. Len(Tail(u)) : Tail(u)[i] = u[i + 1]
  BY <1>1, HeadTailProperties
<1>4. Len(u) \in Nat /\ Len(w) \in Nat /\ Len(u) >= 1 BY <1>1
<1>5. /\ b \in Seq(Char) /\ Len(b) = Len(u) - 1 + Len(w)
      /\ \A i \in 1 .. Len(u) - 1 + Len(w) :
           b[i] = IF i <= Len(u) - 1 THEN Tail(u)[i] ELSE w[i - (Len(u) - 1)]
  BY <1>1, <1>3, ConcatProperties
<1>6. a # <<>> /\ a[1] = u[1] BY <1>2, <1>4
<1> HIDE DEF a, b
<1>7. /\ Tail(a) \in Seq(Char) /\ Len(Tail(a)) = Len(a) - 1
      /\ \A i \in 1 .. Len(Tail(a)) : Tail(a)[i] = a[i + 1]
  BY <1>2, <1>6, HeadTailProperties
<1>8. Len(Tail(a)) = Len(b) BY <1>2, <1>4, <1>5, <1>7
<1>9. ASSUME NEW i \in 1 .. Len(b) PROVE Tail(a)[i] = b[i]
  <2>1. Tail(a)[i] = a[i + 1] /\ i + 1 \in 1 .. Len(u) + Len(w) /\ i \in Nat
    BY <1>4, <1>5, <1>7, <1>8
  <2>2. CASE i <= Len(u) - 1
    <3>1. a[i + 1] = u[i + 1] BY <1>2, <1>4, <2>1, <2>2
    <3>2. b[i] = Tail(u)[i] /\ Tail(u)[i] = u[i + 1] BY <1>3, <1>4, <1>5, <2>1, <2>2
    <3> QED BY <2>1, <3>1, <3>2
  <2>3. CASE ~ (i <= Len(u) - 1)
    <3>1. a[i + 1] = w[i + 1 - Len(u)] BY <1>2, <1>4, <2>1, <2>3
    <3>2. b[i] = w[i - (Len(u) - 1)] BY <1>4, <1>5, <2>1, <2>3
    <3>3. i + 1 - Len(u) = i - (Len(u) - 1) BY <1>4, <2>1
    <3> QED BY <2>1, <3>1, <3>2, <3>3
  <2> QED BY <2>2, <2>3
<1>10. Tail(a) = b BY <1>5, <1>7, <1>8, <1>9, SeqEqual
<1> QED BY <1>2, <1>6, <1>10 DEF a, b, Text

\* A user name without special characters, as a pattern, selects the keys of
\* that user and no other.
THEOREM PlainNamesSelectTheirKeys ==
  \A u, k \in Text : PlainName(u) => (Matches(u \o <<":", "*">>, k) <=> Owns(u, k))
<1> DEFINE After == <<":", "*">>
           Right(u, k) == Matches(u \o After, k) <=> Owns(u, k)
           N == {n \in Nat : \A u, k \in Text : Len(u) = n /\ PlainName(u) => Right(u, k)}
<1>0. After \in Text BY CharAssumption, MapsAssumption DEF Text
<1>1. 0 \in N
  <2> SUFFICES ASSUME NEW u \in Text, NEW k \in Text, Len(u) = 0 PROVE Right(u, k) OBVIOUS
  <2>1. u = <<>> BY DEF Text
  <2>2. After \in Text /\ After # <<>> /\ After[1] = ":" /\ Tail(After) = Star
    BY CharAssumption, MapsAssumption DEF Text, Star
  <2>3. u \o After = After BY <2>1
  <2>4. Owns(u, k) <=> k # <<>> /\ k[1] = ":" BY <2>1 DEF Owns, Text
  <2>5. k # <<>> => Matches(Star, Tail(k)) BY TextTail, StarMatches
  <2>6. After[1] \notin {"*", "?", "[", "\\"} BY <2>2
  <2> HIDE DEF After
  <2>7. Matches(After, k) <=> k # <<>> /\ k[1] = ":" BY Zenon, <2>2, <2>5, <2>6, CharacterMatches
  <2> QED BY Zenon, <2>3, <2>4, <2>7
<1>2. ASSUME NEW n \in N PROVE n + 1 \in N
  <2> SUFFICES ASSUME NEW u \in Text, NEW k \in Text, Len(u) = n + 1, PlainName(u) PROVE Right(u, k)
    OBVIOUS
  <2> DEFINE v == Tail(u)
             p == u \o After
  <2>1. n \in Nat /\ u # <<>> /\ v \in Text /\ Len(v) = n /\ 1 \in DOMAIN u BY DEF Text
  <2>2. Len(u) = n + 1 /\ \A i \in 1 .. n : v[i] = u[i + 1] BY <2>1 DEF Text
  <2>3. PlainName(v)
    <3>1. DOMAIN v = 1 .. n /\ DOMAIN u = 1 .. n + 1 BY <2>1, <2>2 DEF Text
    <3>2. \A i \in 1 .. n : i + 1 \in 1 .. n + 1 BY <2>1
    <3> HIDE DEF v
    <3> QED BY <2>2, <3>1, <3>2 DEF PlainName, Literal
  <2>4. p \in Text /\ p # <<>> /\ p[1] = u[1] /\ Tail(p) = v \o After
    BY <1>0, <2>1, TailOfConcat
  <2>5. p[1] \notin {"*", "?", "[", "\\"} /\ u[1] # ":" BY <2>1, <2>4 DEF PlainName, Literal
  <2> HIDE DEF p
  <2>6. Matches(p, k) <=> k # <<>> /\ k[1] = u[1] /\ Matches(v \o After, Tail(k))
    <3>1. Matches(p, k) <=> k # <<>> /\ k[1] = p[1] /\ Matches(Tail(p), Tail(k))
      BY Zenon, <2>4, <2>5, CharacterMatches
    <3> QED BY Zenon, <2>4, <3>1
  <2>7. k # <<>> => (Matches(v \o After, Tail(k)) <=> Owns(v, Tail(k)))
    <3> SUFFICES ASSUME k # <<>> PROVE Right(v, Tail(k)) OBVIOUS
    <3>1. Tail(k) \in Text BY TextTail
    <3> HIDE DEF Right, v
    <3> QED BY Zenon, <2>1, <2>3, <3>1
  <2>8. k # <<>> /\ k[1] = u[1] /\ Owns(v, Tail(k)) <=> Owns(u, k)
    <3>1. ASSUME k # <<>>, k[1] = u[1], Owns(v, Tail(k)) PROVE Owns(u, k)
      <4>1. PICK m \in Nat : Len(k) = m + 1 /\ Len(Tail(k)) = m
                             /\ \A i \in 1 .. m : Tail(k)[i] = k[i + 1]
        BY <3>1 DEF Text
      <4>2. DOMAIN v = 1 .. n /\ DOMAIN u = 1 .. n + 1 BY <2>1, <2>2 DEF Text
      <4>3. n < m /\ Tail(k)[n + 1] = ":" /\ \A i \in 1 .. n : v[i] = Tail(k)[i] /\ v[i] # ":"
        BY <2>1, <3>1, <4>1, <4>2 DEF Owns
      <4>4. k[(n + 1) + 1] = ":" BY <2>1, <4>1, <4>3
      <4>5. ASSUME NEW i \in 1 .. n + 1 PROVE u[i] = k[i] /\ u[i] # ":"
        <5>1. CASE i = 1 BY <2>5, <3>1, <5>1
        <5>2. CASE i # 1
          <6>1. PICK j \in 1 .. n : i = j + 1 /\ j \in 1 .. m BY <2>1, <4>1, <4>3, <5>2
          <6> HIDE DEF v
          <6> QED BY <2>2, <4>1, <4>3, <6>1
        <5> QED BY <5>1, <5>2
      <4> QED BY <2>1, <2>2, <4>1, <4>2, <4>3, <4>4, <4>5 DEF Owns
    <3>2. ASSUME Owns(u, k) PROVE k # <<>> /\ k[1] = u[1] /\ Owns(v, Tail(k))
      <4>1. Len(k) \in Nat /\ n + 1 < Len(k) BY <2>1, <2>2, <3>2 DEF Owns, Text
      <4>2. PICK m \in Nat : Len(k) = m + 1 /\ Len(Tail(k)) = m /\ k # <<>>
                             /\ \A i \in 1 .. m : Tail(k)[i] = k[i + 1]
        BY <2>1, <4>1 DEF Text
      <4>3. DOMAIN v = 1 .. n /\ DOMAIN u = 1 .. n + 1 BY <2>1, <2>2 DEF Text
      <4>4. k[(n + 1) + 1] = ":" /\ \A i \in 1 .. n + 1 : u[i] = k[i] /\ u[i] # ":"
        BY <2>2, <3>2, <4>3 DEF Owns
      <4>5. n < m /\ n + 1 \in 1 .. m BY <2>1, <4>1, <4>2
      <4>6. Tail(k)[n + 1] = ":" BY <4>2, <4>4, <4>5
      <4>7. ASSUME NEW i \in 1 .. n PROVE v[i] = Tail(k)[i] /\ v[i] # ":"
        <5>1. i + 1 \in 1 .. n + 1 /\ i \in 1 .. m BY <2>1, <4>5
        <5> HIDE DEF v
        <5> QED BY <2>2, <4>2, <4>4, <5>1
      <4>8. k[1] = u[1] BY <2>1, <4>3, <4>4
      <4> HIDE DEF v
      <4> QED BY <2>1, <4>2, <4>3, <4>5, <4>6, <4>7, <4>8 DEF Owns
    <3> QED BY <3>1, <3>2
  <2> QED BY Zenon, <2>6, <2>7, <2>8 DEF p
<1> HIDE DEF N
<1>3. N \in SUBSET Nat BY DEF N
<1>4. N = Nat BY <1>1, <1>2, <1>3, NumberInduction
<1>5. \A u \in Text : Len(u) \in Nat BY DEF Text
<1> QED BY Zenon, <1>4, <1>5 DEF N

---------------------------------------------------------------------------
(* Other users *)

\* A clean task for a plain user name removes no key of another user.
THEOREM OtherUsersAreSafe == Spec => RemovesOwnKeysOnly
<1>1. ASSUME IInv, NEW t \in Task, PlainName(UserOf[t]),
             Unlink(t) \/ UnlinkFinal(t) \/ UnlinkError(t) \/ UnlinkResent(t),
             NEW k \in db, k \notin db'
      PROVE  Owns(UserOf[t], k)
  <2>1. PICK s \in full[t] : k \in Range(keyGroupBySlot[t][s])
    BY <1>1 DEF Unlink, UnlinkFinal, UnlinkError, UnlinkResent, Remaining
  <2>2. s \in Slot
    BY <1>1 DEF IInv, TypeOK
  <2>3. Match(t, k)
    BY <1>1, <2>1, <2>2 DEF IInv, ContentInv
  <2>4. k \in Text /\ UserOf[t] \in Text
    BY <1>1, MapsAssumption DEF IInv, TypeOK
  <2>5. Matches(UserOf[t] \o <<":", "*">>, k)
    BY <2>3 DEF Match, Matching, Pattern
  <2> QED
    BY Zenon, <1>1, <2>4, <2>5, PlainNamesSelectTheirKeys
<1>2. IInv => [\A t \in Task :
         /\ PlainName(UserOf[t])
         /\ Unlink(t) \/ UnlinkFinal(t) \/ UnlinkError(t) \/ UnlinkResent(t)
         => \A k \in db : k \notin db' => Owns(UserOf[t], k)]_vars
  BY <1>1
<1> QED
  BY <1>2, InvariantHolds, PTL DEF RemovesOwnKeysOnly
=============================================================================
