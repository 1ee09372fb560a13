------------------------- MODULE TaskServerProofs -------------------------
(***************************************************************************)
(* Theorems about TaskServer for any number of POST and GET calls, any     *)
(* task identifiers and any bodies.                                        *)
(*                                                                         *)
(* The safety properties follow from one inductive invariant, IInv.  What  *)
(* it adds to them is the stage of a POST: what its pc implies about the   *)
(* lock, the registry, its taskInfo and its task goroutine, in both        *)
(* directions, since a step of one handler is judged by what the others    *)
(* have stored.                                                            *)
(***************************************************************************)
EXTENDS TaskServer, SequenceTheorems, TLAPS

Started == [Status |-> "PROGRESS", TaskLog |-> <<"PROGRESS">>]

\* locker is held exactly during the map assignment.
LockerInv == \A r \in Request : pc[r] = "writing" <=> locker = r

\* A handler past the decoding has a body.
BodyInv == \A r \in Request :
  pc[r] \in Handling \cup {"accepted"} => body[r] \in Body

\* Before its map assignment a POST is unknown to everybody else.
FreshInv == \A r \in Request :
  pc[r] \in {"idle", "refused", "gone", "checkParam", "create"} =>
    worker[r] = "none" /\ info[r] = NewInfo

\* During the assignment the identifier is still free and the info is filled.
WritingInv == \A r \in Request :
  pc[r] = "writing" =>
    worker[r] = "none" /\ info[r] = Started /\ tasks[body[r].id] = NoTask

StoredState == {"start", "respond", "accepted"}

\* After it the POST is found under its identifier, and nowhere else.
StoredInv == \A r \in Request :
  /\ pc[r] \in StoredState => tasks[body[r].id] = r
  /\ \A id \in TaskId : tasks[id] = r => pc[r] \in StoredState /\ body[r].id = id

\* The task goroutine exists from Spawn on.
SpawnInv == \A r \in Request :
  /\ pc[r] = "start" => worker[r] = "none" /\ info[r] = Started
  /\ pc[r] \in {"respond", "accepted"} => worker[r] # "none"

\* The goroutine decides status and log.
WorkerInv == \A r \in Request :
  /\ worker[r] \in Live => info[r] = Started
  /\ worker[r] \in {"logging", "done"} => info[r].Status \in Terminal
  /\ worker[r] = "logging" => info[r].TaskLog = <<"PROGRESS">>
  /\ worker[r] = "done" => info[r].TaskLog = <<"PROGRESS", info[r].Status>>

\* What a passed statistic check saw in the registry is not in progress, and
\* stays so: a task never goes back to PROGRESS.
SeenInv == \A r \in Request :
  pc[r] \in {"create", "writing"} \cup StoredState /\ body[r].type = "STATISTIC" =>
    \A s \in seen[r] :
      pc[s] \in StoredState /\ (body[s].type = "STATISTIC" => info[s].Status # "PROGRESS")

\* A report that was given agrees with the taskInfo it was read from.
ReaderInv == \A q \in Reader :
  /\ reader[q].pc = "found" => reader[q].ptr \in Request
  /\ reader[q].pc # "done" => reader[q].status = "TODO"
  /\ reader[q].status \in Terminal =>
       reader[q].ptr \in Request /\ info[reader[q].ptr].Status = reader[q].status

IInv == /\ TypeOK
        /\ LockerInv
        /\ BodyInv
        /\ FreshInv
        /\ WritingInv
        /\ StoredInv
        /\ SpawnInv
        /\ WorkerInv
        /\ SeenInv
        /\ ReaderInv
---------------------------------------------------------------------------
(* Auxiliary facts *)

\* What one GET handler holds.
ReaderRec == [pc : {"idle", "found", "done", "aborted"},
              ptr : Request \cup {NoTask},
              status : Status,
              ids : SUBSET TaskId]

\* Appending to a log of one line gives the log of the two lines.
LEMMA AppendToSingleton ==
  ASSUME NEW x, NEW y
  PROVE  Append(<<x>>, y) = <<x, y>>
<1> DEFINE S == {x, y}
<1>1. /\ <<x>> \in Seq(S) /\ <<x, y>> \in Seq(S)
      /\ Append(<<x>>, y) \in Seq(S)
  OBVIOUS
<1>2. /\ Len(Append(<<x>>, y)) = 2
      /\ Append(<<x>>, y)[1] = x
      /\ Append(<<x>>, y)[2] = y
  BY <1>1
<1>3. \A i \in 1 .. Len(<<x, y>>) : Append(<<x>>, y)[i] = <<x, y>>[i]
  BY <1>2
<1> HIDE DEF S
<1> QED
  BY <1>1, <1>2, <1>3, SeqEqual

---------------------------------------------------------------------------
(* Every action preserves IInv *)

\* IInv is kept when a body is decoded.
LEMMA ReceiveKeeps ==
  ASSUME IInv, NEW r \in Request, NEW b \in Body, Receive(r, b)
  PROVE  IInv'
<1>1. TypeOK'
  BY DEF IInv, Receive, Rejected, TypeOK, PostState, WorkerState, Status
<1>2. LockerInv'
  BY NoTaskAssumption DEF IInv, Receive, Rejected, TypeOK, LockerInv
<1>3. BodyInv'
  BY NoTaskAssumption DEF IInv, Receive, Rejected, TypeOK, BodyInv, Handling
<1>4. FreshInv'
  BY NoTaskAssumption DEF IInv, Receive, Rejected, TypeOK, FreshInv
<1>5. WritingInv'
  BY NoTaskAssumption DEF IInv, Receive, Rejected, TypeOK, LockerInv,
     FreshInv, WritingInv, Started
<1>6. StoredInv'
  BY NoTaskAssumption, BodyAssumption DEF IInv, Receive, Rejected, TypeOK,
     WritingInv, StoredInv, StoredState, BodyInv, Handling
<1>7. SpawnInv'
  BY DEF IInv, Receive, Rejected, TypeOK, SpawnInv, FreshInv, WritingInv
<1>8. SeenInv'
  BY DEF IInv, Receive, Rejected, TypeOK, SeenInv, StoredInv, WorkerInv,
     FreshInv, StoredState, Live, Terminal, NewInfo
<1>9. WorkerInv' /\ ReaderInv'
  BY DEF IInv, Receive, Rejected, WorkerInv, ReaderInv
<1> QED
  BY <1>1, <1>2, <1>3, <1>4, <1>5, <1>6, <1>7, <1>8, <1>9 DEF IInv

\* IInv is kept when a body is not decoded.
LEMMA ReceiveUndecodableKeeps ==
  ASSUME IInv, NEW r \in Request, ReceiveUndecodable(r)
  PROVE  IInv'
<1>1. TypeOK'
  BY DEF IInv, ReceiveUndecodable, TypeOK, PostState, WorkerState, Status
<1>2. LockerInv'
  BY NoTaskAssumption DEF IInv, ReceiveUndecodable, TypeOK, LockerInv
<1>3. BodyInv'
  BY NoTaskAssumption DEF IInv, ReceiveUndecodable, TypeOK, BodyInv,
     Handling
<1>4. FreshInv'
  BY NoTaskAssumption DEF IInv, ReceiveUndecodable, TypeOK, FreshInv
<1>5. WritingInv'
  BY NoTaskAssumption DEF IInv, ReceiveUndecodable, TypeOK, LockerInv,
     FreshInv, WritingInv, Started
<1>6. StoredInv'
  BY NoTaskAssumption, BodyAssumption DEF IInv, ReceiveUndecodable, TypeOK,
     WritingInv, StoredInv, StoredState, BodyInv, Handling
<1>7. SpawnInv'
  BY DEF IInv, ReceiveUndecodable, TypeOK, SpawnInv, FreshInv, WritingInv
<1>8. SeenInv'
  BY DEF IInv, ReceiveUndecodable, TypeOK, SeenInv, StoredInv, WorkerInv,
     FreshInv, StoredState, Live, Terminal, NewInfo
<1>9. WorkerInv' /\ ReaderInv'
  BY DEF IInv, ReceiveUndecodable, WorkerInv, ReaderInv
<1> QED
  BY <1>1, <1>2, <1>3, <1>4, <1>5, <1>6, <1>7, <1>8, <1>9 DEF IInv

\* IInv is kept when the statistic check.
LEMMA CheckStatisticKeeps ==
  ASSUME IInv, NEW r \in Request, CheckStatistic(r)
  PROVE  IInv'
<1>1. TypeOK'
  BY DEF IInv, CheckStatistic, TypeOK, PostState, WorkerState, Status,
     Registered
<1>2. LockerInv'
  BY NoTaskAssumption DEF IInv, CheckStatistic, TypeOK, LockerInv
<1>3. BodyInv'
  BY NoTaskAssumption DEF IInv, CheckStatistic, TypeOK, BodyInv, Handling
<1>4. FreshInv'
  BY NoTaskAssumption DEF IInv, CheckStatistic, TypeOK, FreshInv
<1>5. WritingInv'
  BY NoTaskAssumption DEF IInv, CheckStatistic, TypeOK, LockerInv, FreshInv,
     WritingInv, Started
<1>6. StoredInv'
  BY NoTaskAssumption, BodyAssumption DEF IInv, CheckStatistic, TypeOK,
     WritingInv, StoredInv, StoredState, BodyInv, Handling
<1>7. SpawnInv'
  BY DEF IInv, CheckStatistic, TypeOK, SpawnInv, FreshInv, WritingInv
<1>8. SeenInv'
  BY DEF IInv, CheckStatistic, TypeOK, SeenInv, StoredInv, WorkerInv,
     FreshInv, StoredState, Live, Terminal, NewInfo,
     HasProcessStatisticTask, Registered
<1>9. WorkerInv' /\ ReaderInv'
  BY DEF IInv, CheckStatistic, WorkerInv, ReaderInv
<1> QED
  BY <1>1, <1>2, <1>3, <1>4, <1>5, <1>6, <1>7, <1>8, <1>9 DEF IInv

\* IInv is kept when CreateTask returns early.
LEMMA CreateDuplicateKeeps ==
  ASSUME IInv, NEW r \in Request, CreateDuplicate(r)
  PROVE  IInv'
<1>1. TypeOK'
  BY DEF IInv, CreateDuplicate, TypeOK, PostState, WorkerState, Status
<1>2. LockerInv'
  BY NoTaskAssumption DEF IInv, CreateDuplicate, TypeOK, LockerInv
<1>3. BodyInv'
  BY NoTaskAssumption DEF IInv, CreateDuplicate, TypeOK, BodyInv, Handling
<1>4. FreshInv'
  BY NoTaskAssumption DEF IInv, CreateDuplicate, TypeOK, FreshInv
<1>5. WritingInv'
  BY NoTaskAssumption DEF IInv, CreateDuplicate, TypeOK, LockerInv,
     FreshInv, WritingInv, Started
<1>6. StoredInv'
  BY NoTaskAssumption, BodyAssumption DEF IInv, CreateDuplicate, TypeOK,
     WritingInv, StoredInv, StoredState, BodyInv, Handling
<1>7. SpawnInv'
  BY DEF IInv, CreateDuplicate, TypeOK, SpawnInv, FreshInv, WritingInv
<1>8. SeenInv'
  BY DEF IInv, CreateDuplicate, TypeOK, SeenInv, StoredInv, WorkerInv,
     FreshInv, StoredState, Live, Terminal, NewInfo
<1>9. WorkerInv' /\ ReaderInv'
  BY DEF IInv, CreateDuplicate, WorkerInv, ReaderInv
<1> QED
  BY <1>1, <1>2, <1>3, <1>4, <1>5, <1>6, <1>7, <1>8, <1>9 DEF IInv

\* IInv is kept when CreateTask fills the taskInfo.
LEMMA CreateFillKeeps ==
  ASSUME IInv, NEW r \in Request, CreateFill(r)
  PROVE  IInv'
<1>1. TypeOK'
  BY DEF IInv, CreateFill, TypeOK, PostState, WorkerState, Status
<1>2. LockerInv'
  BY NoTaskAssumption DEF IInv, CreateFill, TypeOK, LockerInv
<1>3. BodyInv'
  BY NoTaskAssumption DEF IInv, CreateFill, TypeOK, BodyInv, Handling
<1>4. FreshInv'
  BY NoTaskAssumption DEF IInv, CreateFill, TypeOK, FreshInv
<1>5. WritingInv'
  BY NoTaskAssumption DEF IInv, CreateFill, TypeOK, LockerInv, FreshInv,
     WritingInv, Started
<1>6. StoredInv'
  BY NoTaskAssumption, BodyAssumption DEF IInv, CreateFill, TypeOK,
     WritingInv, StoredInv, StoredState, BodyInv, Handling
<1>7. SpawnInv'
  BY DEF IInv, CreateFill, TypeOK, SpawnInv, FreshInv, WritingInv
<1>8. WorkerInv'
  BY DEF IInv, CreateFill, TypeOK, WorkerInv, FreshInv, SpawnInv, Live,
     Terminal, NewInfo, Started
<1>9. SeenInv'
  BY DEF IInv, CreateFill, TypeOK, SeenInv, StoredInv, WorkerInv, FreshInv,
     StoredState, Live, Terminal, NewInfo
<1>10. ReaderInv'
  BY DEF IInv, CreateFill, TypeOK, ReaderInv, FreshInv, WorkerInv, Live,
     Terminal, NewInfo, Started
<1> QED
  BY <1>1, <1>2, <1>3, <1>4, <1>5, <1>6, <1>7, <1>8, <1>9, <1>10 DEF IInv

\* IInv is kept when CreateTask completes the map assignment.
LEMMA CreateStoreKeeps ==
  ASSUME IInv, NEW r \in Request, CreateStore(r)
  PROVE  IInv'
<1>1. TypeOK'
  BY DEF IInv, CreateStore, TypeOK, PostState, WorkerState, Status
<1>2. LockerInv'
  BY NoTaskAssumption DEF IInv, CreateStore, TypeOK, LockerInv
<1>3. BodyInv'
  BY NoTaskAssumption DEF IInv, CreateStore, TypeOK, BodyInv, Handling
<1>4. FreshInv'
  BY NoTaskAssumption DEF IInv, CreateStore, TypeOK, FreshInv
<1>5. WritingInv'
  BY NoTaskAssumption DEF IInv, CreateStore, TypeOK, LockerInv, FreshInv,
     WritingInv, Started
<1>6. StoredInv'
  BY NoTaskAssumption, BodyAssumption DEF IInv, CreateStore, TypeOK,
     WritingInv, StoredInv, StoredState, BodyInv, Handling
<1>7. SpawnInv'
  BY DEF IInv, CreateStore, TypeOK, SpawnInv, FreshInv, WritingInv
<1>8. SeenInv'
  BY DEF IInv, CreateStore, TypeOK, SeenInv, StoredInv, WorkerInv, FreshInv,
     StoredState, Live, Terminal, NewInfo
<1>9. WorkerInv' /\ ReaderInv'
  BY DEF IInv, CreateStore, WorkerInv, ReaderInv
<1> QED
  BY <1>1, <1>2, <1>3, <1>4, <1>5, <1>6, <1>7, <1>8, <1>9 DEF IInv

\* IInv is kept when the task goroutine starts.
LEMMA SpawnKeeps ==
  ASSUME IInv, NEW r \in Request, Spawn(r)
  PROVE  IInv'
<1>1. TypeOK'
  BY DEF IInv, Spawn, TypeOK, PostState, WorkerState, Status
<1>2. LockerInv'
  BY NoTaskAssumption DEF IInv, Spawn, TypeOK, LockerInv
<1>3. BodyInv'
  BY NoTaskAssumption DEF IInv, Spawn, TypeOK, BodyInv, Handling
<1>4. FreshInv'
  BY NoTaskAssumption DEF IInv, Spawn, TypeOK, FreshInv
<1>5. WritingInv'
  BY NoTaskAssumption DEF IInv, Spawn, TypeOK, LockerInv, FreshInv,
     WritingInv, Started
<1>6. StoredInv'
  BY NoTaskAssumption, BodyAssumption DEF IInv, Spawn, TypeOK, WritingInv,
     StoredInv, StoredState, BodyInv, Handling
<1>7. SpawnInv'
  BY DEF IInv, Spawn, TypeOK, SpawnInv, FreshInv, WritingInv
<1>8. WorkerInv'
  BY DEF IInv, Spawn, TypeOK, WorkerInv, FreshInv, SpawnInv, Live, Terminal,
     NewInfo, Started
<1>9. SeenInv'
  BY DEF IInv, Spawn, TypeOK, SeenInv, StoredInv, WorkerInv, FreshInv,
     StoredState, Live, Terminal, NewInfo
<1>10. ReaderInv'
  BY DEF IInv, Spawn, ReaderInv
<1> QED
  BY <1>1, <1>2, <1>3, <1>4, <1>5, <1>6, <1>7, <1>8, <1>9, <1>10 DEF IInv

\* IInv is kept when the client is told.
LEMMA RespondKeeps ==
  ASSUME IInv, NEW r \in Request, Respond(r)
  PROVE  IInv'
<1>1. TypeOK'
  BY DEF IInv, Respond, TypeOK, PostState, WorkerState, Status
<1>2. LockerInv'
  BY NoTaskAssumption DEF IInv, Respond, TypeOK, LockerInv
<1>3. BodyInv'
  BY NoTaskAssumption DEF IInv, Respond, TypeOK, BodyInv, Handling
<1>4. FreshInv'
  BY NoTaskAssumption DEF IInv, Respond, TypeOK, FreshInv
<1>5. WritingInv'
  BY NoTaskAssumption DEF IInv, Respond, TypeOK, LockerInv, FreshInv,
     WritingInv, Started
<1>6. StoredInv'
  BY NoTaskAssumption, BodyAssumption DEF IInv, Respond, TypeOK, WritingInv,
     StoredInv, StoredState, BodyInv, Handling
<1>7. SpawnInv'
  BY DEF IInv, Respond, TypeOK, SpawnInv, FreshInv, WritingInv
<1>8. SeenInv'
  BY DEF IInv, Respond, TypeOK, SeenInv, StoredInv, WorkerInv, FreshInv,
     StoredState, Live, Terminal, NewInfo
<1>9. WorkerInv' /\ ReaderInv'
  BY DEF IInv, Respond, WorkerInv, ReaderInv
<1> QED
  BY <1>1, <1>2, <1>3, <1>4, <1>5, <1>6, <1>7, <1>8, <1>9 DEF IInv

\* IInv is kept when the body of the task returns.
LEMMA ExecuteKeeps ==
  ASSUME IInv, NEW r \in Request, Execute(r)
  PROVE  IInv'
<1>1. TypeOK'
  BY DEF IInv, Execute, TypeOK, PostState, WorkerState, Status
<1>2. FreshInv'
  BY NoTaskAssumption DEF IInv, Execute, TypeOK, FreshInv
<1>3. WritingInv'
  BY NoTaskAssumption DEF IInv, Execute, TypeOK, LockerInv, FreshInv,
     WritingInv, Started
<1>4. SpawnInv'
  BY DEF IInv, Execute, TypeOK, SpawnInv, FreshInv, WritingInv
<1>5. WorkerInv'
  BY DEF IInv, Execute, TypeOK, WorkerInv, FreshInv, SpawnInv, Live,
     Terminal, NewInfo, Started
<1>6. LockerInv' /\ BodyInv' /\ StoredInv' /\ SeenInv' /\ ReaderInv'
  BY DEF IInv, Execute, LockerInv, BodyInv, StoredInv, SeenInv, ReaderInv
<1> QED
  BY <1>1, <1>2, <1>3, <1>4, <1>5, <1>6 DEF IInv

\* IInv is kept when the status of the end is set.
LEMMA SetStatusKeeps ==
  ASSUME IInv, NEW r \in Request, SetStatus(r)
  PROVE  IInv'
<1>1. TypeOK'
  BY DEF IInv, SetStatus, Outcome, TypeOK, PostState, WorkerState, Status
<1>2. FreshInv'
  BY NoTaskAssumption DEF IInv, SetStatus, Outcome, TypeOK, FreshInv
<1>3. WritingInv'
  BY NoTaskAssumption DEF IInv, SetStatus, Outcome, TypeOK, LockerInv,
     FreshInv, WritingInv, Started
<1>4. SpawnInv'
  BY DEF IInv, SetStatus, Outcome, TypeOK, SpawnInv, FreshInv, WritingInv
<1>5. WorkerInv'
  BY DEF IInv, SetStatus, Outcome, TypeOK, WorkerInv, FreshInv, SpawnInv,
     Live, Terminal, NewInfo, Started
<1>6. SeenInv'
  BY DEF IInv, SetStatus, Outcome, TypeOK, SeenInv, StoredInv, WorkerInv,
     FreshInv, StoredState, Live, Terminal, NewInfo
<1>7. ReaderInv'
  BY DEF IInv, SetStatus, Outcome, TypeOK, ReaderInv, FreshInv, WorkerInv,
     Live, Terminal, NewInfo, Started
<1>8. LockerInv' /\ BodyInv' /\ StoredInv'
  BY DEF IInv, SetStatus, Outcome, LockerInv, BodyInv, StoredInv
<1> QED
  BY <1>1, <1>2, <1>3, <1>4, <1>5, <1>6, <1>7, <1>8 DEF IInv

\* IInv is kept when the closing line is appended.
LEMMA AppendLogKeeps ==
  ASSUME IInv, NEW r \in Request, AppendLog(r)
  PROVE  IInv'
<1>1. TypeOK'
  <2>1. info[r].Status \in Status \ {"TODO"}
    BY DEF IInv, AppendLog, WorkerInv, TypeOK, Terminal, Status
  <2>2. Append(info[r].TaskLog, info[r].Status) \in Seq(Status \ {"TODO"})
    BY <2>1 DEF IInv, TypeOK
  <2>3. [info[r] EXCEPT !.TaskLog = Append(@, info[r].Status)]
          \in [Status : Status, TaskLog : Seq(Status \ {"TODO"})]
    BY <2>2 DEF IInv, TypeOK
  <2> QED
    BY <2>3 DEF IInv, AppendLog, TypeOK, WorkerState
<1>2. FreshInv'
  BY NoTaskAssumption DEF IInv, AppendLog, TypeOK, FreshInv
<1>3. WritingInv'
  BY NoTaskAssumption DEF IInv, AppendLog, TypeOK, LockerInv, FreshInv,
     WritingInv, Started
<1>4. SpawnInv'
  BY DEF IInv, AppendLog, TypeOK, SpawnInv, FreshInv, WritingInv
<1>5. WorkerInv'
  <2>1. /\ worker[r] = "logging" /\ worker'[r] = "done"
        /\ info'[r] = [info[r] EXCEPT !.TaskLog = Append(@, info[r].Status)]
    BY DEF IInv, AppendLog, TypeOK
  <2>2. info[r].Status \in Terminal /\ info[r].TaskLog = <<"PROGRESS">>
    BY <2>1 DEF IInv, WorkerInv
  <2>3. Append(<<"PROGRESS">>, info[r].Status) = <<"PROGRESS", info[r].Status>>
    BY <2>2, AppendToSingleton
  <2>4. info'[r].Status = info[r].Status
        /\ info'[r].TaskLog = <<"PROGRESS", info[r].Status>>
    BY <2>1, <2>2, <2>3 DEF IInv, TypeOK
  <2>5. \A s \in Request \ {r} : worker'[s] = worker[s] /\ info'[s] = info[s]
    BY DEF IInv, AppendLog, TypeOK
  <2> QED
    BY <2>1, <2>2, <2>4, <2>5 DEF IInv, WorkerInv, Live
<1>6. SeenInv'
  BY DEF IInv, AppendLog, TypeOK, SeenInv, StoredInv, WorkerInv, FreshInv,
     StoredState, Live, Terminal, NewInfo
<1>7. ReaderInv'
  BY DEF IInv, AppendLog, TypeOK, ReaderInv, FreshInv, WorkerInv, Live,
     Terminal, NewInfo, Started
<1>8. LockerInv' /\ BodyInv' /\ StoredInv'
  BY DEF IInv, AppendLog, LockerInv, BodyInv, StoredInv
<1> QED
  BY <1>1, <1>2, <1>3, <1>4, <1>5, <1>6, <1>7, <1>8 DEF IInv

\* IInv is kept when GET /task finds a pointer.
LEMMA LookupKeeps ==
  ASSUME IInv, NEW q \in Reader, NEW id \in TaskId, Lookup(q, id)
  PROVE  IInv'
<1>1. TypeOK'
  <2>1. PICK p \in Request \cup {NoTask} : Found(q, p)
    BY DEF Lookup, IInv, TypeOK
  <2>2. [reader[q] EXCEPT !.pc = IF p = NoTask THEN "done" ELSE "found", !.ptr = p]
          \in ReaderRec
    BY DEF IInv, TypeOK, ReaderRec
  <2> QED
    BY <2>1, <2>2 DEF Found, Lookup, IInv, TypeOK, ReaderRec
<1>2. ReaderInv'
  <2>1. PICK p \in Request \cup {NoTask} : Found(q, p)
    BY DEF Lookup, IInv, TypeOK
  <2>2. reader[q].status = "TODO"
    BY DEF Lookup, IInv, ReaderInv
  <2>3. /\ reader'[q].status = "TODO" /\ reader'[q].ptr = p
        /\ reader'[q].pc = IF p = NoTask THEN "done" ELSE "found"
    BY <2>1, <2>2 DEF Found, IInv, TypeOK
  <2>4. \A z \in Reader \ {q} : reader'[z] = reader[z]
    BY <2>1 DEF Found, IInv, TypeOK
  <2>5. info' = info
    BY DEF Lookup
  <2> QED
    BY <2>3, <2>4, <2>5 DEF IInv, ReaderInv, Terminal
<1>3. LockerInv' /\ BodyInv' /\ FreshInv' /\ WritingInv' /\ StoredInv' /\ SpawnInv' /\ WorkerInv' /\ SeenInv'
  BY DEF IInv, Lookup, Found, LockerInv, BodyInv, FreshInv, WritingInv,
     StoredInv, SpawnInv, WorkerInv, SeenInv
<1> QED
  BY <1>1, <1>2, <1>3 DEF IInv

\* IInv is kept when GET /task answers.
LEMMA MarshalKeeps ==
  ASSUME IInv, NEW q \in Reader, Marshal(q)
  PROVE  IInv'
<1>1. TypeOK'
  <2>1. info[reader[q].ptr].Status \in Status
    BY DEF IInv, TypeOK, ReaderInv, Marshal
  <2>2. [reader[q] EXCEPT !.pc = "done", !.status = info[reader[q].ptr].Status]
          \in ReaderRec
    BY <2>1 DEF IInv, TypeOK, ReaderRec
  <2> QED
    BY <2>2 DEF IInv, Marshal, TypeOK, ReaderRec
<1>2. ReaderInv'
  BY DEF IInv, Marshal, TypeOK, ReaderInv, FreshInv, WorkerInv, Live,
     Terminal, NewInfo, Started
<1>3. LockerInv' /\ BodyInv' /\ FreshInv' /\ WritingInv' /\ StoredInv' /\ SpawnInv' /\ WorkerInv' /\ SeenInv'
  BY DEF IInv, Marshal, LockerInv, BodyInv, FreshInv, WritingInv, StoredInv,
     SpawnInv, WorkerInv, SeenInv
<1> QED
  BY <1>1, <1>2, <1>3 DEF IInv

\* IInv is kept when GET /tasks answers or panics.
LEMMA GetTaskListKeeps ==
  ASSUME IInv, NEW q \in Reader, GetTaskList(q)
  PROVE  IInv'
<1>1. TypeOK'
  <2>1. [reader[q] EXCEPT !.pc = IF Registered = {} THEN "done" ELSE "aborted",
                          !.ids = {}] \in ReaderRec
    BY DEF IInv, TypeOK, ReaderRec
  <2> QED
    BY <2>1 DEF IInv, GetTaskList, TypeOK, ReaderRec
<1>2. ReaderInv'
  BY DEF IInv, GetTaskList, TypeOK, ReaderInv, FreshInv, WorkerInv, Live,
     Terminal, NewInfo, Started
<1>3. LockerInv' /\ BodyInv' /\ FreshInv' /\ WritingInv' /\ StoredInv' /\ SpawnInv' /\ WorkerInv' /\ SeenInv'
  BY DEF IInv, GetTaskList, LockerInv, BodyInv, FreshInv, WritingInv,
     StoredInv, SpawnInv, WorkerInv, SeenInv
<1> QED
  BY <1>1, <1>2, <1>3 DEF IInv

\* IInv is kept when the process starts again.
LEMMA RestartKeeps ==
  ASSUME IInv, Restart
  PROVE  IInv'
<1>1. TypeOK'
  <2>1. NewReader \in ReaderRec /\ [NewReader EXCEPT !.pc = "aborted"] \in ReaderRec
    BY DEF NewReader, ReaderRec, Status
  <2>2. NewInfo \in [Status : Status, TaskLog : Seq(Status \ {"TODO"})]
    BY DEF NewInfo, Status
  <2>3. \A r \in Request :
          (IF pc[r] \in {"idle", "refused"} THEN pc[r] ELSE "gone") \in PostState
    BY DEF IInv, TypeOK, PostState
  <2> QED
    BY <2>1, <2>2, <2>3 DEF IInv, Restart, TypeOK, WorkerState, ReaderRec
<1>2. LockerInv'
  BY NoTaskAssumption DEF IInv, Restart, TypeOK, LockerInv
<1>3. BodyInv'
  BY NoTaskAssumption DEF IInv, Restart, TypeOK, BodyInv, Handling
<1>4. FreshInv'
  BY NoTaskAssumption DEF IInv, Restart, TypeOK, FreshInv, NewReader,
     NewInfo
<1>5. WritingInv'
  BY NoTaskAssumption DEF IInv, Restart, TypeOK, LockerInv, FreshInv,
     WritingInv, Started, PostState
<1>6. StoredInv'
  BY NoTaskAssumption, BodyAssumption DEF IInv, Restart, TypeOK, WritingInv,
     StoredInv, StoredState, BodyInv, Handling
<1>7. SpawnInv'
  BY DEF IInv, Restart, TypeOK, SpawnInv, FreshInv, WritingInv, NewReader,
     NewInfo
<1>8. WorkerInv'
  BY DEF IInv, Restart, TypeOK, WorkerInv, FreshInv, SpawnInv, Live,
     Terminal, NewInfo, Started, NewReader
<1>9. SeenInv'
  BY DEF IInv, Restart, TypeOK, SeenInv, StoredInv, WorkerInv, FreshInv,
     StoredState, Live, Terminal, NewInfo, NewReader
<1>10. ReaderInv'
  BY DEF IInv, Restart, TypeOK, ReaderInv, FreshInv, WorkerInv, Live,
     Terminal, NewInfo, Started, NewReader
<1> QED
  BY <1>1, <1>2, <1>3, <1>4, <1>5, <1>6, <1>7, <1>8, <1>9, <1>10 DEF IInv

\* A crash of the agent preserves the invariant.
LEMMA DownKeeps ==
  ASSUME IInv, Down
  PROVE  IInv'
<1>1. /\ UNCHANGED <<tasks, locker, pc, body, info, worker, reader, seen>>
      /\ up' \in BOOLEAN
  BY DEF Down
<1> QED
  BY <1>1 DEF IInv, TypeOK, LockerInv, BodyInv, FreshInv, WritingInv, StoredInv,
     SpawnInv, WorkerInv, SeenInv, ReaderInv

\* A stuttering step preserves the invariant.
LEMMA StutterKeeps ==
  ASSUME IInv, UNCHANGED vars
  PROVE  IInv'
BY DEF vars, IInv, TypeOK, LockerInv, BodyInv, FreshInv, WritingInv, StoredInv,
   SpawnInv, WorkerInv, SeenInv, ReaderInv

\* The initial states satisfy the invariant.
LEMMA InitEstablishes == Init => IInv
<1> SUFFICES ASSUME Init PROVE IInv
  OBVIOUS
<1> USE DEF Init
<1>1. TypeOK
  BY DEF TypeOK, PostState, WorkerState, Status, NewInfo, NewReader
<1>2. LockerInv /\ BodyInv /\ FreshInv /\ WritingInv
  BY NoTaskAssumption DEF LockerInv, BodyInv, FreshInv, WritingInv, Handling
<1>3. StoredInv /\ SpawnInv /\ WorkerInv
  BY NoTaskAssumption DEF StoredInv, StoredState, SpawnInv, WorkerInv, Live
<1>4. SeenInv /\ ReaderInv
  BY DEF SeenInv, StoredState, ReaderInv, NewReader, Terminal
<1> QED
  BY <1>1, <1>2, <1>3, <1>4 DEF IInv

\* IInv is inductive: one step per action of Next.
LEMMA Inductive == IInv /\ [Next]_vars => IInv'
<1> SUFFICES ASSUME IInv, [Next]_vars PROVE IInv'
  OBVIOUS
<1>1. CASE \E r \in Request : Post(r)
  BY <1>1, ReceiveKeeps, ReceiveUndecodableKeeps DEF Post
<1>2. CASE \E r \in Request : Handle(r)
  BY <1>2, CheckStatisticKeeps, CreateDuplicateKeeps, CreateFillKeeps,
     CreateStoreKeeps, SpawnKeeps, RespondKeeps DEF Handle
<1>3. CASE \E r \in Request : Work(r)
  BY <1>3, ExecuteKeeps, SetStatusKeeps, AppendLogKeeps DEF Work
<1>4. CASE \E q \in Reader : Get(q)
  BY <1>4, LookupKeeps, MarshalKeeps, GetTaskListKeeps DEF Get
<1>5. CASE Crash
  BY <1>5, DownKeeps DEF Crash, MapFatal, ReaderPanic
<1>6. CASE Restart
  BY <1>6, RestartKeeps
<1>7. CASE UNCHANGED vars
  BY <1>7, StutterKeeps
<1> QED
  BY <1>1, <1>2, <1>3, <1>4, <1>5, <1>6, <1>7 DEF Next

---------------------------------------------------------------------------
(* Theorems *)

\* Every reachable state of the agent satisfies IInv.
THEOREM InvariantHolds == Spec => []IInv
<1>1. Init => IInv
  BY InitEstablishes
<1>2. IInv /\ [Next]_vars => IInv'
  BY Inductive
<1> QED
  BY <1>1, <1>2, PTL DEF Spec

\* Handlers, goroutines, registry and logs keep their types.
THEOREM TypeCorrect == Spec => []TypeOK
<1>1. IInv => TypeOK
  BY DEF IInv
<1> QED
  BY <1>1, InvariantHolds, PTL

\* Two handlers are never inside the assignment of the map together.
THEOREM MapWritesAreExclusive == Spec => []MapWritesExclusive
<1>1. IInv => MapWritesExclusive
  BY DEF IInv, LockerInv, MapWritesExclusive
<1> QED
  BY <1>1, InvariantHolds, PTL

\* A client that was told that its task is created finds it registered.
THEOREM AcknowledgedTasksExist == Spec => []AckIsBacked
<1>1. ASSUME IInv, NEW r \in Request, pc[r] = "accepted"
      PROVE  tasks[body[r].id] = r /\ worker[r] # "none" /\ info[r].Status # "TODO"
  <2>1. tasks[body[r].id] = r /\ worker[r] # "none"
    BY <1>1 DEF IInv, StoredInv, StoredState, SpawnInv
  <2>2. worker[r] \in Live \cup {"logging", "done"}
    BY <2>1, <1>1 DEF IInv, TypeOK, WorkerState, Live
  <2> QED
    BY <1>1, <2>1, <2>2 DEF IInv, WorkerInv, Started, Terminal
<1>2. IInv => AckIsBacked
  BY <1>1 DEF AckIsBacked
<1> QED
  BY <1>2, InvariantHolds, PTL

\* A POST with a task goroutine is the one its identifier is bound to.
LEMMA WorkerIsRegistered ==
  ASSUME IInv, NEW r \in Request, worker[r] # "none"
  PROVE  pc[r] \in StoredState /\ body[r].id \in TaskId /\ tasks[body[r].id] = r
<1>1. pc[r] \in StoredState
  BY DEF IInv, TypeOK, PostState, FreshInv, WritingInv, SpawnInv, StoredState
<1>2. body[r] \in Body
  BY <1>1 DEF IInv, BodyInv, Handling, StoredState
<1> QED
  BY <1>1, <1>2, BodyAssumption DEF IInv, StoredInv

\* No identifier is ever worked on by two task goroutines.
THEOREM OneRunEach == Spec => []OneRunPerTaskId
<1>1. IInv => OneRunPerTaskId
  BY WorkerIsRegistered DEF OneRunPerTaskId
<1> QED
  BY <1>1, InvariantHolds, PTL

\* Two statistic tasks in progress are two whose checks both came first.
THEOREM OverlapIsExplained == Spec => []StatisticOverlapExplained
<1>1. ASSUME IInv, NEW r \in Request, NEW s \in Request,
             InProgressStatistic(r), InProgressStatistic(s)
      PROVE  s \notin seen[r]
  <2>1. pc[r] \in StoredState /\ body[r].type = "STATISTIC"
    BY <1>1 DEF InProgressStatistic, Registered, IInv, StoredInv
  <2> QED
    BY <1>1, <2>1 DEF InProgressStatistic, IInv, SeenInv
<1>2. IInv => StatisticOverlapExplained
  BY <1>1 DEF StatisticOverlapExplained
<1> QED
  BY <1>2, InvariantHolds, PTL

\* The log of a finished task closes with its status, once.
THEOREM LogsClose == Spec => []LogClosesOnce
<1>1. ASSUME IInv, NEW r \in Request
      PROVE  /\ worker[r] = "done" => info[r].TaskLog = <<"PROGRESS", info[r].Status>>
             /\ worker[r] \in Live \cup {"logging"} => info[r].TaskLog = <<"PROGRESS">>
  <2>1. worker[r] \in Live => info[r] = Started
    BY <1>1 DEF IInv, WorkerInv
  <2>2. Started.TaskLog = <<"PROGRESS">>
    BY DEF Started
  <2>3. worker[r] = "logging" => info[r].TaskLog = <<"PROGRESS">>
    BY <1>1 DEF IInv, WorkerInv
  <2>4. worker[r] = "done" => info[r].TaskLog = <<"PROGRESS", info[r].Status>>
    BY <1>1 DEF IInv, WorkerInv
  <2> QED
    BY <2>1, <2>2, <2>3, <2>4
<1>2. IInv => LogClosesOnce
  BY <1>1 DEF LogClosesOnce
<1> QED
  BY <1>2, InvariantHolds, PTL

\* No step rebinds or drops a registered identifier while the process lives.
THEOREM NeverRebound == Spec => NoRebinding
<1>1. ASSUME IInv, [Next]_vars, NEW id \in TaskId, up, tasks[id] # NoTask
      PROVE  tasks'[id] = tasks[id]
  <2>1. CASE \E r \in Request : CreateStore(r)
    <3>1. PICK r \in Request : CreateStore(r)
      BY <2>1
    <3>2. tasks[body[r].id] = NoTask
      BY <3>1, <1>1 DEF CreateStore, IInv, WritingInv
    <3> QED
      BY <3>1, <3>2, <1>1 DEF CreateStore, IInv, TypeOK
  <2>2. CASE ~ \E r \in Request : CreateStore(r)
    <3>1. UNCHANGED tasks
      BY <2>2, <1>1 DEF Next, Post, Handle, Work, Get, Crash, Receive,
         ReceiveUndecodable, CheckStatistic, CreateDuplicate, CreateFill, Spawn,
         Respond, Execute, SetStatus, AppendLog, Lookup, Marshal, GetTaskList,
         Down, MapFatal, ReaderPanic, Restart, vars
    <3> QED
      BY <3>1
  <2> QED
    BY <2>1, <2>2
<1>2. IInv /\ [Next]_vars =>
        [\A id \in TaskId : up /\ tasks[id] # NoTask => tasks'[id] = tasks[id]]_vars
  BY <1>1
<1> QED
  BY <1>2, InvariantHolds, PTL DEF Spec, NoRebinding

\* A later report of a task agrees with one that has announced its end.
THEOREM ReportsAgree == Spec => ReportsNeverRetract
<1> DEFINE Retraction(q, p) ==
      /\ reader[q].pc = "done" /\ reader[q].status \in Terminal
      /\ reader[p].pc = "found" /\ reader'[p].pc = "done"
      /\ reader[p].ptr = reader[q].ptr
<1>1. ASSUME IInv, [Next]_vars, NEW q \in Reader, NEW p \in Reader, Retraction(q, p)
      PROVE  reader'[p].status = reader[q].status
  <2>1. reader' # reader
    BY <1>1
  <2>2. ASSUME NEW z \in Reader, NEW id \in TaskId, Lookup(z, id)
        PROVE  FALSE
    <3>1. PICK x \in Request \cup {NoTask} : Found(z, x)
      BY <2>2, <1>1 DEF Lookup, IInv, TypeOK
    <3>2. z # p
      BY <2>2, <1>1 DEF Lookup
    <3> QED
      BY <3>1, <3>2, <1>1 DEF Found, IInv, TypeOK
  <2>3. ASSUME NEW z \in Reader, GetTaskList(z)
        PROVE  FALSE
    <3>1. z # p
      BY <2>3, <1>1 DEF GetTaskList
    <3> QED
      BY <3>1, <2>3, <1>1 DEF GetTaskList, IInv, TypeOK
  <2>4. ~ Restart
    BY <1>1 DEF Restart, NewReader, IInv, TypeOK
  <2>5. PICK z \in Reader : Marshal(z)
    BY <1>1, <2>1, <2>2, <2>3, <2>4 DEF Next, Post, Handle, Work, Get, Crash,
       Receive, ReceiveUndecodable, CheckStatistic, CreateDuplicate, CreateFill,
       CreateStore, Spawn, Respond, Execute, SetStatus, AppendLog, Down,
       MapFatal, ReaderPanic, vars
  <2>6. z = p
    BY <2>5, <1>1 DEF Marshal, IInv, TypeOK
  <2>7. reader'[p].status = info[reader[p].ptr].Status
    BY <2>5, <2>6, <1>1 DEF Marshal, IInv, TypeOK
  <2> QED
    BY <2>7, <1>1 DEF IInv, ReaderInv
<1>2. IInv /\ [Next]_vars =>
        [\A q, p \in Reader : Retraction(q, p)
           => reader'[p].status = reader[q].status]_vars
  BY <1>1
<1> QED
  BY <1>2, InvariantHolds, PTL DEF Spec, ReportsNeverRetract

---------------------------------------------------------------------------
(* TaskServer implements TaskService *)

\* Initial states of the server are initial states of the service.
LEMMA InitRefines == Init => Service!Init
BY DEF Init, Service!Init, StatusOf, Service!Absent

\* The identifiers whose registered task, and that task's status, a step leaves
\* alone keep their abstract status.
LEMMA SameStatus ==
  ASSUME UNCHANGED tasks, UNCHANGED up,
         \A r \in Registered : info'[r].Status = info[r].Status,
         TypeOK
  PROVE  UNCHANGED Service!vars
<1>1. \A id \in TaskId : StatusOf(id)' = StatusOf(id)
  BY DEF StatusOf, Registered, TypeOK
<1> QED
  BY <1>1 DEF Service!vars

\* The map assignment takes the identifier.
LEMMA StoreRefines ==
  ASSUME IInv, NEW r \in Request, NEW id \in TaskId, body[r].id = id, CreateStore(r)
  PROVE  Service!Take(id)
<1>1. tasks[id] = NoTask /\ info[r].Status = "PROGRESS"
  BY DEF IInv, WritingInv, CreateStore, Started
<1>2. tasks' = [tasks EXCEPT ![id] = r] /\ UNCHANGED <<up, info>> /\ up
  BY DEF CreateStore
<1>3. StatusOf(id) = "absent"
  BY <1>1 DEF StatusOf
<1>4. StatusOf(id)' = "PROGRESS"
  BY <1>1, <1>2, NoTaskAssumption DEF StatusOf, IInv, TypeOK
<1>5. \A x \in TaskId \ {id} : StatusOf(x)' = StatusOf(x)
  BY <1>2 DEF StatusOf, IInv, TypeOK
<1>6. [x \in TaskId |-> StatusOf(x)']
        = [[x \in TaskId |-> StatusOf(x)] EXCEPT ![id] = "PROGRESS"]
  BY <1>4, <1>5
<1> QED
  BY <1>2, <1>3, <1>6 DEF Service!Take, Service!Absent

\* Setting the status of the end ends the task.
LEMMA SetStatusRefines ==
  ASSUME IInv, NEW r \in Request, NEW id \in TaskId, body[r].id = id, SetStatus(r)
  PROVE  Service!End(id)
<1>1. tasks[id] = r
  BY WorkerIsRegistered DEF SetStatus
<1>2. info[r].Status = "PROGRESS"
  BY DEF SetStatus, IInv, WorkerInv, Live, Started
<1>3. UNCHANGED <<up, tasks>> /\ up
  BY DEF SetStatus
<1>4. info'[r].Status \in {"SUC", "FAIL"}
  BY DEF SetStatus, Outcome, IInv, TypeOK
<1>5. \A s \in Request \ {r} : info'[s] = info[s]
  BY DEF SetStatus, IInv, TypeOK
<1>6. StatusOf(id) = "PROGRESS"
  BY <1>1, <1>2, NoTaskAssumption DEF StatusOf
<1>7. StatusOf(id)' = info'[r].Status
  BY <1>1, <1>3, NoTaskAssumption DEF StatusOf
<1>8. \A x \in TaskId \ {id} : tasks[x] # r
  BY DEF IInv, StoredInv
<1>9. \A x \in TaskId \ {id} : StatusOf(x)' = StatusOf(x)
  BY <1>3, <1>5, <1>8 DEF StatusOf, IInv, TypeOK
<1>10. [x \in TaskId |-> StatusOf(x)']
         = [[x \in TaskId |-> StatusOf(x)] EXCEPT ![id] = info'[r].Status]
  BY <1>7, <1>9
<1> QED
  BY <1>3, <1>4, <1>6, <1>10 DEF Service!End, Service!Terminal

\* A crash or an exit of the agent is a stop of the service.
LEMMA DownRefines ==
  ASSUME Down
  PROVE  Service!Stop
BY DEF Down, Service!Stop, StatusOf

\* A restart of the agent is a restart of the service.
LEMMA RestartRefines ==
  ASSUME Restart
  PROVE  Service!Restart
BY DEF Restart, Service!Restart, StatusOf, Service!Absent

\* The steps that touch neither the registry nor the status of a registered
\* task are invisible to the client of the abstract service.
LEMMA OtherStepsStutter ==
  ASSUME IInv, NEW r \in Request,
         \/ Post(r) \/ CheckStatistic(r) \/ CreateDuplicate(r) \/ CreateFill(r)
         \/ Spawn(r) \/ Respond(r) \/ Execute(r) \/ AppendLog(r)
  PROVE  UNCHANGED Service!vars
<1>1. UNCHANGED <<tasks, up>>
  BY DEF Post, Receive, ReceiveUndecodable, CheckStatistic, CreateDuplicate,
     CreateFill, Spawn, Respond, Execute, AppendLog
<1>2. \A s \in Registered : info'[s].Status = info[s].Status
  <2>1. CASE CreateFill(r)
    <3>1. r \notin Registered
      BY <2>1 DEF CreateFill, IInv, StoredInv, StoredState, Registered
    <3> QED
      BY <2>1, <3>1 DEF CreateFill, Registered, IInv, TypeOK
  <2>2. CASE AppendLog(r)
    BY <2>2 DEF AppendLog, Registered, IInv, TypeOK
  <2>3. CASE UNCHANGED info
    BY <2>3
  <2> QED
    BY <2>1, <2>2, <2>3 DEF Post, Receive, ReceiveUndecodable, CheckStatistic,
       CreateDuplicate, Spawn, Respond, Execute
<1> QED
  BY <1>1, <1>2, SameStatus DEF IInv

\* The handlers that only read are stuttering steps of the service.
LEMMA GetsStutter ==
  ASSUME IInv, NEW q \in Reader, Get(q)
  PROVE  UNCHANGED Service!vars
<1>1. UNCHANGED <<tasks, up, info>>
  BY DEF Get, Lookup, Marshal, GetTaskList
<1> QED
  BY <1>1, SameStatus DEF IInv

\* Every step of the server is a step of the service or a stutter.
LEMMA NextRefines == IInv /\ [Next]_vars => [Service!Next]_(Service!vars)
<1> SUFFICES ASSUME IInv, [Next]_vars PROVE Service!Next \/ UNCHANGED Service!vars
  OBVIOUS
<1>1. CASE \E r \in Request : CreateStore(r)
  <2>1. PICK r \in Request : CreateStore(r)
    BY <1>1
  <2>2. body[r].id \in TaskId
    BY <2>1, BodyAssumption DEF IInv, BodyInv, Handling, CreateStore
  <2> QED
    BY <2>1, <2>2, StoreRefines DEF Service!Next
<1>2. CASE \E r \in Request : SetStatus(r)
  <2>1. PICK r \in Request : SetStatus(r)
    BY <1>2
  <2>2. body[r].id \in TaskId
    BY <2>1, WorkerIsRegistered DEF SetStatus
  <2> QED
    BY <2>1, <2>2, SetStatusRefines DEF Service!Next
<1>3. CASE \E r \in Request : \/ Post(r) \/ CheckStatistic(r) \/ CreateDuplicate(r)
                              \/ CreateFill(r) \/ Spawn(r) \/ Respond(r)
                              \/ Execute(r) \/ AppendLog(r)
  BY <1>3, OtherStepsStutter
<1>4. CASE \E q \in Reader : Get(q)
  BY <1>4, GetsStutter
<1>5. CASE Crash
  BY <1>5, DownRefines DEF Crash, MapFatal, ReaderPanic, Service!Next
<1>6. CASE Restart
  BY <1>6, RestartRefines DEF Service!Next
<1>7. CASE UNCHANGED vars
  BY <1>7, SameStatus DEF vars, IInv
<1> QED
  BY <1>1, <1>2, <1>3, <1>4, <1>5, <1>6, <1>7 DEF Next, Handle, Work

\* The handlers and goroutines, for any number of them, implement the service.
THEOREM ImplementsService == Spec => ServiceSpec
<1>1. Init => Service!Init
  BY InitRefines
<1>2. IInv /\ [Next]_vars => [Service!Next]_(Service!vars)
  BY NextRefines
<1> QED
  BY <1>1, <1>2, InvariantHolds, PTL DEF Spec, ServiceSpec, Service!Spec
=============================================================================
