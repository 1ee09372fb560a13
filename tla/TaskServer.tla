---------------------------- MODULE TaskServer ----------------------------
(***************************************************************************)
(* The HTTP handlers of server/server.go over the task registry of         *)
(* task/task.go.                                                           *)
(*                                                                         *)
(* Every POST /task runs in a goroutine of net/http and, when the task is  *)
(* created, starts a second goroutine that runs it (startTask).  All of    *)
(* them share the map tasks; CreateTask and HasProcessStatisticTask take   *)
(* locker, while Report, GetTaskList, AppendFailLog and AppendSucLog do    *)
(* not.  A GenericTaskInfo is named here by the POST that allocated it:    *)
(* tasks[id] = r says that the map holds the pointer to r's taskInfo.      *)
(*                                                                         *)
(* The body of a task (clean, statistic, generate) is one step here, which *)
(* returns nil or an error: Cleaner.tla, StatisticTask.tla and             *)
(* RdbPipeline.tla model it.                                               *)
(***************************************************************************)
EXTENDS Sequences

CONSTANTS
  Request,      \* the POST /task calls clients make, one handler each
  Reader,       \* the GET calls clients make, one handler each
  TaskId,       \* the identifiers that occur in them
  Body,         \* the bodies the POST calls may carry
  NoTask        \* the nil pointer

TaskType == {"CLEAN", "STATISTIC", "GENERATE", "OTHER"}

\* What the code tells apart in taskParam: parameters json.Unmarshal rejects,
\* a redisType CheckRedisType rejects, a count outside 1..99999, and the rest.
Param == {"good", "unparsable", "illegalRedisType", "countOutOfRange"}

ASSUME NoTaskAssumption == NoTask \notin Request
ASSUME BodyAssumption == Body \subseteq [id : TaskId, type : TaskType, param : Param]

VARIABLES
  up,           \* is the agent process alive?
  tasks,        \* the registry: TaskId -> the POST whose taskInfo is stored
  locker,       \* the holder of task.locker, or NoTask
  pc,           \* where each POST handler is
  body,         \* the decoded request of each POST
  info,         \* Status and TaskLog of the taskInfo of each POST
  worker,       \* where the goroutine that runs the task is
  reader,       \* where each GET handler is, and what it has read
  seen          \* history: the POSTs registered when r's checkParam ran

vars == <<up, tasks, locker, pc, body, info, worker, reader, seen>>

PostState == {"idle", "checkParam", "create", "writing", "start", "respond",
              "accepted", "refused", "gone"}
Handling == {"checkParam", "create", "writing", "start", "respond"}

\* running, then the deferred function: decided by the error, the status set
\* ("SUC" or "FAIL" written, the log line not yet), done.
WorkerState == {"none", "running", "ok", "err", "logging", "done"}
Live == {"running", "ok", "err"}

Status == {"TODO", "PROGRESS", "SUC", "FAIL"}
Terminal == {"SUC", "FAIL"}

\* A log line is named by the status it announces: "PROGRESS" is "task starts".
NewInfo == [Status |-> "TODO", TaskLog |-> <<>>]
NewReader == [pc |-> "idle", ptr |-> NoTask, status |-> "TODO", ids |-> {}]

Registered == {r \in Request : \E id \in TaskId : tasks[id] = r}

TypeOK ==
  /\ up \in BOOLEAN
  /\ tasks \in [TaskId -> Request \cup {NoTask}]
  /\ locker \in Request \cup {NoTask}
  /\ pc \in [Request -> PostState]
  /\ body \in [Request -> Body \cup {NoTask}]
  /\ info \in [Request -> [Status : Status, TaskLog : Seq(Status \ {"TODO"})]]
  /\ worker \in [Request -> WorkerState]
  /\ reader \in [Reader -> [pc : {"idle", "found", "done", "aborted"},
                            ptr : Request \cup {NoTask},
                            status : Status,
                            ids : SUBSET TaskId]]
  /\ seen \in [Request -> SUBSET Request]

Init ==
  /\ up = TRUE
  /\ tasks = [id \in TaskId |-> NoTask]
  /\ locker = NoTask
  /\ pc = [r \in Request |-> "idle"]
  /\ body = [r \in Request |-> NoTask]
  /\ info = [r \in Request |-> NewInfo]
  /\ worker = [r \in Request |-> "none"]
  /\ reader = [q \in Reader |-> NewReader]
  /\ seen = [r \in Request |-> {}]

---------------------------------------------------------------------------
(* POST /task *)

\* CheckTaskType and the GENERATE branch of checkParam: the bodies refused
\* before any shared state is read.  A count out of range is not among them:
\* that branch returns the err of the enclosing scope, which is nil.
Rejected(b) ==
  \/ b.type = "OTHER"
  \/ b.type = "GENERATE" /\ b.param \in {"unparsable", "illegalRedisType"}

\* The handler decodes the body and checks what it can check on its own.
Receive(r, b) ==
  /\ up
  /\ pc[r] = "idle"
  /\ body' = [body EXCEPT ![r] = b]
  /\ pc' = [pc EXCEPT ![r] = IF Rejected(b) THEN "refused"
                             ELSE IF b.type = "STATISTIC" THEN "checkParam"
                             ELSE "create"]
  /\ UNCHANGED <<up, tasks, locker, info, worker, reader, seen>>

\* A body that dec.Decode cannot read is answered 400 at once.
ReceiveUndecodable(r) ==
  /\ up
  /\ pc[r] = "idle"
  /\ pc' = [pc EXCEPT ![r] = "refused"]
  /\ UNCHANGED <<up, tasks, locker, body, info, worker, reader, seen>>

\* Mutation: the search looks for the wrong status.
HasWaitingStatisticTask ==
  \E r \in Registered : body[r].type = "STATISTIC" /\ info[r].Status = "TODO"

HasProcessStatisticTask ==
  \E r \in Registered : body[r].type = "STATISTIC" /\ info[r].Status = "PROGRESS"

\* The STATISTIC branch of checkParam: one critical section of locker.
CheckStatistic(r) ==
  /\ up
  /\ pc[r] = "checkParam"
  /\ locker = NoTask
  /\ pc' = [pc EXCEPT ![r] = IF HasProcessStatisticTask THEN "refused" ELSE "create"]
  /\ seen' = [seen EXCEPT ![r] = Registered]
  /\ UNCHANGED <<up, tasks, locker, body, info, worker, reader>>

\* CreateTask finds the identifier taken and returns, releasing locker.
CreateDuplicate(r) ==
  /\ up
  /\ pc[r] = "create"
  /\ locker = NoTask
  /\ tasks[body[r].id] # NoTask
  /\ pc' = [pc EXCEPT ![r] = "refused"]
  /\ UNCHANGED <<up, tasks, locker, body, info, worker, reader, seen>>

\* Mutations of CreateFill: CreateTask without locker.Lock ...
CreateFillUnlocked(r) ==
  /\ up
  /\ pc[r] = "create"
  /\ tasks[body[r].id] = NoTask
  /\ locker' = r
  /\ info' = [info EXCEPT ![r] = [Status |-> "PROGRESS", TaskLog |-> <<"PROGRESS">>]]
  /\ pc' = [pc EXCEPT ![r] = "writing"]
  /\ UNCHANGED <<up, tasks, body, worker, reader, seen>>

\* ... without the look for the identifier ...
CreateFillOver(r) ==
  /\ up
  /\ pc[r] = "create"
  /\ locker = NoTask
  /\ locker' = r
  /\ info' = [info EXCEPT ![r] = [Status |-> "PROGRESS", TaskLog |-> <<"PROGRESS">>]]
  /\ pc' = [pc EXCEPT ![r] = "writing"]
  /\ UNCHANGED <<up, tasks, body, worker, reader, seen>>

\* ... and without the assignment of the status.
CreateFillTodo(r) ==
  /\ up
  /\ pc[r] = "create"
  /\ locker = NoTask
  /\ tasks[body[r].id] = NoTask
  /\ locker' = r
  /\ info' = [info EXCEPT ![r].TaskLog = <<"PROGRESS">>]
  /\ pc' = [pc EXCEPT ![r] = "writing"]
  /\ UNCHANGED <<up, tasks, body, worker, reader, seen>>

\* CreateTask fills the taskInfo and enters the map assignment, which is not
\* atomic for the goroutines that read the map without locker.
CreateFill(r) ==
  /\ up
  /\ pc[r] = "create"
  /\ locker = NoTask
  /\ tasks[body[r].id] = NoTask
  /\ locker' = r
  /\ info' = [info EXCEPT ![r] = [Status |-> "PROGRESS", TaskLog |-> <<"PROGRESS">>]]
  /\ pc' = [pc EXCEPT ![r] = "writing"]
  /\ UNCHANGED <<up, tasks, body, worker, reader, seen>>

\* Mutation: CreateTask without the deferred Unlock.
CreateStoreKeepsLock(r) ==
  /\ up
  /\ pc[r] = "writing"
  /\ tasks' = [tasks EXCEPT ![body[r].id] = r]
  /\ pc' = [pc EXCEPT ![r] = "start"]
  /\ UNCHANGED <<up, locker, body, info, worker, reader, seen>>

\* The assignment completes and the deferred Unlock runs.
CreateStore(r) ==
  /\ up
  /\ pc[r] = "writing"
  /\ tasks' = [tasks EXCEPT ![body[r].id] = r]
  /\ locker' = NoTask
  /\ pc' = [pc EXCEPT ![r] = "start"]
  /\ UNCHANGED <<up, body, info, worker, reader, seen>>

\* go agentServer.startTask(&taskInfo)
Spawn(r) ==
  /\ up
  /\ pc[r] = "start"
  /\ worker' = [worker EXCEPT ![r] = "running"]
  /\ pc' = [pc EXCEPT ![r] = "respond"]
  /\ UNCHANGED <<up, tasks, locker, body, info, reader, seen>>

Respond(r) ==
  /\ up
  /\ pc[r] = "respond"
  /\ pc' = [pc EXCEPT ![r] = "accepted"]
  /\ UNCHANGED <<up, tasks, locker, body, info, worker, reader, seen>>

---------------------------------------------------------------------------
(* The goroutine of startTask *)

\* ExecuteClean, ExecuteStatistic or GenerateData returns, or panics in this
\* goroutine and is recovered: the deferred function then has its err.  A
\* clean task reads its parameters only here (CleanTaskParam).
Execute(r) ==
  /\ up
  /\ worker[r] = "running"
  /\ \E e \in {"ok", "err"} :
       /\ e = "ok" => ~(body[r].type = "CLEAN" /\ body[r].param = "unparsable")
       /\ worker' = [worker EXCEPT ![r] = e]
  /\ UNCHANGED <<up, tasks, locker, pc, body, info, reader, seen>>

\* Mutation: a status that GET /task does not know.
OutcomeUnknown(w) == IF w = "ok" THEN "SUCCESS" ELSE "FAIL"

Outcome(w) == IF w = "ok" THEN "SUC" ELSE "FAIL"

\* Mutation: a panic leaves the deferred function without a status.
SetStatusSkipsErr(r) ==
  /\ up
  /\ worker[r] = "ok"
  /\ info' = [info EXCEPT ![r].Status = Outcome(worker[r])]
  /\ worker' = [worker EXCEPT ![r] = "logging"]
  /\ UNCHANGED <<up, tasks, locker, pc, body, reader, seen>>

\* AppendSucLog or AppendFailLog writes the status first ...
SetStatus(r) ==
  /\ up
  /\ worker[r] \in {"ok", "err"}
  /\ info' = [info EXCEPT ![r].Status = Outcome(worker[r])]
  /\ worker' = [worker EXCEPT ![r] = "logging"]
  /\ UNCHANGED <<up, tasks, locker, pc, body, reader, seen>>

\* Mutation: the return after AppendFailLog is dropped, AppendSucLog follows.
AppendLogFallsThrough(r) ==
  /\ up
  /\ worker[r] = "logging"
  /\ info' = [info EXCEPT ![r] =
       [Status  |-> "SUC",
        TaskLog |-> (IF @.Status = "FAIL" THEN Append(@.TaskLog, "FAIL") ELSE @.TaskLog)
                      \o <<"SUC">>]]
  /\ worker' = [worker EXCEPT ![r] = "done"]
  /\ UNCHANGED <<up, tasks, locker, pc, body, reader, seen>>

\* ... and appends the line second; neither takes locker.
AppendLog(r) ==
  /\ up
  /\ worker[r] = "logging"
  /\ info' = [info EXCEPT ![r].TaskLog = Append(@, info[r].Status)]
  /\ worker' = [worker EXCEPT ![r] = "done"]
  /\ UNCHANGED <<up, tasks, locker, pc, body, reader, seen>>

---------------------------------------------------------------------------
(* GET /task/{taskId} and GET /tasks *)

Found(q, p) ==
  reader' = [reader EXCEPT ![q].pc = IF p = NoTask THEN "done" ELSE "found",
                           ![q].ptr = p]

\* Report looks the identifier up without locker.  While an assignment is
\* under way the read may see the entry or not (and see MapFatal).
Lookup(q, id) ==
  /\ up
  /\ reader[q].pc = "idle"
  /\ \/ Found(q, tasks[id])
     \/ \E r \in Request : pc[r] = "writing" /\ body[r].id = id /\ Found(q, r)
  /\ UNCHANGED <<up, tasks, locker, pc, body, info, worker, seen>>

\* reportProgress marshals the taskInfo behind the pointer it was given.
Marshal(q) ==
  /\ up
  /\ reader[q].pc = "found"
  /\ reader' = [reader EXCEPT ![q].pc = "done",
                              ![q].status = info[reader[q].ptr].Status]
  /\ UNCHANGED <<up, tasks, locker, pc, body, info, worker, seen>>

\* GetTaskList stores every entry in a map that was never made: the first
\* store panics, net/http drops the connection.  With no entry it answers.
GetTaskList(q) ==
  /\ up
  /\ reader[q].pc = "idle"
  /\ reader' = [reader EXCEPT ![q].pc = IF Registered = {} THEN "done" ELSE "aborted",
                              ![q].ids = {}]
  /\ UNCHANGED <<up, tasks, locker, pc, body, info, worker, seen>>

---------------------------------------------------------------------------
(* The process stops and starts again *)

Down == up /\ up' = FALSE /\ UNCHANGED <<tasks, locker, pc, body, info, worker, reader, seen>>

\* "concurrent map read and map write": the runtime stops the process when a
\* reader that holds no lock meets an assignment.
MapFatal(q) == reader[q].pc = "idle" /\ (\E r \in Request : pc[r] = "writing") /\ Down

\* A statistic task reads the RDB in a goroutine of its own, which the
\* recover of startTask does not cover: a panic there ends the process.
ReaderPanic(r) == worker[r] = "running" /\ body[r].type = "STATISTIC" /\ Down

\* Everything is in memory: a new process starts with an empty registry, the
\* connections in flight are cut and the answers given before are void.
Restart ==
  /\ ~up
  /\ up' = TRUE
  /\ tasks' = [id \in TaskId |-> NoTask]
  /\ locker' = NoTask
  /\ pc' = [r \in Request |-> IF pc[r] \in {"idle", "refused"} THEN pc[r] ELSE "gone"]
  /\ worker' = [r \in Request |-> "none"]
  /\ info' = [r \in Request |-> NewInfo]
  /\ reader' = [q \in Reader |-> IF reader[q].pc = "idle" THEN NewReader
                                 ELSE [NewReader EXCEPT !.pc = "aborted"]]
  /\ seen' = [r \in Request |-> {}]
  /\ UNCHANGED body

---------------------------------------------------------------------------
Handle(r) ==
  \/ CheckStatistic(r)
  \/ CreateDuplicate(r)
  \/ CreateFill(r)
  \/ CreateStore(r)
  \/ Spawn(r)
  \/ Respond(r)

Work(r) == Execute(r) \/ SetStatus(r) \/ AppendLog(r)

Post(r) == (\E b \in Body : Receive(r, b)) \/ ReceiveUndecodable(r)

Get(q) == (\E id \in TaskId : Lookup(q, id)) \/ Marshal(q) \/ GetTaskList(q)

Crash == (\E q \in Reader : MapFatal(q)) \/ (\E r \in Request : ReaderPanic(r)) \/ Down

Next ==
  \/ \E r \in Request : Post(r) \/ Handle(r) \/ Work(r)
  \/ \E q \in Reader : Get(q)
  \/ Crash
  \/ Restart

Spec == Init /\ [][Next]_vars

\* A handler and a task goroutine that can take a step are scheduled; clients,
\* crashes and restarts are under no obligation.
Fairness == \A r \in Request : WF_vars(Handle(r)) /\ WF_vars(Work(r))

FairSpec == Spec /\ Fairness

---------------------------------------------------------------------------
(* Safety *)

\* The map is assigned by one handler at a time: two would be "concurrent map
\* writes", which stops the process, and one of the two entries could be lost.
MapWritesExclusive ==
  \A r, s \in Request : pc[r] = "writing" /\ pc[s] = "writing" => r = s

\* A client that was told "succeeded in creating a task" finds its own task
\* under the identifier it sent, already started, for as long as the process
\* that told it is alive: no other POST replaced or shadowed the entry.
AckIsBacked ==
  \A r \in Request : pc[r] = "accepted" =>
    tasks[body[r].id] = r /\ worker[r] # "none" /\ info[r].Status # "TODO"

\* However POSTs with one identifier interleave, at most one of them ever has
\* a task goroutine: a retried POST does not run the work a second time.
OneRunPerTaskId ==
  \A r, s \in Request :
    worker[r] # "none" /\ worker[s] # "none" /\ body[r].id = body[s].id => r = s

InProgressStatistic(r) ==
  r \in Registered /\ body[r].type = "STATISTIC" /\ info[r].Status = "PROGRESS"

\* checkParam and CreateTask are two critical sections, so two statistic tasks
\* may be in progress together, but only two whose checks both ran before
\* either was created: a task that was already there at the check refuses it.
StatisticOverlapExplained ==
  \A r, s \in Request :
    InProgressStatistic(r) /\ InProgressStatistic(s) /\ r # s => s \notin seen[r]

\* The log of a task ends with the line of its status once startTask is done,
\* and holds that line at most once, although the status and the line are
\* written apart and without a lock.
LogClosesOnce ==
  \A r \in Request :
    /\ worker[r] = "done" => info[r].TaskLog = <<"PROGRESS", info[r].Status>>
    /\ worker[r] \in Live \cup {"logging"} => info[r].TaskLog = <<"PROGRESS">>

\* While the process lives, a registered identifier keeps the task it was
\* given: no step of any handler rebinds or drops an entry of tasks.
NoRebinding ==
  [][\A id \in TaskId : up /\ tasks[id] # NoTask => tasks'[id] = tasks[id]]_vars

\* What one report of a task has said is never taken back by a later one: once
\* a client has read SUC or FAIL every later report of the task says the same.
ReportsNeverRetract ==
  [][\A q, p \in Reader :
       /\ reader[q].pc = "done" /\ reader[q].status \in Terminal
       /\ reader[p].pc = "found" /\ reader'[p].pc = "done"
       /\ reader[p].ptr = reader[q].ptr
       => reader'[p].status = reader[q].status]_vars

(* Liveness *)

\* Every POST that was read is answered, unless the process stops: locker is
\* released on every path of CreateTask, the early return included.
PostsAnswered ==
  \A r \in Request : pc[r] \in Handling ~> pc[r] \in {"accepted", "refused"} \/ ~up

\* Every created task ends as SUC or FAIL with its log closed, unless the
\* process stops: an error or a panic of the body is not a way out of it.
CreatedEnds ==
  \A r \in Request : r \in Registered ~> worker[r] = "done" \/ ~up

---------------------------------------------------------------------------
(* What comments of the code say and the code does not do *)

\* checkParam's comment and message (server/server.go:179): while a statistic
\* task is in progress a new one is refused, so two are never in progress.
AtMostOneStatistic ==
  \A r, s \in Request : InProgressStatistic(r) /\ InProgressStatistic(s) => r = s

---------------------------------------------------------------------------
(* Refinement *)

StatusOf(id) == IF tasks[id] = NoTask THEN "absent" ELSE info[tasks[id]].Status

Service == INSTANCE TaskService WITH status <- [id \in TaskId |-> StatusOf(id)]

\* The handlers and goroutines together implement the abstract task service.
ServiceSpec == Service!Spec
=============================================================================
