--------------------------- MODULE StatisticTask ---------------------------
(***************************************************************************)
(* The first half of a statistic task (memanalysis.dumpRdb) and when its   *)
(* result is published: the node must be a replica, BGSAVE starts a dump,  *)
(* INFO Persistence is polled until no dump is in progress and the status  *)
(* of the last one is looked at, then /data/dump.rdb is analysed and the   *)
(* result replaces the one before.  RdbPipeline.tla models the analysis.   *)
(*                                                                         *)
(* The tasks are goroutines that may overlap (TaskServer.tla says when).   *)
(* The Redis node is external: it runs one dump at a time, of the data as  *)
(* they are when it starts, and replaces the file when it ends well; it    *)
(* dumps on its own too, is restarted, and changes its role.  What a dump  *)
(* holds is named by the number of writes it has seen.                     *)
(***************************************************************************)
EXTENDS Integers

CONSTANTS
  Task,         \* the statistic tasks that run
  MaxWrites,    \* bound: how many writes the node sees
  MaxOwnSaves   \* bound: how many dumps the node starts on its own

ASSUME BoundsAssumption == MaxWrites \in Nat /\ MaxOwnSaves \in Nat

None == -1      \* no dump in progress, no file opened, no result published

VARIABLES
  role,                   \* of the node
  writes,                 \* what the node has seen so far
  ownSaves,               \* the dumps it started on its own
  saving,                 \* rdb_bgsave_in_progress: the writes in that dump
  lastBgsaveStatus,       \* rdb_last_bgsave_status
  rdb,                    \* the writes in /data/dump.rdb
  pc,                     \* where each task is
  opened,                 \* the writes in the file a task has opened
  userAndOverhead,        \* the writes behind the published result
  since,                  \* history: the writes before each task started
  before,                 \* history: the tasks that had ended when t started
  voided                  \* history: tasks whose dump was lost without a trace

nodeVars == <<role, writes, ownSaves, saving, lastBgsaveStatus, rdb>>
history == <<since, before>>
vars == <<nodeVars, pc, opened, userAndOverhead, history, voided>>

TaskState == {"idle", "role", "bgsave", "poll", "open", "publish", "done", "failed"}
Ended == {"done", "failed"}
Amount == 0 .. MaxWrites

TypeOK ==
  /\ role \in {"master", "slave"}
  /\ writes \in Amount
  /\ ownSaves \in 0 .. MaxOwnSaves
  /\ saving \in Amount \cup {None}
  /\ lastBgsaveStatus \in {"ok", "err"}
  /\ rdb \in Amount
  /\ pc \in [Task -> TaskState]
  /\ opened \in [Task -> Amount \cup {None}]
  /\ userAndOverhead \in Amount \cup {None}
  /\ since \in [Task -> Amount]
  /\ before \in [Task -> SUBSET Task]
  /\ voided \in SUBSET Task

Init ==
  /\ role \in {"master", "slave"}
  /\ writes = 0
  /\ ownSaves = 0
  /\ saving = None
  /\ lastBgsaveStatus \in {"ok", "err"}
  /\ rdb = 0
  /\ pc = [t \in Task |-> "idle"]
  /\ opened = [t \in Task |-> None]
  /\ userAndOverhead = None
  /\ since = [t \in Task |-> 0]
  /\ before = [t \in Task |-> {}]
  /\ voided = {}

---------------------------------------------------------------------------
(* The task *)

Goto(t, state) == pc' = [pc EXCEPT ![t] = state]

\* Mutation: the published map is filled in place, and emptied first.
StartClears(t) ==
  /\ pc[t] = "idle"
  /\ Goto(t, "role")
  /\ userAndOverhead' = None
  /\ since' = [since EXCEPT ![t] = writes]
  /\ before' = [before EXCEPT ![t] = {s \in Task : pc[s] \in Ended}]
  /\ UNCHANGED <<nodeVars, opened, voided>>

Start(t) ==
  /\ pc[t] = "idle"
  /\ Goto(t, "role")
  /\ since' = [since EXCEPT ![t] = writes]
  /\ before' = [before EXCEPT ![t] = {s \in Task : pc[s] \in Ended}]
  /\ UNCHANGED <<nodeVars, opened, userAndOverhead, voided>>

\* Mutation: a state of its own for a master.
CheckRoleTerminal(t) ==
  /\ pc[t] = "role"
  /\ Goto(t, IF role = "master" THEN "terminal" ELSE "bgsave")
  /\ UNCHANGED <<nodeVars, opened, userAndOverhead, history, voided>>

\* INFO Replication: a master is left alone.
CheckRole(t) ==
  /\ pc[t] = "role"
  /\ Goto(t, IF role = "master" THEN "failed" ELSE "bgsave")
  /\ UNCHANGED <<nodeVars, opened, userAndOverhead, history, voided>>

\* BGSAVE is refused while a dump is in progress.
BgSave(t) ==
  /\ pc[t] = "bgsave"
  /\ IF saving = None
     THEN saving' = writes /\ Goto(t, "poll")
     ELSE UNCHANGED saving /\ Goto(t, "failed")
  /\ UNCHANGED <<role, writes, ownSaves, lastBgsaveStatus, rdb>>
  /\ UNCHANGED <<opened, userAndOverhead, history, voided>>

\* Mutations of Poll: the status is not looked at, or polled for until it is ok.
PollIgnoresStatus(t) ==
  /\ pc[t] = "poll"
  /\ saving = None
  /\ Goto(t, "open")
  /\ UNCHANGED <<nodeVars, opened, userAndOverhead, history, voided>>

PollUntilOk(t) ==
  /\ pc[t] = "poll"
  /\ saving = None /\ lastBgsaveStatus = "ok"
  /\ Goto(t, "open")
  /\ UNCHANGED <<nodeVars, opened, userAndOverhead, history, voided>>

\* The INFO Persistence that ends the loop also answers the status.  (One that
\* finds the dump in progress changes nothing.)
Poll(t) ==
  /\ pc[t] = "poll"
  /\ saving = None
  /\ Goto(t, IF lastBgsaveStatus = "ok" THEN "open" ELSE "failed")
  /\ UNCHANGED <<nodeVars, opened, userAndOverhead, history, voided>>

\* A command fails; the task ends with its error.
CommandError(t) ==
  /\ pc[t] \in {"role", "bgsave", "poll"}
  /\ Goto(t, "failed")
  /\ UNCHANGED <<nodeVars, opened, userAndOverhead, history, voided>>

\* The file is opened: a dump that replaces it from now on is not seen.
Open(t) ==
  /\ pc[t] = "open"
  /\ opened' = [opened EXCEPT ![t] = rdb]
  /\ Goto(t, "publish")
  /\ UNCHANGED <<nodeVars, userAndOverhead, history, voided>>

\* The analysis is done and replaces the result before it.
Publish(t) ==
  /\ pc[t] = "publish"
  /\ userAndOverhead' = opened[t]
  /\ Goto(t, "done")
  /\ UNCHANGED <<nodeVars, opened, history, voided>>

---------------------------------------------------------------------------
(* The Redis node *)

taskVars == <<pc, opened, userAndOverhead, history>>

Write ==
  /\ writes < MaxWrites
  /\ writes' = writes + 1
  /\ UNCHANGED <<role, ownSaves, saving, lastBgsaveStatus, rdb, taskVars, voided>>

Failover ==
  /\ role' = IF role = "master" THEN "slave" ELSE "master"
  /\ UNCHANGED <<writes, ownSaves, saving, lastBgsaveStatus, rdb, taskVars, voided>>

\* The save points of its configuration, or another client's BGSAVE.
OwnSave ==
  /\ ownSaves < MaxOwnSaves /\ saving = None
  /\ ownSaves' = ownSaves + 1
  /\ saving' = writes
  /\ UNCHANGED <<role, writes, lastBgsaveStatus, rdb, taskVars, voided>>

SaveEnds ==
  /\ saving # None
  /\ \/ lastBgsaveStatus' = "ok" /\ rdb' = saving
     \/ lastBgsaveStatus' = "err" /\ UNCHANGED rdb
  /\ saving' = None
  /\ UNCHANGED <<role, writes, ownSaves, taskVars, voided>>

\* The node is restarted, and does not remember the dump it was writing.
NodeRestart ==
  /\ saving' = None
  /\ lastBgsaveStatus' = "ok"
  /\ voided' = voided \cup {t \in Task : pc[t] = "poll" /\ rdb < since[t]}
  /\ UNCHANGED <<role, writes, ownSaves, rdb, taskVars>>

---------------------------------------------------------------------------
Step(t) == CheckRole(t) \/ BgSave(t) \/ Poll(t) \/ Open(t) \/ Publish(t)

Node == Write \/ Failover \/ OwnSave \/ SaveEnds \/ NodeRestart

Next == (\E t \in Task : Start(t) \/ Step(t) \/ CommandError(t)) \/ Node

Spec == Init /\ [][Next]_vars

\* The goroutines are scheduled, commands are answered, and dumps end; that a
\* command fails is no way out of the loop to count on.
FairSpec == Spec /\ WF_vars(SaveEnds) /\ \A t \in Task : WF_vars(Step(t))

---------------------------------------------------------------------------
\* What a task analyses is no older than the task: its own dump, or a later
\* one that replaced the file, never a file left from before, whatever other
\* tasks and the node's own dumps do to the one status they all poll.  A
\* restart of the node that loses the dump is the only exception.
FreshUnlessVoided ==
  \A t \in Task : opened[t] # None /\ t \notin voided => opened[t] >= since[t]

\* The published result goes back in time only by a task that overlapped the
\* one that published it.
ResultGoesBackByOverlapOnly ==
  [][userAndOverhead' < userAndOverhead =>
       \E s, t \in Task :
         /\ Publish(t)
         /\ pc[s] = "done" /\ opened[s] = userAndOverhead
         /\ s \notin before[t] /\ t \notin before[s]]_vars

\* A task ends: the polling loop is left when the dumps end.
TasksEnd == \A t \in Task : pc[t] = "role" ~> pc[t] \in Ended

---------------------------------------------------------------------------
(* What comments of the code say and the code does not do *)

\* The comment of the loop (memanalysis/memstatistics.go:162): in progress back
\* at 0 means that the BGSAVE is complete, so what is analysed is that dump or
\* a later one.
SnapshotIsFresh == \A t \in Task : opened[t] # None => opened[t] >= since[t]
=============================================================================
