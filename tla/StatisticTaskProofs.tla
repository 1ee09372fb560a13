------------------------ MODULE StatisticTaskProofs ------------------------
(***************************************************************************)
(* Theorems about StatisticTask for any number of tasks, writes and dumps. *)
(*                                                                         *)
(* FreshUnlessVoided is not inductive: while a task polls, the snapshot it *)
(* is waiting for is in the dump in progress, in the file, or lost with an *)
(* error that is still the last status (FreshInv).  That the file never    *)
(* gets older (FileInv) and that the published result is the one of a task *)
(* that is done (OrderInv) give the order of the results.                  *)
(***************************************************************************)
EXTENDS StatisticTask, TLAPS

\* Nothing is newer than the writes; a dump is no older than the file.
FileInv ==
  /\ rdb <= writes
  /\ saving # None => rdb <= saving /\ saving <= writes
  /\ \A t \in Task : since[t] <= writes

\* Which tasks have opened the file; what they opened is no newer than it.
OpenedInv == \A t \in Task :
  /\ pc[t] \in {"publish", "done"} <=> opened[t] # None
  /\ opened[t] # None => opened[t] <= rdb

\* Where a snapshot that is new enough for t is.
FreshInv == \A t \in Task \ voided :
  /\ pc[t] = "poll" /\ saving # None => since[t] <= saving
  /\ pc[t] = "poll" /\ saving = None => lastBgsaveStatus = "err" \/ since[t] <= rdb
  /\ pc[t] = "open" => since[t] <= rdb
  /\ opened[t] # None => since[t] <= opened[t]

OrderInv ==
  /\ \A s, t \in Task : s \in before[t] => pc[s] \in Ended
  /\ \A s, t \in Task :
       s \in before[t] /\ pc[s] = "done" /\ opened[t] # None => opened[s] <= opened[t]
  /\ userAndOverhead # None =>
       \E s \in Task : pc[s] = "done" /\ opened[s] = userAndOverhead

IInv == TypeOK /\ FileInv /\ OpenedInv /\ FreshInv /\ OrderInv

---------------------------------------------------------------------------
(* Every action preserves IInv *)

\* Start preserves the invariant.
LEMMA StartKeeps ==
  ASSUME IInv, NEW t \in Task, Start(t)
  PROVE  IInv'
<1>1. TypeOK'
  BY BoundsAssumption DEF IInv, Start, Goto, nodeVars,
     TypeOK, TaskState, Amount, None
<1>2. FileInv'
  BY BoundsAssumption DEF IInv, Start, Goto, nodeVars,
     TypeOK, Amount, None, FileInv
<1>3. OpenedInv'
  BY BoundsAssumption DEF IInv, Start, Goto, nodeVars,
     TypeOK, Amount, None, OpenedInv, FileInv
<1>4. FreshInv'
  BY BoundsAssumption DEF IInv, Start, Goto, nodeVars,
     TypeOK, Amount, None, OpenedInv, FileInv, FreshInv
<1>5. OrderInv'
  BY BoundsAssumption DEF IInv, Start, Goto, nodeVars,
     TypeOK, Amount, None, OpenedInv, OrderInv, Ended
<1> QED
  BY <1>1, <1>2, <1>3, <1>4, <1>5 DEF IInv

\* CheckRole preserves the invariant.
LEMMA CheckRoleKeeps ==
  ASSUME IInv, NEW t \in Task, CheckRole(t)
  PROVE  IInv'
<1>1. TypeOK'
  BY BoundsAssumption DEF IInv, CheckRole, Goto, nodeVars, history,
     TypeOK, TaskState, Amount, None
<1>2. FileInv'
  BY BoundsAssumption DEF IInv, CheckRole, Goto, nodeVars, history,
     TypeOK, Amount, None, FileInv
<1>3. OpenedInv'
  BY BoundsAssumption DEF IInv, CheckRole, Goto, nodeVars, history,
     TypeOK, Amount, None, OpenedInv, FileInv
<1>4. FreshInv'
  BY BoundsAssumption DEF IInv, CheckRole, Goto, nodeVars, history,
     TypeOK, Amount, None, OpenedInv, FileInv, FreshInv
<1>5. OrderInv'
  BY BoundsAssumption DEF IInv, CheckRole, Goto, nodeVars, history,
     TypeOK, Amount, None, OpenedInv, OrderInv, Ended
<1> QED
  BY <1>1, <1>2, <1>3, <1>4, <1>5 DEF IInv

\* BgSave preserves the invariant.
LEMMA BgSaveKeeps ==
  ASSUME IInv, NEW t \in Task, BgSave(t)
  PROVE  IInv'
<1>1. TypeOK'
  BY BoundsAssumption DEF IInv, BgSave, Goto, nodeVars, history,
     TypeOK, TaskState, Amount, None
<1>2. FileInv'
  BY BoundsAssumption DEF IInv, BgSave, Goto, nodeVars, history,
     TypeOK, Amount, None, FileInv
<1>3. OpenedInv'
  BY BoundsAssumption DEF IInv, BgSave, Goto, nodeVars, history,
     TypeOK, Amount, None, OpenedInv, FileInv
<1>4. FreshInv'
  BY BoundsAssumption DEF IInv, BgSave, Goto, nodeVars, history,
     TypeOK, Amount, None, OpenedInv, FileInv, FreshInv
<1>5. OrderInv'
  BY BoundsAssumption DEF IInv, BgSave, Goto, nodeVars, history,
     TypeOK, Amount, None, OpenedInv, OrderInv, Ended
<1> QED
  BY <1>1, <1>2, <1>3, <1>4, <1>5 DEF IInv

\* Poll preserves the invariant.
LEMMA PollKeeps ==
  ASSUME IInv, NEW t \in Task, Poll(t)
  PROVE  IInv'
<1>1. TypeOK'
  BY BoundsAssumption DEF IInv, Poll, Goto, nodeVars, history,
     TypeOK, TaskState, Amount, None
<1>2. FileInv'
  BY BoundsAssumption DEF IInv, Poll, Goto, nodeVars, history,
     TypeOK, Amount, None, FileInv
<1>3. OpenedInv'
  BY BoundsAssumption DEF IInv, Poll, Goto, nodeVars, history,
     TypeOK, Amount, None, OpenedInv, FileInv
<1>4. FreshInv'
  BY BoundsAssumption DEF IInv, Poll, Goto, nodeVars, history,
     TypeOK, Amount, None, OpenedInv, FileInv, FreshInv
<1>5. OrderInv'
  BY BoundsAssumption DEF IInv, Poll, Goto, nodeVars, history,
     TypeOK, Amount, None, OpenedInv, OrderInv, Ended
<1> QED
  BY <1>1, <1>2, <1>3, <1>4, <1>5 DEF IInv

\* CommandError preserves the invariant.
LEMMA CommandErrorKeeps ==
  ASSUME IInv, NEW t \in Task, CommandError(t)
  PROVE  IInv'
<1>1. TypeOK'
  BY BoundsAssumption DEF IInv, CommandError, Goto, nodeVars, history,
     TypeOK, TaskState, Amount, None
<1>2. FileInv'
  BY BoundsAssumption DEF IInv, CommandError, Goto, nodeVars, history,
     TypeOK, Amount, None, FileInv
<1>3. OpenedInv'
  BY BoundsAssumption DEF IInv, CommandError, Goto, nodeVars, history,
     TypeOK, Amount, None, OpenedInv, FileInv
<1>4. FreshInv'
  BY BoundsAssumption DEF IInv, CommandError, Goto, nodeVars, history,
     TypeOK, Amount, None, OpenedInv, FileInv, FreshInv
<1>5. OrderInv'
  BY BoundsAssumption DEF IInv, CommandError, Goto, nodeVars, history,
     TypeOK, Amount, None, OpenedInv, OrderInv, Ended
<1> QED
  BY <1>1, <1>2, <1>3, <1>4, <1>5 DEF IInv

\* Open preserves the invariant.
LEMMA OpenKeeps ==
  ASSUME IInv, NEW t \in Task, Open(t)
  PROVE  IInv'
<1>1. TypeOK'
  BY BoundsAssumption DEF IInv, Open, Goto, nodeVars, history,
     TypeOK, TaskState, Amount, None
<1>2. FileInv'
  BY BoundsAssumption DEF IInv, Open, Goto, nodeVars, history,
     TypeOK, Amount, None, FileInv
<1>3. OpenedInv'
  BY BoundsAssumption DEF IInv, Open, Goto, nodeVars, history,
     TypeOK, Amount, None, OpenedInv, FileInv
<1>4. FreshInv'
  BY BoundsAssumption DEF IInv, Open, Goto, nodeVars, history,
     TypeOK, Amount, None, OpenedInv, FileInv, FreshInv
<1>5. OrderInv'
  BY BoundsAssumption DEF IInv, Open, Goto, nodeVars, history,
     TypeOK, Amount, None, OpenedInv, OrderInv, Ended
<1> QED
  BY <1>1, <1>2, <1>3, <1>4, <1>5 DEF IInv

\* Publish preserves the invariant.
LEMMA PublishKeeps ==
  ASSUME IInv, NEW t \in Task, Publish(t)
  PROVE  IInv'
<1>1. TypeOK'
  BY BoundsAssumption DEF IInv, Publish, Goto, nodeVars, history,
     TypeOK, TaskState, Amount, None
<1>2. FileInv'
  BY BoundsAssumption DEF IInv, Publish, Goto, nodeVars, history,
     TypeOK, Amount, None, FileInv
<1>3. OpenedInv'
  BY BoundsAssumption DEF IInv, Publish, Goto, nodeVars, history,
     TypeOK, Amount, None, OpenedInv, FileInv
<1>4. FreshInv'
  BY BoundsAssumption DEF IInv, Publish, Goto, nodeVars, history,
     TypeOK, Amount, None, OpenedInv, FileInv, FreshInv
<1>5. OrderInv'
  BY BoundsAssumption DEF IInv, Publish, Goto, nodeVars, history,
     TypeOK, Amount, None, OpenedInv, OrderInv, Ended
<1> QED
  BY <1>1, <1>2, <1>3, <1>4, <1>5 DEF IInv

\* Write preserves the invariant.
LEMMA WriteKeeps ==
  ASSUME IInv, Write
  PROVE  IInv'
<1>1. TypeOK'
  BY BoundsAssumption DEF IInv, Write, taskVars, history,
     TypeOK, TaskState, Amount, None
<1>2. FileInv'
  BY BoundsAssumption DEF IInv, Write, taskVars, history,
     TypeOK, Amount, None, FileInv
<1>3. OpenedInv'
  BY BoundsAssumption DEF IInv, Write, taskVars, history,
     TypeOK, Amount, None, OpenedInv, FileInv
<1>4. FreshInv'
  BY BoundsAssumption DEF IInv, Write, taskVars, history,
     TypeOK, Amount, None, OpenedInv, FileInv, FreshInv
<1>5. OrderInv'
  BY BoundsAssumption DEF IInv, Write, taskVars, history,
     TypeOK, Amount, None, OpenedInv, OrderInv, Ended
<1> QED
  BY <1>1, <1>2, <1>3, <1>4, <1>5 DEF IInv

\* Failover preserves the invariant.
LEMMA FailoverKeeps ==
  ASSUME IInv, Failover
  PROVE  IInv'
<1>1. TypeOK'
  BY BoundsAssumption DEF IInv, Failover, taskVars, history,
     TypeOK, TaskState, Amount, None
<1>2. FileInv'
  BY BoundsAssumption DEF IInv, Failover, taskVars, history,
     TypeOK, Amount, None, FileInv
<1>3. OpenedInv'
  BY BoundsAssumption DEF IInv, Failover, taskVars, history,
     TypeOK, Amount, None, OpenedInv, FileInv
<1>4. FreshInv'
  BY BoundsAssumption DEF IInv, Failover, taskVars, history,
     TypeOK, Amount, None, OpenedInv, FileInv, FreshInv
<1>5. OrderInv'
  BY BoundsAssumption DEF IInv, Failover, taskVars, history,
     TypeOK, Amount, None, OpenedInv, OrderInv, Ended
<1> QED
  BY <1>1, <1>2, <1>3, <1>4, <1>5 DEF IInv

\* OwnSave preserves the invariant.
LEMMA OwnSaveKeeps ==
  ASSUME IInv, OwnSave
  PROVE  IInv'
<1>1. TypeOK'
  BY BoundsAssumption DEF IInv, OwnSave, taskVars, history,
     TypeOK, TaskState, Amount, None
<1>2. FileInv'
  BY BoundsAssumption DEF IInv, OwnSave, taskVars, history,
     TypeOK, Amount, None, FileInv
<1>3. OpenedInv'
  BY BoundsAssumption DEF IInv, OwnSave, taskVars, history,
     TypeOK, Amount, None, OpenedInv, FileInv
<1>4. FreshInv'
  BY BoundsAssumption DEF IInv, OwnSave, taskVars, history,
     TypeOK, Amount, None, OpenedInv, FileInv, FreshInv
<1>5. OrderInv'
  BY BoundsAssumption DEF IInv, OwnSave, taskVars, history,
     TypeOK, Amount, None, OpenedInv, OrderInv, Ended
<1> QED
  BY <1>1, <1>2, <1>3, <1>4, <1>5 DEF IInv

\* SaveEnds preserves the invariant.
LEMMA SaveEndsKeeps ==
  ASSUME IInv, SaveEnds
  PROVE  IInv'
<1>1. TypeOK'
  BY BoundsAssumption DEF IInv, SaveEnds, taskVars, history,
     TypeOK, TaskState, Amount, None
<1>2. FileInv'
  BY BoundsAssumption DEF IInv, SaveEnds, taskVars, history,
     TypeOK, Amount, None, FileInv
<1>3. OpenedInv'
  BY BoundsAssumption DEF IInv, SaveEnds, taskVars, history,
     TypeOK, Amount, None, OpenedInv, FileInv
<1>4. FreshInv'
  BY BoundsAssumption DEF IInv, SaveEnds, taskVars, history,
     TypeOK, Amount, None, OpenedInv, FileInv, FreshInv
<1>5. OrderInv'
  BY BoundsAssumption DEF IInv, SaveEnds, taskVars, history,
     TypeOK, Amount, None, OpenedInv, OrderInv, Ended
<1> QED
  BY <1>1, <1>2, <1>3, <1>4, <1>5 DEF IInv

\* NodeRestart preserves the invariant.
LEMMA NodeRestartKeeps ==
  ASSUME IInv, NodeRestart
  PROVE  IInv'
<1>1. TypeOK'
  BY BoundsAssumption DEF IInv, NodeRestart, taskVars, history,
     TypeOK, TaskState, Amount, None
<1>2. FileInv'
  BY BoundsAssumption DEF IInv, NodeRestart, taskVars, history,
     TypeOK, Amount, None, FileInv
<1>3. OpenedInv'
  BY BoundsAssumption DEF IInv, NodeRestart, taskVars, history,
     TypeOK, Amount, None, OpenedInv, FileInv
<1>4. FreshInv'
  BY BoundsAssumption DEF IInv, NodeRestart, taskVars, history,
     TypeOK, Amount, None, OpenedInv, FileInv, FreshInv
<1>5. OrderInv'
  BY BoundsAssumption DEF IInv, NodeRestart, taskVars, history,
     TypeOK, Amount, None, OpenedInv, OrderInv, Ended
<1> QED
  BY <1>1, <1>2, <1>3, <1>4, <1>5 DEF IInv

\* A stuttering step preserves the invariant.
LEMMA StutterKeeps ==
  ASSUME IInv, UNCHANGED vars
  PROVE  IInv'
<1>1. TypeOK'
  BY BoundsAssumption DEF IInv, vars, nodeVars, history,
     TypeOK, TaskState, Amount, None
<1>2. FileInv'
  BY BoundsAssumption DEF IInv, vars, nodeVars, history,
     TypeOK, Amount, None, FileInv
<1>3. OpenedInv'
  BY BoundsAssumption DEF IInv, vars, nodeVars, history,
     TypeOK, Amount, None, OpenedInv, FileInv
<1>4. FreshInv'
  BY BoundsAssumption DEF IInv, vars, nodeVars, history,
     TypeOK, Amount, None, OpenedInv, FileInv, FreshInv
<1>5. OrderInv'
  BY BoundsAssumption DEF IInv, vars, nodeVars, history,
     TypeOK, Amount, None, OpenedInv, OrderInv, Ended
<1> QED
  BY <1>1, <1>2, <1>3, <1>4, <1>5 DEF IInv

\* The initial states satisfy the invariant.
LEMMA InitHolds == Init => IInv
BY BoundsAssumption DEF Init, IInv, TypeOK, FileInv, OpenedInv, FreshInv, OrderInv,
   TaskState, Amount, None, Ended

\* The invariant is inductive: every step of Next preserves it.
LEMMA NextKeeps ==
  ASSUME IInv, [Next]_vars
  PROVE  IInv'
<1>1. ASSUME NEW t \in Task, Start(t) \/ Step(t) \/ CommandError(t)
      PROVE  IInv'
  BY <1>1, StartKeeps, CheckRoleKeeps, BgSaveKeeps, PollKeeps, CommandErrorKeeps,
     OpenKeeps, PublishKeeps DEF Step
<1>2. CASE Node
  BY <1>2, WriteKeeps, FailoverKeeps, OwnSaveKeeps, SaveEndsKeeps, NodeRestartKeeps
     DEF Node
<1>3. CASE UNCHANGED vars
  BY <1>3, StutterKeeps
<1> QED
  BY <1>1, <1>2, <1>3 DEF Next

---------------------------------------------------------------------------
\* The inductive invariant holds in every reachable state.
THEOREM InvariantHolds == Spec => []IInv
<1>1. Init => IInv
  BY InitHolds
<1>2. IInv /\ [Next]_vars => IInv'
  BY NextKeeps
<1> QED
  BY <1>1, <1>2, PTL DEF Spec

\* The node, the tasks and the published result keep their types.
THEOREM TypeCorrect == Spec => []TypeOK
<1>1. IInv => TypeOK
  BY DEF IInv
<1> QED
  BY <1>1, InvariantHolds, PTL

\* What dumpRdb leaves for the analysis is as new as the task that asked for
\* it, unless a restart of the node lost its dump.
THEOREM SnapshotsAreFresh == Spec => []FreshUnlessVoided
<1>1. IInv => FreshUnlessVoided
  BY BoundsAssumption DEF IInv, FreshInv, FreshUnlessVoided, TypeOK, Amount, None
<1> QED
  BY <1>1, InvariantHolds, PTL

\* A step that makes the published result older is the Publish of a task that
\* overlapped the one that published before.
LEMMA OnlyOverlapGoesBack ==
  ASSUME IInv, [Next]_vars, userAndOverhead' < userAndOverhead
  PROVE  \E s, t \in Task :
           /\ Publish(t)
           /\ pc[s] = "done" /\ opened[s] = userAndOverhead
           /\ s \notin before[t] /\ t \notin before[s]
<1>1. userAndOverhead' # userAndOverhead
  BY BoundsAssumption DEF IInv, TypeOK, Amount, None
<1>2. PICK t \in Task : Publish(t)
  BY <1>1 DEF Next, Step, Node, Start, CheckRole, BgSave, Poll, CommandError, Open,
     Write, Failover, OwnSave, SaveEnds, NodeRestart, taskVars, vars
<1>3. opened[t] \in Amount /\ userAndOverhead' = opened[t] /\ pc[t] = "publish"
  BY <1>2 DEF Publish, IInv, TypeOK, OpenedInv
<1>4. userAndOverhead # None
  BY <1>3, BoundsAssumption DEF Amount, None
<1>5. PICK s \in Task : pc[s] = "done" /\ opened[s] = userAndOverhead
  BY <1>4 DEF IInv, OrderInv
<1>6. s \notin before[t]
  <2>1. ASSUME s \in before[t]
        PROVE  opened[s] <= opened[t]
    BY <2>1, <1>3, <1>5, BoundsAssumption DEF IInv, OrderInv, Amount, None
  <2> QED
    BY <2>1, <1>3, <1>5, BoundsAssumption DEF IInv, TypeOK, Amount, None
<1>7. t \notin before[s]
  BY <1>3 DEF IInv, OrderInv, Ended
<1> QED
  BY <1>2, <1>5, <1>6, <1>7

\* The published result goes back in time only by overlapping tasks.
THEOREM ResultsAdvance == Spec => ResultGoesBackByOverlapOnly
<1>1. IInv /\ [Next]_vars =>
        [userAndOverhead' < userAndOverhead =>
           \E s, t \in Task :
             /\ Publish(t)
             /\ pc[s] = "done" /\ opened[s] = userAndOverhead
             /\ s \notin before[t] /\ t \notin before[s]]_vars
  BY OnlyOverlapGoesBack
<1> QED
  BY <1>1, InvariantHolds, PTL DEF Spec, ResultGoesBackByOverlapOnly
=============================================================================
