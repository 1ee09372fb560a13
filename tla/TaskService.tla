---------------------------- MODULE TaskService ----------------------------
(***************************************************************************)
(* What the agent promises to the operator that drives it over HTTP, with  *)
(* no handler, goroutine, lock or map in sight: a task identifier is taken *)
(* at most once in the life of the process, a task that was taken is in    *)
(* progress until it ends once, as a success or as a failure, and nothing  *)
(* survives the process, whose tasks are kept in memory only.              *)
(*                                                                         *)
(* TaskServer.tla, the model of server/server.go and task/task.go, is      *)
(* shown to implement this module.                                         *)
(***************************************************************************)
CONSTANT TaskId      \* the identifiers a client may submit

VARIABLES status,    \* what the service knows of every identifier
          up         \* is the process alive?

vars == <<status, up>>

Absent == "absent"
Terminal == {"SUC", "FAIL"}

TypeOK ==
  /\ status \in [TaskId -> {Absent, "PROGRESS"} \cup Terminal]
  /\ up \in BOOLEAN

Init ==
  /\ status = [id \in TaskId |-> Absent]
  /\ up = TRUE

Take(id) ==                       \* a task is accepted and starts at once
  /\ up
  /\ status[id] = Absent
  /\ status' = [status EXCEPT ![id] = "PROGRESS"]
  /\ UNCHANGED up

End(id) ==                        \* it ends, well or badly
  /\ up
  /\ status[id] = "PROGRESS"
  /\ \E s \in Terminal : status' = [status EXCEPT ![id] = s]
  /\ UNCHANGED up

Stop == up /\ up' = FALSE /\ UNCHANGED status

Restart ==                        \* the tasks were in memory only
  /\ ~up
  /\ up' = TRUE
  /\ status' = [id \in TaskId |-> Absent]

Next == (\E id \in TaskId : Take(id) \/ End(id)) \/ Stop \/ Restart

Spec == Init /\ [][Next]_vars
=============================================================================
