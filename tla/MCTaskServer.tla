--------------------------- MODULE MCTaskServer ---------------------------
(* Instances of TaskServer for TLC. *)
EXTENDS TaskServer, TLC

CONSTANTS r1, r2, r3, q1, q2

\* Two identifiers, so that two POSTs can collide on one and two statistic
\* tasks can also be created under different ones.
MCTaskId == {1, 2}

MCBody ==
  {[id |-> i, type |-> "STATISTIC", param |-> "good"] : i \in MCTaskId} \cup
  {[id |-> 1, type |-> "CLEAN", param |-> "unparsable"],
   [id |-> 2, type |-> "GENERATE", param |-> "countOutOfRange"],
   [id |-> 2, type |-> "GENERATE", param |-> "illegalRedisType"],
   [id |-> 1, type |-> "OTHER", param |-> "good"]}

\* Fewer bodies for the temporal run: both POSTs may still carry the same one.
MCLiveBody ==
  {[id |-> 1, type |-> "STATISTIC", param |-> "good"],
   [id |-> 2, type |-> "CLEAN", param |-> "good"]}

\* Handlers of one kind are interchangeable.
Symmetry == Permutations({r1, r2, r3}) \cup Permutations({q1, q2})
=============================================================================
