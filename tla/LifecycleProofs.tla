-------------------------- MODULE LifecycleProofs --------------------------
(***************************************************************************)
(* Proofs about Lifecycle, for any number of requests and keys.            *)
(*                                                                         *)
(* The inductive invariant says who is inside the two getters and holds    *)
(* their lock, that a pointer counts the clients created, and what is      *)
(* known at each point of Shutdown and of a task's loop.                   *)
(***************************************************************************)
EXTENDS Lifecycle, TLAPS

\* The lock belongs to the caller that is past Lock, and only a caller that
\* is at a call is in the slow path.
LockOK ==
  \A c \in Callers :
    /\ getter[c] = "hold" <=> lock = c
    /\ getter[c] # "idle" => Calls(c)

\* A pointer is assigned once: it is nil or the first client.
ClientOK == \A k \in Kinds : client[k] = made[k] /\ made[k] \in {0, 1}

Made(k) == made[k] = 1
Shut(k) == made[k] = 1 /\ <<k, 1>> \in closed

\* What Shutdown has done at each of its points.
ShutdownOK ==
  /\ main = "close redis" => handle[Main] = 1 /\ Made("redis")
  /\ main \in {"get cluster", "close cluster", "close listener", "drain"} => Shut("redis")
  /\ main = "close cluster" => handle[Main] = 1 /\ Made("cluster")
  /\ main \in {"close listener", "drain"} => Shut("cluster")
  /\ exit \in {"exit ok", "exit error"} => Shut("redis") /\ Shut("cluster")

Below(n) == {i \in 0 .. Count : i < n}

\* A task that has not failed has written the keys before the next one; it
\* does not exist before its request has created it.
TaskOK ==
  \A r \in Requests :
    /\ task[r] # "fail" => written[r] = Below(next[r])
    /\ task[r] = "suc" => next[r] = Count
    /\ request[r] \in {"none", "open"} => task[r] = "none"

IInv == TypeOK /\ LockOK /\ ClientOK /\ ShutdownOK /\ TaskOK
---------------------------------------------------------------------------
(* Cases *)

\* The steps of Next, the calls of main and of the tasks taken together.
LEMMA StepCases ==
  ASSUME [Next]_vars
  PROVE  \/ StartFails \/ StartOk \/ Notify \/ SelectError \/ SelectSignal
         \/ CloseRedis \/ CloseCluster \/ CloseListener \/ Drained \/ DrainTimeout
         \/ ServeFails \/ Signal
         \/ \E c \in Callers : FindClient(c) \/ MissClient(c) \/ LockClients(c) \/ CreateClient(c)
         \/ \E r \in Requests :
              \/ Accept(r) \/ Spawn(r) \/ Answer(r)
              \/ WriteKey(r) \/ WriteError(r) \/ FinishTask(r)
         \/ UNCHANGED vars
BY DEF Next, MainStep, Shutdown, GetClient, TaskStep, Callers


\* One more key: it is in range and all that was added.
LEMMA NextKey ==
  ASSUME NEW n \in 0 .. Count, n < Count
  PROVE  n + 1 \in 0 .. Count /\ Below(n + 1) = Below(n) \cup {n}
<1>1. n + 1 \in 0 .. Count
  BY CountAssumption
<1>2. ASSUME NEW i \in 0 .. Count
      PROVE  i < n + 1 <=> i < n \/ i = n
  BY CountAssumption
<1> QED
  BY <1>1, <1>2 DEF Below

\* The first client of a kind is a pair that closed may hold.
LEMMA FirstClient == \A k \in {"redis", "cluster"} : <<k, 1>> \in {"redis", "cluster"} \X (Nat \ {0})
OBVIOUS

\* Either way out of a getter returns the one client there is.
LEMMA GetterReturns ==
  ASSUME TypeOK, ClientOK, NEW c \in Callers, FindClient(c) \/ CreateClient(c)
  PROVE  /\ KindFor(c) \in Kinds
         /\ made' = [made EXCEPT ![KindFor(c)] = 1]
         /\ client' = [client EXCEPT ![KindFor(c)] = 1]
         /\ Return(c, 1)
<1> DEFINE k == KindFor(c)
<1>1. k \in Kinds
  BY DEF KindFor, Kinds
<1>2. made \in [Kinds -> Nat] /\ client \in [Kinds -> Nat]
  BY DEF TypeOK
<1>3. client[k] = made[k] /\ made[k] \in {0, 1}
  BY <1>1 DEF ClientOK
<1> HIDE DEF k
<1>4. CASE made[k] = 1 /\ made' = made /\ client' = client
  <2>1. made' = [made EXCEPT ![k] = 1] /\ client' = [client EXCEPT ![k] = 1]
    BY <1>1, <1>2, <1>3, <1>4
  <2>2. client[k] = 1 /\ client'[k] = 1
    BY <1>3, <1>4
  <2>3. Return(c, client[k]) \/ Return(c, client'[k])
    BY DEF FindClient, CreateClient, k
  <2>4. Return(c, 1)
    BY <2>2, <2>3
  <2> QED
    BY <1>1, <2>1, <2>4 DEF k
<1>5. CASE made[k] = 0 /\ CreateClient(c)
  <2>1. made' = [made EXCEPT ![k] = @ + 1] /\ client' = [client EXCEPT ![k] = made[k] + 1]
    BY <1>3, <1>5 DEF CreateClient, k
  <2>2. made' = [made EXCEPT ![k] = 1] /\ client' = [client EXCEPT ![k] = 1]
    BY <1>5, <2>1
  <2>3. client'[k] = 1
    BY <1>1, <1>2, <2>2
  <2>4. Return(c, client'[k])
    BY <1>5 DEF CreateClient, k
  <2>5. Return(c, 1)
    BY <2>3, <2>4
  <2> QED
    BY <1>1, <2>2, <2>5 DEF k
<1>6. (made[k] = 1 /\ made' = made /\ client' = client) \/ (made[k] = 0 /\ CreateClient(c))
  <2>1. CASE FindClient(c)
    <3>1. client[k] # 0 /\ made' = made /\ client' = client
      BY <2>1 DEF FindClient, k
    <3> QED
      BY <1>3, <3>1
  <2>2. CASE CreateClient(c)
    BY <1>3, <2>2 DEF CreateClient, k
  <2> QED
    BY <2>1, <2>2
<1> QED
  BY <1>4, <1>5, <1>6

---------------------------------------------------------------------------
(* One lemma for each part of the invariant *)

\* Every step keeps the types.
LEMMA TypeStep == IInv /\ [Next]_vars => TypeOK'
<1> SUFFICES ASSUME IInv, [Next]_vars PROVE TypeOK'
  OBVIOUS
<1> USE NamesAssumption, CountAssumption DEF IInv, TypeOK, ClientOK, Kinds, Callers, Running, LockOK
<1>1. CASE StartFails
  BY <1>1 DEF StartFails, Exit, processVars, taskVars, clientVars
<1>2. CASE StartOk
  BY <1>2 DEF StartOk, processVars, taskVars, clientVars
<1>3. CASE Notify
  BY <1>3 DEF Notify, processVars, taskVars, clientVars
<1>4. CASE SelectError
  BY <1>4 DEF SelectError, Exit, processVars, taskVars, clientVars
<1>5. CASE SelectSignal
  BY <1>5 DEF SelectSignal, processVars, taskVars, clientVars
<1>6. CASE CloseRedis
  <2>1. handle[Main] = 1
    BY <1>6 DEF CloseRedis, ShutdownOK
  <2>2. closed' = closed \cup {<<"redis", 1>>}
    BY <1>6, <2>1 DEF CloseRedis
  <2>4. <<"redis", 1>> \in Kinds \X (Nat \ {0})
    BY FirstClient
  <2>5. closed' \subseteq Kinds \X (Nat \ {0})
    BY <2>2, <2>4
  <2>3. main # "done" /\ main' # "done"
    BY <1>6 DEF CloseRedis
  <2> QED
    BY <1>6, <2>3, <2>5 DEF CloseRedis, processVars, taskVars, clientVars
<1>7. CASE CloseCluster
  <2>1. handle[Main] = 1
    BY <1>7 DEF CloseCluster, ShutdownOK
  <2>2. closed' = closed \cup {<<"cluster", 1>>}
    BY <1>7, <2>1 DEF CloseCluster
  <2>4. <<"cluster", 1>> \in Kinds \X (Nat \ {0})
    BY FirstClient
  <2>5. closed' \subseteq Kinds \X (Nat \ {0})
    BY <2>2, <2>4
  <2>3. main # "done" /\ main' # "done"
    BY <1>7 DEF CloseCluster
  <2> QED
    BY <1>7, <2>3, <2>5 DEF CloseCluster, processVars, taskVars, clientVars
<1>8. CASE CloseListener
  BY <1>8 DEF CloseListener, processVars, taskVars, clientVars
<1>9. CASE Drained
  BY <1>9 DEF Drained, Exit, processVars, taskVars, clientVars
<1>10. CASE DrainTimeout
  BY <1>10 DEF DrainTimeout, Exit, processVars, taskVars, clientVars
<1>11. CASE ServeFails
  BY <1>11 DEF ServeFails, processVars, taskVars, clientVars
<1>12. CASE Signal
  BY <1>12 DEF Signal, Exit, processVars, taskVars, clientVars
<1>13. ASSUME NEW c \in Callers, FindClient(c) PROVE TypeOK'
  <2>1. /\ KindFor(c) \in Kinds
        /\ made' = [made EXCEPT ![KindFor(c)] = 1]
        /\ client' = [client EXCEPT ![KindFor(c)] = 1]
        /\ Return(c, 1)
    BY <1>13, GetterReturns
  <2>2. client' \in [Kinds -> Nat] /\ made' \in [Kinds -> Nat] /\ handle' \in [Callers -> Nat]
    BY <2>1 DEF Return
  <2>3. getter' \in [Callers -> {"idle", "wait", "hold"}]
    BY <2>1 DEF Return
  <2>4. CASE c = Main
    <3>1. main' \in {"close redis", "close cluster"} /\ UNCHANGED <<task, exit>> /\ exit = "none"
      BY <1>13, <2>1, <2>4 DEF Return, CreateClient, FindClient
    <3> QED
      BY <1>13, <2>1, <2>2, <2>3, <3>1 DEF Return, CreateClient, FindClient
  <2>5. CASE c # Main
    <3>1. task' \in [Requests -> {"none", "start", "write", "suc", "fail"}] /\ UNCHANGED main
      BY <2>1, <2>5 DEF Return
    <3> QED
      BY <1>13, <2>1, <2>2, <2>3, <3>1 DEF Return, CreateClient, FindClient
  <2> QED
    BY <2>4, <2>5
<1>14. ASSUME NEW c \in Callers, MissClient(c) PROVE TypeOK'
  BY <1>14 DEF MissClient, Callers, Calls, KindFor, processVars, taskVars
<1>15. ASSUME NEW c \in Callers, LockClients(c) PROVE TypeOK'
  BY <1>15 DEF LockClients, Callers, Calls, KindFor, processVars, taskVars
<1>16. ASSUME NEW c \in Callers, CreateClient(c) PROVE TypeOK'
  <2>1. /\ KindFor(c) \in Kinds
        /\ made' = [made EXCEPT ![KindFor(c)] = 1]
        /\ client' = [client EXCEPT ![KindFor(c)] = 1]
        /\ Return(c, 1)
    BY <1>16, GetterReturns
  <2>2. client' \in [Kinds -> Nat] /\ made' \in [Kinds -> Nat] /\ handle' \in [Callers -> Nat]
    BY <2>1 DEF Return
  <2>3. getter' \in [Callers -> {"idle", "wait", "hold"}]
    BY <2>1 DEF Return
  <2>4. CASE c = Main
    <3>1. main' \in {"close redis", "close cluster"} /\ UNCHANGED <<task, exit>> /\ exit = "none"
      BY <1>16, <2>1, <2>4 DEF Return, CreateClient, FindClient
    <3> QED
      BY <1>16, <2>1, <2>2, <2>3, <3>1 DEF Return, CreateClient, FindClient
  <2>5. CASE c # Main
    <3>1. task' \in [Requests -> {"none", "start", "write", "suc", "fail"}] /\ UNCHANGED main
      BY <2>1, <2>5 DEF Return
    <3> QED
      BY <1>16, <2>1, <2>2, <2>3, <3>1 DEF Return, CreateClient, FindClient
  <2> QED
    BY <2>4, <2>5
<1>17. ASSUME NEW r \in Requests, Accept(r) PROVE TypeOK'
  BY <1>17 DEF Accept, processVars, clientVars
<1>18. ASSUME NEW r \in Requests, Spawn(r) PROVE TypeOK'
  BY <1>18 DEF Spawn, processVars, clientVars
<1>19. ASSUME NEW r \in Requests, Answer(r) PROVE TypeOK'
  BY <1>19 DEF Answer, processVars, clientVars
<1>20. ASSUME NEW r \in Requests, WriteKey(r) PROVE TypeOK'
  <2>1. next[r] \in 0 .. Count /\ next[r] < Count
    BY <1>20 DEF WriteKey
  <2>2. next[r] + 1 \in 0 .. Count
    BY <2>1, NextKey
  <2>3. next' \in [Requests -> 0 .. Count]
    BY <1>20, <2>2 DEF WriteKey
  <2>4. written[r] \in SUBSET (0 .. Count)
    OBVIOUS
  <2>5. written[r] \cup {next[r]} \in SUBSET (0 .. Count)
    BY <2>1, <2>4
  <2>6. written' \in [Requests -> SUBSET (0 .. Count)]
    BY <1>20, <2>5 DEF WriteKey
  <2> QED
    BY <1>20, <2>3, <2>6 DEF WriteKey, processVars, clientVars
<1>21. ASSUME NEW r \in Requests, WriteError(r) PROVE TypeOK'
  <2>1. task' \in [Requests -> {"none", "start", "write", "suc", "fail"}]
    BY <1>21 DEF WriteError
  <2>2. next[r] \in 0 .. Count
    OBVIOUS
  <2>3. written[r] \in SUBSET (0 .. Count)
    OBVIOUS
  <2>4. written[r] \cup {next[r]} \in SUBSET (0 .. Count)
    BY <2>2, <2>3
  <2>5. written' = written \/ written' = [written EXCEPT ![r] = written[r] \cup {next[r]}]
    BY <1>21 DEF WriteError
  <2>6. CASE written' = written
    BY <1>21, <2>1, <2>6 DEF WriteError, processVars, clientVars
  <2>7. CASE written' = [written EXCEPT ![r] = written[r] \cup {next[r]}]
    <3>1. written' \in [Requests -> SUBSET (0 .. Count)]
      BY <2>4, <2>7
    <3> QED
      BY <1>21, <2>1, <3>1 DEF WriteError, processVars, clientVars
  <2> QED
    BY <2>5, <2>6, <2>7
<1>22. ASSUME NEW r \in Requests, FinishTask(r) PROVE TypeOK'
  BY <1>22 DEF FinishTask, processVars, clientVars
<1>23. CASE UNCHANGED vars
  BY <1>23 DEF vars, processVars, taskVars, clientVars
<1> QED
  BY <1>1, <1>2, <1>3, <1>4, <1>5, <1>6, <1>7, <1>8, <1>9, <1>10, <1>11, <1>12, <1>13, <1>14, <1>15, <1>16, <1>17, <1>18, <1>19, <1>20, <1>21, <1>22, <1>23, StepCases

\* Every step keeps the lock with the one caller inside it.
LEMMA LockStep == IInv /\ [Next]_vars => LockOK'
<1> SUFFICES ASSUME IInv, [Next]_vars PROVE LockOK'
  OBVIOUS
<1> USE NamesAssumption, CountAssumption DEF IInv, TypeOK, LockOK, Callers, Calls
<1>1. CASE StartFails
  BY <1>1 DEF StartFails, Exit, processVars, taskVars, clientVars
<1>2. CASE StartOk
  BY <1>2 DEF StartOk, processVars, taskVars, clientVars
<1>3. CASE Notify
  BY <1>3 DEF Notify, processVars, taskVars, clientVars
<1>4. CASE SelectError
  BY <1>4 DEF SelectError, Exit, processVars, taskVars, clientVars
<1>5. CASE SelectSignal
  BY <1>5 DEF SelectSignal, processVars, taskVars, clientVars
<1>6. CASE CloseRedis
  BY <1>6 DEF CloseRedis, processVars, taskVars, clientVars
<1>7. CASE CloseCluster
  BY <1>7 DEF CloseCluster, processVars, taskVars, clientVars
<1>8. CASE CloseListener
  BY <1>8 DEF CloseListener, processVars, taskVars, clientVars
<1>9. CASE Drained
  BY <1>9 DEF Drained, Exit, processVars, taskVars, clientVars
<1>10. CASE DrainTimeout
  BY <1>10 DEF DrainTimeout, Exit, processVars, taskVars, clientVars
<1>11. CASE ServeFails
  BY <1>11 DEF ServeFails, processVars, taskVars, clientVars
<1>12. CASE Signal
  BY <1>12 DEF Signal, Exit, processVars, taskVars, clientVars
<1>13. ASSUME NEW c \in Callers, FindClient(c) PROVE LockOK'
  <2>1. ASSUME NEW d \in Callers, d # c
        PROVE  getter'[d] = getter[d] /\ (Calls(d) => Calls(d)')
    BY <1>13, <2>1 DEF FindClient, Return, Calls
  <2>2. getter'[c] = "idle" /\ lock' # c
    BY <1>13 DEF FindClient, Return
  <2>3. ASSUME NEW d \in Callers, d # c
        PROVE  lock' = d <=> lock = d
    BY <1>13, <2>3 DEF FindClient
  <2>4. ASSUME NEW d \in Callers
        PROVE  (getter'[d] = "hold" <=> lock' = d) /\ (getter'[d] # "idle" => Calls(d)')
    <3>1. CASE d = c
      BY <2>2, <3>1
    <3>2. CASE d # c
      BY <2>1, <2>3, <3>2
    <3> QED
      BY <3>1, <3>2
  <2> QED
    BY <2>4
<1>14. ASSUME NEW c \in Callers, MissClient(c) PROVE LockOK'
  BY <1>14 DEF MissClient, Callers, Calls, KindFor, processVars, taskVars
<1>15. ASSUME NEW c \in Callers, LockClients(c) PROVE LockOK'
  BY <1>15 DEF LockClients, Callers, Calls, KindFor, processVars, taskVars
<1>16. ASSUME NEW c \in Callers, CreateClient(c) PROVE LockOK'
  <2>1. ASSUME NEW d \in Callers, d # c
        PROVE  getter'[d] = getter[d] /\ (Calls(d) => Calls(d)')
    BY <1>16, <2>1 DEF CreateClient, Return, Calls
  <2>2. getter'[c] = "idle" /\ lock' # c
    BY <1>16 DEF CreateClient, Return
  <2>3. ASSUME NEW d \in Callers, d # c
        PROVE  lock' = d <=> lock = d
    <3>1. lock' = NoOne /\ getter[c] = "hold"
      BY <1>16 DEF CreateClient
    <3>2. lock = c /\ d # NoOne
      BY <3>1
    <3> QED
      BY <3>1, <3>2, <2>3
  <2>4. ASSUME NEW d \in Callers
        PROVE  (getter'[d] = "hold" <=> lock' = d) /\ (getter'[d] # "idle" => Calls(d)')
    <3>1. CASE d = c
      BY <2>2, <3>1
    <3>2. CASE d # c
      BY <2>1, <2>3, <3>2
    <3> QED
      BY <3>1, <3>2
  <2> QED
    BY <2>4
<1>17. ASSUME NEW r \in Requests, Accept(r) PROVE LockOK'
  BY <1>17 DEF Accept, processVars, clientVars
<1>18. ASSUME NEW r \in Requests, Spawn(r) PROVE LockOK'
  BY <1>18 DEF Spawn, processVars, clientVars
<1>19. ASSUME NEW r \in Requests, Answer(r) PROVE LockOK'
  BY <1>19 DEF Answer, processVars, clientVars
<1>20. ASSUME NEW r \in Requests, WriteKey(r) PROVE LockOK'
  BY <1>20 DEF WriteKey, processVars, clientVars
<1>21. ASSUME NEW r \in Requests, WriteError(r) PROVE LockOK'
  BY <1>21 DEF WriteError, processVars, clientVars
<1>22. ASSUME NEW r \in Requests, FinishTask(r) PROVE LockOK'
  BY <1>22 DEF FinishTask, processVars, clientVars
<1>23. CASE UNCHANGED vars
  BY <1>23 DEF vars, processVars, taskVars, clientVars
<1> QED
  BY <1>1, <1>2, <1>3, <1>4, <1>5, <1>6, <1>7, <1>8, <1>9, <1>10, <1>11, <1>12, <1>13, <1>14, <1>15, <1>16, <1>17, <1>18, <1>19, <1>20, <1>21, <1>22, <1>23, StepCases

\* A client is created only under the lock, when there is none: the pointer is
\* looked at again there.
LEMMA ClientStep == IInv /\ [Next]_vars => ClientOK'
<1> SUFFICES ASSUME IInv, [Next]_vars PROVE ClientOK'
  OBVIOUS
<1> USE NamesAssumption, CountAssumption DEF IInv, TypeOK, ClientOK, Kinds
<1>1. CASE StartFails
  BY <1>1 DEF StartFails, Exit, processVars, taskVars, clientVars
<1>2. CASE StartOk
  BY <1>2 DEF StartOk, processVars, taskVars, clientVars
<1>3. CASE Notify
  BY <1>3 DEF Notify, processVars, taskVars, clientVars
<1>4. CASE SelectError
  BY <1>4 DEF SelectError, Exit, processVars, taskVars, clientVars
<1>5. CASE SelectSignal
  BY <1>5 DEF SelectSignal, processVars, taskVars, clientVars
<1>6. CASE CloseRedis
  BY <1>6 DEF CloseRedis, processVars, taskVars, clientVars
<1>7. CASE CloseCluster
  BY <1>7 DEF CloseCluster, processVars, taskVars, clientVars
<1>8. CASE CloseListener
  BY <1>8 DEF CloseListener, processVars, taskVars, clientVars
<1>9. CASE Drained
  BY <1>9 DEF Drained, Exit, processVars, taskVars, clientVars
<1>10. CASE DrainTimeout
  BY <1>10 DEF DrainTimeout, Exit, processVars, taskVars, clientVars
<1>11. CASE ServeFails
  BY <1>11 DEF ServeFails, processVars, taskVars, clientVars
<1>12. CASE Signal
  BY <1>12 DEF Signal, Exit, processVars, taskVars, clientVars
<1>13. ASSUME NEW c \in Callers, FindClient(c) PROVE ClientOK'
  <2>1. /\ KindFor(c) \in Kinds
        /\ made' = [made EXCEPT ![KindFor(c)] = 1]
        /\ client' = [client EXCEPT ![KindFor(c)] = 1]
    BY <1>13, GetterReturns
  <2> QED
    BY <2>1
<1>14. ASSUME NEW c \in Callers, MissClient(c) PROVE ClientOK'
  BY <1>14 DEF MissClient, Callers, Calls, KindFor, processVars, taskVars
<1>15. ASSUME NEW c \in Callers, LockClients(c) PROVE ClientOK'
  BY <1>15 DEF LockClients, Callers, Calls, KindFor, processVars, taskVars
<1>16. ASSUME NEW c \in Callers, CreateClient(c) PROVE ClientOK'
  <2>1. /\ KindFor(c) \in Kinds
        /\ made' = [made EXCEPT ![KindFor(c)] = 1]
        /\ client' = [client EXCEPT ![KindFor(c)] = 1]
    BY <1>16, GetterReturns
  <2> QED
    BY <2>1
<1>17. ASSUME NEW r \in Requests, Accept(r) PROVE ClientOK'
  BY <1>17 DEF Accept, processVars, clientVars
<1>18. ASSUME NEW r \in Requests, Spawn(r) PROVE ClientOK'
  BY <1>18 DEF Spawn, processVars, clientVars
<1>19. ASSUME NEW r \in Requests, Answer(r) PROVE ClientOK'
  BY <1>19 DEF Answer, processVars, clientVars
<1>20. ASSUME NEW r \in Requests, WriteKey(r) PROVE ClientOK'
  BY <1>20 DEF WriteKey, processVars, clientVars
<1>21. ASSUME NEW r \in Requests, WriteError(r) PROVE ClientOK'
  BY <1>21 DEF WriteError, processVars, clientVars
<1>22. ASSUME NEW r \in Requests, FinishTask(r) PROVE ClientOK'
  BY <1>22 DEF FinishTask, processVars, clientVars
<1>23. CASE UNCHANGED vars
  BY <1>23 DEF vars, processVars, taskVars, clientVars
<1> QED
  BY <1>1, <1>2, <1>3, <1>4, <1>5, <1>6, <1>7, <1>8, <1>9, <1>10, <1>11, <1>12, <1>13, <1>14, <1>15, <1>16, <1>17, <1>18, <1>19, <1>20, <1>21, <1>22, <1>23, StepCases

\* Once made, a client stays the only one, so what Shutdown closes is all there is.
LEMMA ShutdownStep == IInv /\ [Next]_vars => ShutdownOK'
<1> SUFFICES ASSUME IInv, [Next]_vars PROVE ShutdownOK'
  OBVIOUS
<1> USE NamesAssumption, CountAssumption DEF IInv, TypeOK, LockOK, ClientOK, ShutdownOK, Made, Shut, Kinds, Callers, Running
<1>1. CASE StartFails
  BY <1>1 DEF StartFails, Exit, processVars, taskVars, clientVars
<1>2. CASE StartOk
  BY <1>2 DEF StartOk, processVars, taskVars, clientVars
<1>3. CASE Notify
  BY <1>3 DEF Notify, processVars, taskVars, clientVars
<1>4. CASE SelectError
  BY <1>4 DEF SelectError, Exit, processVars, taskVars, clientVars
<1>5. CASE SelectSignal
  BY <1>5 DEF SelectSignal, processVars, taskVars, clientVars
<1>6. CASE CloseRedis
  BY <1>6 DEF CloseRedis, processVars, taskVars, clientVars
<1>7. CASE CloseCluster
  BY <1>7 DEF CloseCluster, processVars, taskVars, clientVars
<1>8. CASE CloseListener
  BY <1>8 DEF CloseListener, processVars, taskVars, clientVars
<1>9. CASE Drained
  BY <1>9 DEF Drained, Exit, processVars, taskVars, clientVars
<1>10. CASE DrainTimeout
  BY <1>10 DEF DrainTimeout, Exit, processVars, taskVars, clientVars
<1>11. CASE ServeFails
  BY <1>11 DEF ServeFails, processVars, taskVars, clientVars
<1>12. CASE Signal
  BY <1>12 DEF Signal, Exit, processVars, taskVars, clientVars
<1>13. ASSUME NEW c \in Callers, FindClient(c) PROVE ShutdownOK'
  <2>1. /\ KindFor(c) \in Kinds
        /\ made' = [made EXCEPT ![KindFor(c)] = 1]
        /\ Return(c, 1)
    BY <1>13, GetterReturns
  <2>2. made'[KindFor(c)] = 1 /\ \A k \in Kinds : made[k] = 1 => made'[k] = 1
    BY <2>1
  <2>3. exit = "none" /\ UNCHANGED <<closed, exit, serve>>
    BY <1>13, <2>1 DEF Return, CreateClient, FindClient
  <2>4. CASE c = Main
    <3>1. main \in {"get redis", "get cluster"}
      BY <1>13, <2>4 DEF CreateClient, FindClient, Calls
    <3>2. handle'[Main] = 1
      BY <2>1, <2>4 DEF Return
    <3>3. main' = IF main = "get redis" THEN "close redis" ELSE "close cluster"
      BY <2>1, <2>4 DEF Return
    <3>4. KindFor(c) = IF main = "get redis" THEN "redis" ELSE "cluster"
      BY <2>4 DEF KindFor
    <3> QED
      BY <2>2, <2>3, <3>1, <3>2, <3>3, <3>4
  <2>5. CASE c # Main
    <3>1. UNCHANGED main /\ handle'[Main] = handle[Main]
      BY <2>1, <2>5 DEF Return
    <3> QED
      BY <2>2, <2>3, <3>1
  <2> QED
    BY <2>4, <2>5
<1>14. ASSUME NEW c \in Callers, MissClient(c) PROVE ShutdownOK'
  BY <1>14 DEF MissClient, Callers, Calls, KindFor, processVars, taskVars
<1>15. ASSUME NEW c \in Callers, LockClients(c) PROVE ShutdownOK'
  BY <1>15 DEF LockClients, Callers, Calls, KindFor, processVars, taskVars
<1>16. ASSUME NEW c \in Callers, CreateClient(c) PROVE ShutdownOK'
  <2>1. /\ KindFor(c) \in Kinds
        /\ made' = [made EXCEPT ![KindFor(c)] = 1]
        /\ Return(c, 1)
    BY <1>16, GetterReturns
  <2>2. made'[KindFor(c)] = 1 /\ \A k \in Kinds : made[k] = 1 => made'[k] = 1
    BY <2>1
  <2>3. exit = "none" /\ UNCHANGED <<closed, exit, serve>>
    BY <1>16, <2>1 DEF Return, CreateClient, FindClient
  <2>4. CASE c = Main
    <3>1. main \in {"get redis", "get cluster"}
      BY <1>16, <2>4 DEF CreateClient, FindClient, Calls
    <3>2. handle'[Main] = 1
      BY <2>1, <2>4 DEF Return
    <3>3. main' = IF main = "get redis" THEN "close redis" ELSE "close cluster"
      BY <2>1, <2>4 DEF Return
    <3>4. KindFor(c) = IF main = "get redis" THEN "redis" ELSE "cluster"
      BY <2>4 DEF KindFor
    <3> QED
      BY <2>2, <2>3, <3>1, <3>2, <3>3, <3>4
  <2>5. CASE c # Main
    <3>1. UNCHANGED main /\ handle'[Main] = handle[Main]
      BY <2>1, <2>5 DEF Return
    <3> QED
      BY <2>2, <2>3, <3>1
  <2> QED
    BY <2>4, <2>5
<1>17. ASSUME NEW r \in Requests, Accept(r) PROVE ShutdownOK'
  BY <1>17 DEF Accept, processVars, clientVars
<1>18. ASSUME NEW r \in Requests, Spawn(r) PROVE ShutdownOK'
  BY <1>18 DEF Spawn, processVars, clientVars
<1>19. ASSUME NEW r \in Requests, Answer(r) PROVE ShutdownOK'
  BY <1>19 DEF Answer, processVars, clientVars
<1>20. ASSUME NEW r \in Requests, WriteKey(r) PROVE ShutdownOK'
  BY <1>20 DEF WriteKey, processVars, clientVars
<1>21. ASSUME NEW r \in Requests, WriteError(r) PROVE ShutdownOK'
  BY <1>21 DEF WriteError, processVars, clientVars
<1>22. ASSUME NEW r \in Requests, FinishTask(r) PROVE ShutdownOK'
  BY <1>22 DEF FinishTask, processVars, clientVars
<1>23. CASE UNCHANGED vars
  BY <1>23 DEF vars, processVars, taskVars, clientVars
<1> QED
  BY <1>1, <1>2, <1>3, <1>4, <1>5, <1>6, <1>7, <1>8, <1>9, <1>10, <1>11, <1>12, <1>13, <1>14, <1>15, <1>16, <1>17, <1>18, <1>19, <1>20, <1>21, <1>22, <1>23, StepCases

\* The loop of a task writes the next key or ends the task.
LEMMA TaskStepKeeps == IInv /\ [Next]_vars => TaskOK'
<1> SUFFICES ASSUME IInv, [Next]_vars PROVE TaskOK'
  OBVIOUS
<1> USE NamesAssumption, CountAssumption DEF IInv, TypeOK, LockOK, TaskOK, Callers
<1>1. CASE StartFails
  BY <1>1 DEF StartFails, Exit, processVars, taskVars, clientVars
<1>2. CASE StartOk
  BY <1>2 DEF StartOk, processVars, taskVars, clientVars
<1>3. CASE Notify
  BY <1>3 DEF Notify, processVars, taskVars, clientVars
<1>4. CASE SelectError
  BY <1>4 DEF SelectError, Exit, processVars, taskVars, clientVars
<1>5. CASE SelectSignal
  BY <1>5 DEF SelectSignal, processVars, taskVars, clientVars
<1>6. CASE CloseRedis
  BY <1>6 DEF CloseRedis, processVars, taskVars, clientVars
<1>7. CASE CloseCluster
  BY <1>7 DEF CloseCluster, processVars, taskVars, clientVars
<1>8. CASE CloseListener
  BY <1>8 DEF CloseListener, processVars, taskVars, clientVars
<1>9. CASE Drained
  BY <1>9 DEF Drained, Exit, processVars, taskVars, clientVars
<1>10. CASE DrainTimeout
  BY <1>10 DEF DrainTimeout, Exit, processVars, taskVars, clientVars
<1>11. CASE ServeFails
  BY <1>11 DEF ServeFails, processVars, taskVars, clientVars
<1>12. CASE Signal
  BY <1>12 DEF Signal, Exit, processVars, taskVars, clientVars
<1>13. ASSUME NEW c \in Callers, FindClient(c) PROVE TaskOK'
  <2>1. UNCHANGED <<request, next, written>>
    BY <1>13 DEF FindClient, Return
  <2>2. CASE c = Main
    <3>1. UNCHANGED task
      BY <1>13, <2>2 DEF FindClient, Return
    <3> QED
      BY <2>1, <3>1
  <2>3. CASE c # Main
    <3>1. c \in Requests /\ task[c] = "start" /\ task' = [task EXCEPT ![c] = "write"]
      BY <1>13, <2>3 DEF FindClient, Return, Calls
    <3>2. ASSUME NEW r \in Requests
          PROVE  task'[r] = IF r = c THEN "write" ELSE task[r]
      BY <3>1
    <3> QED
      BY <2>1, <3>1, <3>2
  <2> QED
    BY <2>2, <2>3
<1>14. ASSUME NEW c \in Callers, MissClient(c) PROVE TaskOK'
  BY <1>14 DEF MissClient, Callers, Calls, KindFor, processVars, taskVars
<1>15. ASSUME NEW c \in Callers, LockClients(c) PROVE TaskOK'
  BY <1>15 DEF LockClients, Callers, Calls, KindFor, processVars, taskVars
<1>16. ASSUME NEW c \in Callers, CreateClient(c) PROVE TaskOK'
  <2>1. UNCHANGED <<request, next, written>>
    BY <1>16 DEF CreateClient, Return
  <2>2. CASE c = Main
    <3>1. UNCHANGED task
      BY <1>16, <2>2 DEF CreateClient, Return
    <3> QED
      BY <2>1, <3>1
  <2>3. CASE c # Main
    <3>1. c \in Requests /\ task[c] = "start" /\ task' = [task EXCEPT ![c] = "write"]
      BY <1>16, <2>3 DEF CreateClient, Return, Calls
    <3>2. ASSUME NEW r \in Requests
          PROVE  task'[r] = IF r = c THEN "write" ELSE task[r]
      BY <3>1
    <3> QED
      BY <2>1, <3>1, <3>2
  <2> QED
    BY <2>2, <2>3
<1>17. ASSUME NEW r \in Requests, Accept(r) PROVE TaskOK'
  BY <1>17 DEF Accept, processVars, clientVars
<1>18. ASSUME NEW r \in Requests, Spawn(r) PROVE TaskOK'
  BY <1>18 DEF Spawn, processVars, clientVars
<1>19. ASSUME NEW r \in Requests, Answer(r) PROVE TaskOK'
  BY <1>19 DEF Answer, processVars, clientVars
<1>20. ASSUME NEW r \in Requests, WriteKey(r) PROVE TaskOK'
  <2>1. next[r] \in 0 .. Count /\ task[r] = "write" /\ next[r] < Count /\ written[r] = Below(next[r])
    BY <1>20 DEF WriteKey
  <2>2. Below(next[r] + 1) = Below(next[r]) \cup {next[r]}
    BY <2>1, NextKey
  <2>3. written'[r] = Below(next'[r]) /\ task'[r] = "write" /\ UNCHANGED request
    BY <1>20, <2>1, <2>2 DEF WriteKey, taskVars
  <2>4. ASSUME NEW s \in Requests, s # r
        PROVE  written'[s] = written[s] /\ next'[s] = next[s] /\ task'[s] = task[s]
    BY <1>20, <2>4 DEF WriteKey
  <2>5. request[r] \notin {"none", "open"}
    BY <2>1
  <2>6. ASSUME NEW s \in Requests
        PROVE  /\ task'[s] # "fail" => written'[s] = Below(next'[s])
               /\ task'[s] = "suc" => next'[s] = Count
               /\ request'[s] \in {"none", "open"} => task'[s] = "none"
    <3>1. CASE s = r
      BY <2>3, <2>5, <3>1
    <3>2. CASE s # r
      BY <2>3, <2>4, <3>2
    <3> QED
      BY <3>1, <3>2
  <2> QED
    BY <2>6 DEF Below
<1>21. ASSUME NEW r \in Requests, WriteError(r) PROVE TaskOK'
  <2>1. task'[r] = "fail" /\ UNCHANGED <<request, next>> /\ task[r] = "write"
    BY <1>21 DEF WriteError
  <2>2. ASSUME NEW s \in Requests, s # r
        PROVE  written'[s] = written[s] /\ task'[s] = task[s]
    BY <1>21, <2>2 DEF WriteError
  <2>3. request[r] \notin {"none", "open"}
    BY <2>1
  <2>4. ASSUME NEW s \in Requests
        PROVE  /\ task'[s] # "fail" => written'[s] = Below(next'[s])
               /\ task'[s] = "suc" => next'[s] = Count
               /\ request'[s] \in {"none", "open"} => task'[s] = "none"
    <3>1. CASE s = r
      BY <2>1, <2>3, <3>1
    <3>2. CASE s # r
      BY <2>1, <2>2, <3>2
    <3> QED
      BY <3>1, <3>2
  <2> QED
    BY <2>4 DEF Below
<1>22. ASSUME NEW r \in Requests, FinishTask(r) PROVE TaskOK'
  BY <1>22 DEF FinishTask, processVars, clientVars
<1>23. CASE UNCHANGED vars
  BY <1>23 DEF vars, processVars, taskVars, clientVars
<1> QED
  BY <1>1, <1>2, <1>3, <1>4, <1>5, <1>6, <1>7, <1>8, <1>9, <1>10, <1>11, <1>12, <1>13, <1>14, <1>15, <1>16, <1>17, <1>18, <1>19, <1>20, <1>21, <1>22, <1>23, StepCases

---------------------------------------------------------------------------
(* Theorems *)

\* The initial states satisfy the invariant.
LEMMA InitInv == Init => IInv
<1> SUFFICES ASSUME Init PROVE IInv
  OBVIOUS
<1>1. TypeOK
  <2>1. 0 \in 0 .. Count /\ {} \in SUBSET (0 .. Count)
    BY CountAssumption
  <2> QED
    BY <2>1 DEF Init, TypeOK
<1>2. LockOK
  BY NamesAssumption DEF Init, LockOK, Callers
<1>3. ClientOK
  BY DEF Init, ClientOK
<1>4. ShutdownOK
  BY DEF Init, ShutdownOK
<1>5. TaskOK
  <2>1. Below(0) = {}
    BY DEF Below
  <2> QED
    BY <2>1 DEF Init, TaskOK
<1> QED
  BY <1>1, <1>2, <1>3, <1>4, <1>5 DEF IInv

\* Every reachable state satisfies the invariant.
LEMMA Invariant == Spec => []IInv
<1>1. IInv /\ [Next]_vars => IInv'
  BY TypeStep, LockStep, ClientStep, ShutdownStep, TaskStepKeeps DEF IInv
<1> QED
  BY InitInv, <1>1, PTL DEF Spec

\* The variables keep their types.
THEOREM Types == Spec => []TypeOK
<1>1. IInv => TypeOK
  BY DEF IInv
<1> QED
  BY Invariant, <1>1, PTL

\* When Shutdown has closed the clients, all that were ever created are closed,
\* whoever asks for one at that moment.
THEOREM ClientsAreClosed == Spec => []ShutdownClosesEveryClient
<1>1. IInv => ShutdownClosesEveryClient
  BY DEF IInv, ShutdownOK, ShutdownClosesEveryClient, Shut, Kinds
<1> QED
  BY Invariant, <1>1, PTL

\* A task that reports success has written all of its keys.
THEOREM SuccessIsTrue == Spec => []SucMeansAllWritten
<1>1. IInv => SucMeansAllWritten
  BY DEF IInv, TaskOK, SucMeansAllWritten, Below
<1> QED
  BY Invariant, <1>1, PTL
=============================================================================
