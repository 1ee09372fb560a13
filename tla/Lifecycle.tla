----------------------------- MODULE Lifecycle -----------------------------
(***************************************************************************)
(* The life of the process: main.go, ListenAndServe and Shutdown of        *)
(* server/server.go, the Redis clients of internal/utils/redis.go that     *)
(* goroutines create on first use, and the tasks of task/generate.go that  *)
(* write with them.                                                        *)
(*                                                                         *)
(* A request creates a task that generates string data.  Requests and      *)
(* tasks of other kinds are in TaskServer, Cleaner and StatisticTask.      *)
(***************************************************************************)
EXTENDS Naturals, FiniteSets

CONSTANTS
  Requests,   \* the requests; a task has the name of the one that creates it
  Main,       \* the main goroutine
  NoOne,      \* the holder of a free lock
  Count       \* how many keys a task generates

ASSUME NamesAssumption == Main \notin Requests /\ NoOne \notin Requests \cup {Main}
ASSUME CountAssumption == Count \in Nat

Callers == Requests \cup {Main}
Kinds == {"redis", "cluster"}

VARIABLES
  main,       \* where the main goroutine is
  exit,       \* how the process ended, or "none"
  serve,      \* the goroutine that serves HTTP
  signaled,   \* the signal channel, of capacity 1, is full
  request,    \* where the handler of a request is
  task,       \* where its task is
  next,       \* the next key a task writes
  written,    \* the keys it has written
  getter,     \* where a caller is in GetRedisClient or GetRedisClusterClient
  lock,       \* who holds the mutex of these two
  client,     \* the clients they keep, numbered per kind; 0 is nil
  handle,     \* the client a caller was given last
  made,       \* how many clients of a kind were created
  closed      \* the clients that are closed, as <<kind, number>>

processVars == <<main, exit, serve, signaled>>
taskVars == <<request, task, next, written>>
clientVars == <<getter, lock, client, handle, made, closed>>
vars == <<processVars, taskVars, clientVars>>

Running == exit = "none"

Init ==
  /\ main = "listen" /\ exit = "none" /\ serve = "serving" /\ signaled = FALSE
  /\ request = [r \in Requests |-> "none"]
  /\ task = [r \in Requests |-> "none"]
  /\ next = [r \in Requests |-> 0]
  /\ written = [r \in Requests |-> {}]
  /\ getter = [c \in Callers |-> "idle"]
  /\ lock = NoOne
  /\ client = [k \in Kinds |-> 0]
  /\ handle = [c \in Callers |-> 0]
  /\ made = [k \in Kinds |-> 0]
  /\ closed = {}

---------------------------------------------------------------------------
(* GetRedisClient and GetRedisClusterClient *)

KindFor(c) == IF c = Main /\ main = "get redis" THEN "redis" ELSE "cluster"

Calls(c) ==
  IF c = Main THEN main \in {"get redis", "get cluster"} ELSE task[c] = "start"

\* The call returns client number n to its caller, who goes on.
Return(c, n) ==
  /\ handle' = [handle EXCEPT ![c] = n]
  /\ getter' = [getter EXCEPT ![c] = "idle"]
  /\ IF c = Main
     THEN /\ main' = IF main = "get redis" THEN "close redis" ELSE "close cluster"
          /\ UNCHANGED task
     ELSE task' = [task EXCEPT ![c] = "write"] /\ UNCHANGED main
  /\ UNCHANGED <<exit, serve, signaled, request, next, written>>

FindClient(c) ==
  /\ Running /\ Calls(c) /\ getter[c] = "idle"
  /\ client[KindFor(c)] # 0
  /\ Return(c, client[KindFor(c)])
  /\ UNCHANGED <<lock, client, made, closed>>

\* The pointer is read without the lock: nil may be seen after another
\* goroutine has assigned it.
MissClient(c) ==
  /\ Running /\ Calls(c) /\ getter[c] = "idle"
  /\ getter' = [getter EXCEPT ![c] = "wait"]
  /\ UNCHANGED <<processVars, taskVars, lock, client, handle, made, closed>>

LockClients(c) ==
  /\ Running /\ getter[c] = "wait" /\ lock = NoOne
  /\ lock' = c
  /\ getter' = [getter EXCEPT ![c] = "hold"]
  /\ UNCHANGED <<processVars, taskVars, client, handle, made, closed>>

\* Mutation: the pointer is not looked at again under the lock.
CreateUnchecked(c) ==
  LET k == KindFor(c)
  IN /\ Running /\ getter[c] = "hold"
     /\ made' = [made EXCEPT ![k] = @ + 1]
     /\ client' = [client EXCEPT ![k] = made[k] + 1]
     /\ Return(c, client'[k])
     /\ lock' = NoOne
     /\ UNCHANGED closed

\* Mutation: the lock is not released when there is a client already.
CreateKeepsLock(c) ==
  LET k == KindFor(c)
  IN /\ Running /\ getter[c] = "hold"
     /\ IF client[k] = 0
        THEN /\ made' = [made EXCEPT ![k] = @ + 1]
             /\ client' = [client EXCEPT ![k] = made[k] + 1]
             /\ lock' = NoOne
        ELSE UNCHANGED <<made, client, lock>>
     /\ Return(c, client'[k])
     /\ UNCHANGED closed

\* Mutation: ... or when one was created.
CreateLeavesLocked(c) ==
  LET k == KindFor(c)
  IN /\ Running /\ getter[c] = "hold"
     /\ IF client[k] = 0
        THEN /\ made' = [made EXCEPT ![k] = @ + 1]
             /\ client' = [client EXCEPT ![k] = made[k] + 1]
             /\ UNCHANGED lock
        ELSE /\ lock' = NoOne
             /\ UNCHANGED <<made, client>>
     /\ Return(c, client'[k])
     /\ UNCHANGED closed

\* Under the lock: create the client if there is none, release, return.
CreateClient(c) ==
  LET k == KindFor(c)
  IN /\ Running /\ getter[c] = "hold"
     /\ IF client[k] = 0
        THEN /\ made' = [made EXCEPT ![k] = @ + 1]
             /\ client' = [client EXCEPT ![k] = made[k] + 1]
        ELSE UNCHANGED <<made, client>>
     /\ Return(c, client'[k])
     /\ lock' = NoOne
     /\ UNCHANGED closed

GetClient(c) == FindClient(c) \/ MissClient(c) \/ LockClients(c) \/ CreateClient(c)

---------------------------------------------------------------------------
(* Requests and tasks *)

\* The server accepts a connection and starts its handler.
Accept(r) ==
  /\ Running /\ serve = "serving" /\ request[r] = "none"
  /\ request' = [request EXCEPT ![r] = "open"]
  /\ UNCHANGED <<processVars, task, next, written, clientVars>>

\* createTask starts the goroutine of the task before it answers.
Spawn(r) ==
  /\ Running /\ request[r] = "open"
  /\ request' = [request EXCEPT ![r] = "created"]
  /\ task' = [task EXCEPT ![r] = "start"]
  /\ UNCHANGED <<processVars, next, written, clientVars>>

\* The response, of a request that created a task or was refused one.
Answer(r) ==
  /\ Running /\ request[r] \in {"open", "created"}
  /\ request' = [request EXCEPT ![r] = "answered"]
  /\ UNCHANGED <<processVars, task, next, written, clientVars>>

Closed(r) == <<"cluster", handle[r]>> \in closed

\* Mutation: the error of a command is not looked at.
WriteKeyAnyhow(r) ==
  /\ Running /\ task[r] = "write" /\ next[r] < Count
  /\ next' = [next EXCEPT ![r] = @ + 1]
  /\ written' = IF Closed(r) THEN written ELSE [written EXCEPT ![r] = @ \cup {next[r]}]
  /\ UNCHANGED <<processVars, request, task, clientVars>>

\* Mutation: the loop includes its limit.
WriteKeyOneMore(r) ==
  /\ Running /\ task[r] = "write" /\ next[r] <= Count
  /\ ~Closed(r)
  /\ next' = [next EXCEPT ![r] = @ + 1]
  /\ written' = [written EXCEPT ![r] = @ \cup {next[r]}]
  /\ UNCHANGED <<processVars, request, task, clientVars>>

\* One round of the loop, which stops at the first error.
WriteKey(r) ==
  /\ Running /\ task[r] = "write" /\ next[r] < Count
  /\ ~Closed(r)
  /\ next' = [next EXCEPT ![r] = @ + 1]
  /\ written' = [written EXCEPT ![r] = @ \cup {next[r]}]
  /\ UNCHANGED <<processVars, request, task, clientVars>>

\* A SET fails on a closed client, and may fail on an open one; its key may
\* have been written all the same.
WriteError(r) ==
  /\ Running /\ task[r] = "write" /\ next[r] < Count
  /\ task' = [task EXCEPT ![r] = "fail"]
  /\ \/ UNCHANGED written
     \/ ~Closed(r) /\ written' = [written EXCEPT ![r] = @ \cup {next[r]}]
  /\ UNCHANGED <<processVars, request, next, clientVars>>

\* generateString returns nil and startTask records the success.
FinishTask(r) ==
  /\ Running /\ task[r] = "write" /\ next[r] = Count
  /\ task' = [task EXCEPT ![r] = "suc"]
  /\ UNCHANGED <<processVars, request, next, written, clientVars>>

TaskStep(r) == WriteKey(r) \/ WriteError(r) \/ FinishTask(r)

---------------------------------------------------------------------------
(* The process *)

\* http.Server.ListenAndServe returns an error, which waits to be received.
ServeFails ==
  /\ Running /\ serve = "serving"
  /\ serve' = "failing"
  /\ UNCHANGED <<main, exit, signaled, taskVars, clientVars>>

Exit(how) == main' = "done" /\ exit' = how

\* ListenAndServe: an error within a second.
StartFails ==
  /\ Running /\ main = "listen" /\ serve = "failing"
  /\ serve' = "received" /\ Exit("start failed")
  /\ UNCHANGED <<signaled, taskVars, clientVars>>

\* ListenAndServe: the second is over; an error that is ready may lose.
StartOk ==
  /\ Running /\ main = "listen"
  /\ main' = "notify"
  /\ UNCHANGED <<exit, serve, signaled, taskVars, clientVars>>

Notify ==
  /\ Running /\ main = "notify"
  /\ main' = "select"
  /\ UNCHANGED <<exit, serve, signaled, taskVars, clientVars>>

\* A signal ends the process until Notify has been called; after that it
\* fills the channel, or is dropped when the channel is full.
Signal ==
  /\ Running
  /\ IF main \in {"listen", "notify"} THEN Exit("killed") /\ UNCHANGED signaled
     ELSE signaled' = TRUE /\ UNCHANGED <<main, exit>>
  /\ UNCHANGED <<serve, taskVars, clientVars>>

SelectError ==
  /\ Running /\ main = "select" /\ serve = "failing"
  /\ serve' = "received" /\ Exit("run failed")
  /\ UNCHANGED <<signaled, taskVars, clientVars>>

SelectSignal ==
  /\ Running /\ main = "select" /\ signaled
  /\ signaled' = FALSE /\ main' = "get redis"
  /\ UNCHANGED <<exit, serve, taskVars, clientVars>>

\* Shutdown closes the clients one after the other, creating them if need be.
CloseRedis ==
  /\ Running /\ main = "close redis"
  /\ closed' = closed \cup {<<"redis", handle[Main]>>}
  /\ main' = "get cluster"
  /\ UNCHANGED <<exit, serve, signaled, taskVars, getter, lock, client, handle, made>>

CloseCluster ==
  /\ Running /\ main = "close cluster"
  /\ closed' = closed \cup {<<"cluster", handle[Main]>>}
  /\ main' = "close listener"
  /\ UNCHANGED <<exit, serve, signaled, taskVars, getter, lock, client, handle, made>>

\* http.Server.Shutdown: no request is accepted any more, and ListenAndServe
\* returns an error that nobody receives.
CloseListener ==
  /\ Running /\ main = "close listener"
  /\ serve' = IF serve = "serving" THEN "closed" ELSE serve
  /\ main' = "drain"
  /\ UNCHANGED <<exit, signaled, taskVars, clientVars>>

InFlight == {r \in Requests : request[r] \in {"open", "created"}}

Drained ==
  /\ Running /\ main = "drain" /\ InFlight = {}
  /\ Exit("exit ok")
  /\ UNCHANGED <<serve, signaled, taskVars, clientVars>>

\* The five seconds are over before a poll has found no request in flight.
DrainTimeout ==
  /\ Running /\ main = "drain"
  /\ Exit("exit error")
  /\ UNCHANGED <<serve, signaled, taskVars, clientVars>>

Shutdown == CloseRedis \/ CloseCluster \/ CloseListener \/ Drained \/ DrainTimeout

MainStep ==
  \/ StartFails \/ StartOk \/ Notify \/ SelectError \/ SelectSignal
  \/ Shutdown
  \/ GetClient(Main)

Next ==
  \/ MainStep \/ ServeFails \/ Signal
  \/ \E r \in Requests :
       Accept(r) \/ Spawn(r) \/ Answer(r) \/ GetClient(r) \/ TaskStep(r)

\* The scheduler runs every goroutine; whether requests, signals and errors
\* come is left open, and so is whether a handler ever answers.
Fairness ==
  /\ WF_vars(MainStep)
  /\ \A r \in Requests : WF_vars(GetClient(r) \/ TaskStep(r))

Spec == Init /\ [][Next]_vars /\ Fairness

---------------------------------------------------------------------------
(* Properties *)

\* The variables have their types.
TypeOK ==
  /\ main \in {"listen", "notify", "select", "get redis", "close redis", "get cluster",
               "close cluster", "close listener", "drain", "done"}
  /\ exit \in {"none", "start failed", "run failed", "exit ok", "exit error", "killed"}
  /\ (exit = "none") = (main # "done")
  /\ serve \in {"serving", "failing", "received", "closed"}
  /\ signaled \in BOOLEAN
  /\ request \in [Requests -> {"none", "open", "created", "answered"}]
  /\ task \in [Requests -> {"none", "start", "write", "suc", "fail"}]
  /\ next \in [Requests -> 0 .. Count]
  /\ written \in [Requests -> SUBSET (0 .. Count)]
  /\ getter \in [Callers -> {"idle", "wait", "hold"}]
  /\ lock \in Callers \cup {NoOne}
  /\ client \in [Kinds -> Nat]
  /\ handle \in [Callers -> Nat]
  /\ made \in [Kinds -> Nat]
  /\ closed \subseteq Kinds \X (Nat \ {0})

\* Double-checked locking and Shutdown: when Shutdown has closed the clients,
\* none that any goroutine ever created is left open, and none is created
\* later, although goroutines may ask for one at any time.
ShutdownClosesEveryClient ==
  main \in {"close listener", "drain"} \/ exit \in {"exit ok", "exit error"} =>
    \A k \in Kinds : made[k] = 1 /\ <<k, 1>> \in closed

\* generateString: a task reports success only if all its keys were written,
\* with the clients closed under it at any moment.
SucMeansAllWritten ==
  \A r \in Requests : task[r] = "suc" => written[r] = {i \in 0 .. Count : i < Count}

\* GetRedisClusterClient and generateString: a task that was started ends, with
\* success or an error, unless the process ends first: no other task, and no
\* Shutdown, keeps it waiting for the clients, and closed ones stop its loop.
GenerationEnds ==
  \A r \in Requests : task[r] = "start" ~> task[r] \in {"suc", "fail"} \/ ~Running

\* main: a signal that was caught, or an error of the server, ends the
\* process, whatever tasks and handlers do.
ProcessExits ==
  main = "select" /\ (signaled \/ serve = "failing") ~> ~Running
=============================================================================
