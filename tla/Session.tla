------------------------------ MODULE Session -------------------------------
(***************************************************************************)
(* The broker session of one server process: IBKRMCPService                *)
(* (mcp_server/services.py) and the connection of ibkr_core/client.py.     *)
(*                                                                         *)
(* Coroutines of the event loop share the field _client behind an asyncio  *)
(* lock and hand jobs to an executor with one worker thread.  A step of a  *)
(* call is what its coroutine does between two awaits.  The worker runs    *)
(* one job at a time, first come first served; a job that is given up is   *)
(* withdrawn while it waits and cannot be stopped once it runs.            *)
(***************************************************************************)
EXTENDS Naturals, Sequences

CONSTANTS
  Calls,            \* slots for concurrent calls of the service
  Clients,          \* IBKRClient objects; one that nobody holds is used again
  Envs,             \* the gateways config.json may point at
  None

VARIABLES
  \* the event loop
  pc,               \* pc[c]: where call c is
  kind,             \* kind[c]: run_with_client, get_client or invalidate_client
  owner,            \* the call that holds the lock
  waiters,          \* the calls that wait for it, first come first
  client,           \* _client
  \* the executor
  running,          \* the job the worker has taken
  stage,            \* where in that job it is
  waiting,          \* the jobs in front of the worker, oldest first
  \* clients and gateways
  open,             \* the clients with a connection
  gateway,          \* gateway[k]: the environment k was created for
  env,              \* the environment config.json points at
  \* history
  seen              \* seen[c]: the environments configured since c was called

loop == <<pc, kind, owner, waiters, client>>
executor == <<running, stage, waiting>>
clients == <<open, gateway>>
vars == <<loop, executor, clients, env, seen>>

Kinds == {"operate", "get", "drop"}
JobKinds == {"connect", "disconnect", "operate"}
Jobs == [kind : JobKinds, client : Clients \cup {None}, call : Calls \cup {None}]

ASSUME NoneAssumption == None \notin Calls \cup Clients \cup Jobs

\* Mutant: a connect is started and not awaited.
AtJobUnawaited == [connect |-> "connected", disconnect |-> "disconnecting",
                   operate |-> "operating"]

\* Where a call waits for its job.
AtJob == [connect |-> "connecting", disconnect |-> "disconnecting",
          operate |-> "operating"]

\* Where it has the lock.
Holding == {"connecting", "connected", "refused", "disconnecting", "disconnected"}

Init ==
  /\ pc = [c \in Calls |-> "idle"]
  /\ kind = [c \in Calls |-> None]
  /\ owner = None /\ waiters = << >> /\ client = None
  /\ running = None /\ stage = "idle" /\ waiting = << >>
  /\ open = {}
  /\ env \in Envs
  /\ gateway = [k \in Clients |-> env]
  /\ seen = [c \in Calls |-> {}]

(***************************************************************************)
(* Lock and executor                                                       *)
(***************************************************************************)

Goto(c, p) == pc' = [pc EXCEPT ![c] = p]

Submit(c, job, k) ==
  /\ waiting' = Append(waiting, [kind |-> job, client |-> k, call |-> c])
  /\ Goto(c, AtJob[job])
  /\ UNCHANGED <<running, stage>>

\* Mutant: the lock is not given back on every way out.
ReturnKeepsLock(c) ==
  /\ Goto(c, "idle")
  /\ kind' = [kind EXCEPT ![c] = None]
  /\ seen' = [seen EXCEPT ![c] = {}]
  /\ UNCHANGED owner

\* The call ends; "async with" gives the lock back if the call has it.
Return(c) ==
  /\ Goto(c, "idle")
  /\ kind' = [kind EXCEPT ![c] = None]
  /\ seen' = [seen EXCEPT ![c] = {}]
  /\ owner' = IF owner = c THEN None ELSE owner

\* The jobs that run or will run.
Backlog ==
  {waiting[i] : i \in DOMAIN waiting} \cup (IF running = None THEN {} ELSE {running})

\* Cancelling the future of a job: one that waits is dropped, one that runs
\* goes on for nobody.
Withdraw(c) ==
  /\ running' = IF running # None /\ running.call = c
                  THEN [running EXCEPT !.call = None] ELSE running
  /\ \/ \E i \in DOMAIN waiting :
          /\ waiting[i].call = c
          /\ waiting' = SubSeq(waiting, 1, i-1) \o SubSeq(waiting, i+1, Len(waiting))
     \/ (\A i \in DOMAIN waiting : waiting[i].call # c) /\ UNCHANGED waiting
  /\ UNCHANGED stage

(***************************************************************************)
(* get_client, run_with_client and invalidate_client                       *)
(***************************************************************************)

Begin(c, kd) ==
  /\ pc[c] = "idle"
  /\ Goto(c, "locking")
  /\ kind' = [kind EXCEPT ![c] = kd]
  /\ waiters' = Append(waiters, c)
  /\ seen' = [seen EXCEPT ![c] = {env}]
  /\ UNCHANGED <<owner, client, executor, clients, env>>

\* A client object that neither the field nor a job nor a gateway knows.
Unused(k) ==
  /\ k # client
  /\ k \notin open
  /\ \A job \in Backlog : job.client # k

\* _create_client and the job that connects it.  The job is a lambda that looks
\* at the field only when the worker runs it.
StartConnect(c) ==
  LET k == CHOOSE x \in Clients : Unused(x) IN
  /\ \E x \in Clients : Unused(x)
  /\ client' = k
  /\ gateway' = [gateway EXCEPT ![k] = env]
  /\ Submit(c, "connect", None)
  /\ UNCHANGED open

\* Mutant: the connection is closed by the loop, not by the worker.
StartDisconnectOnLoop(c) ==
  /\ client' = None
  /\ open' = open \ {client}
  /\ Goto(c, "disconnected")
  /\ UNCHANGED <<executor, gateway>>

\* _disconnect_locked: the field is cleared, then the worker is awaited.
StartDisconnect(c) ==
  /\ client' = None
  /\ Submit(c, "disconnect", client)
  /\ UNCHANGED clients

\* The lock is free and c is its first waiter.
Admitted(c) ==
  /\ pc[c] = "locking" /\ owner = None
  /\ waiters # << >> /\ Head(waiters) = c
  /\ waiters' = Tail(waiters)

\* Mutant: an operation takes the client that is there.
AcquireAndReuse(c) ==
  /\ Admitted(c)
  /\ owner' = c
  /\ \/ client # None /\ kind[c] # "operate" /\ StartDisconnect(c)
     \/ client # None /\ kind[c] = "operate" /\ Goto(c, "connected")
        /\ UNCHANGED <<client, executor, clients>>
     \/ client = None /\ StartConnect(c)
  /\ UNCHANGED <<kind, env, seen>>

\* _client_matches_config compares (mode, host, port) of the client with (host,
\* port, client id), which never agree: a client that is there is always
\* disconnected, and the code that would keep it is never reached.
Acquire(c) ==
  /\ Admitted(c)
  /\ \/ client # None \/ kind[c] # "drop"
  /\ owner' = c
  /\ IF client # None THEN StartDisconnect(c) ELSE StartConnect(c)
  /\ UNCHANGED <<kind, env, seen>>

\* Nothing to drop.
DropNothing(c) ==
  /\ Admitted(c)
  /\ client = None /\ kind[c] = "drop"
  /\ Return(c)
  /\ UNCHANGED <<client, executor, clients, env>>

\* get_config raises, in _client_matches_config or in _create_client.
ConfigFails(c) ==
  /\ kind[c] # "drop"
  /\ Admitted(c) \/ (pc[c] = "disconnected" /\ UNCHANGED waiters)
  /\ Return(c)
  /\ UNCHANGED <<client, executor, clients, env>>

\* disconnect has ended; an exception of it is only logged.
Disconnected(c) ==
  /\ pc[c] = "disconnected"
  /\ \/ kind[c] = "drop" /\ Return(c) /\ UNCHANGED <<client, executor, clients>>
     \/ kind[c] # "drop" /\ StartConnect(c) /\ UNCHANGED <<kind, owner, seen>>
  /\ UNCHANGED <<waiters, env>>

\* get_client returns the field.  run_with_client submits the operation in the
\* same step: nobody can come between.
Connected(c) ==
  /\ pc[c] = "connected"
  /\ \/ kind[c] = "get" /\ Return(c) /\ UNCHANGED executor
     \/ /\ kind[c] = "operate" /\ owner' = None
        /\ Submit(c, "operate", client)
        /\ UNCHANGED <<kind, seen>>
  /\ UNCHANGED <<waiters, client, clients, env>>

\* The connect has failed, or wait_for gives up, be it on a connect that has just
\* ended.  The field is cleared, whatever becomes of the connection.
ConnectFails(c) ==
  /\ pc[c] \in {"connecting", "connected", "refused"}
  /\ client' = None
  /\ Withdraw(c)
  /\ Return(c)
  /\ UNCHANGED <<waiters, clients, env>>

\* The operation has ended, or wait_for gives up.
OperationEnds(c) ==
  /\ pc[c] \in {"operating", "answered"}
  /\ Withdraw(c)
  /\ Return(c)
  /\ UNCHANGED <<waiters, client, clients, env>>

\* The MCP client cancels the request: CancelledError is no Exception, so no
\* handler of get_client sees it and the field stays as it is.
Cancel(c) ==
  /\ pc[c] # "idle"
  /\ \/ \E i \in DOMAIN waiters :
          /\ waiters[i] = c
          /\ waiters' = SubSeq(waiters, 1, i-1) \o SubSeq(waiters, i+1, Len(waiters))
     \/ (\A i \in DOMAIN waiters : waiters[i] # c) /\ UNCHANGED waiters
  /\ Withdraw(c)
  /\ Return(c)
  /\ UNCHANGED <<client, clients, env>>

\* config.json is changed, by execute_environment_change (which then drops the
\* client) or by hand.
ChangeEnvironment(e) ==
  /\ e # env
  /\ env' = e
  /\ seen' = [c \in Calls |-> IF pc[c] = "idle" THEN {} ELSE seen[c] \cup {e}]
  /\ UNCHANGED <<loop, executor, clients>>

(***************************************************************************)
(* The worker                                                              *)
(***************************************************************************)

TakeJob ==
  /\ running = None /\ waiting # << >>
  /\ running' = Head(waiting)
  /\ stage' = "taken"
  /\ waiting' = Tail(waiting)
  /\ UNCHANGED <<loop, clients, env, seen>>

\* Mutant: the worker forgets that the job is over.
FinishKeepsStage(p) ==
  /\ running' = None
  /\ pc' = IF running.call = None THEN pc ELSE [pc EXCEPT ![running.call] = p]
  /\ UNCHANGED <<stage, kind, owner, waiters, client, waiting, env, seen>>

\* The job is over, and so is the wait of the call that submitted it.
Finish(p) ==
  /\ running' = None /\ stage' = "idle"
  /\ pc' = IF running.call = None THEN pc ELSE [pc EXCEPT ![running.call] = p]
  /\ UNCHANGED <<kind, owner, waiters, client, waiting, env, seen>>

Disconnect ==
  /\ stage = "taken" /\ running.kind = "disconnect"
  /\ open' = open \ {running.client}
  /\ Finish("disconnected")
  /\ UNCHANGED gateway

\* The lambda reads the field: None, or the client of a later call, if its own
\* call has given up meanwhile.  A client that is connected stays as it is.
Connect ==
  /\ stage = "taken" /\ running.kind = "connect"
  /\ \/ client = None /\ Finish("refused")
     \/ client \in open /\ Finish("connected")
     \/ /\ client # None /\ client \notin open
        /\ running' = [running EXCEPT !.client = client]
        /\ stage' = "handshake"
        /\ UNCHANGED <<loop, waiting, env, seen>>
  /\ UNCHANGED clients

\* All clients of a process use one client id, which a gateway accepts once.
IdIsFree(g) == \A k \in open : gateway[k] # g

Handshake ==
  /\ stage = "handshake"
  /\ IdIsFree(gateway[running.client])
  /\ open' = open \cup {running.client}
  /\ stage' = "asking"
  /\ UNCHANGED <<loop, running, waiting, gateway, env, seen>>

HandshakeFails ==
  /\ stage = "handshake"
  /\ Finish("refused")
  /\ UNCHANGED clients

\* request_current_time, which may raise and has no limit of its own.  The
\* connection stays open either way.
AskTime(p) ==
  /\ stage = "asking" /\ p \in {"connected", "refused"}
  /\ Finish(p)
  /\ UNCHANGED clients

\* The operation, whatever comes of it.  One that meets a connection which the gateway has
\* dropped connects the same client again (ensure_connected), within its job.
Operate ==
  /\ stage = "taken" /\ running.kind = "operate"
  /\ Finish("answered")
  /\ UNCHANGED clients

(***************************************************************************)
(* The specification                                                       *)
(***************************************************************************)

Proceed(c) ==
  \/ Acquire(c) \/ DropNothing(c) \/ Disconnected(c) \/ Connected(c)
  \/ ConnectFails(c) \/ OperationEnds(c)

Work ==
  \/ TakeJob \/ Disconnect \/ Connect \/ Handshake \/ HandshakeFails \/ Operate
  \/ \E p \in {"connected", "refused"} : AskTime(p)

Next ==
  \/ \E c \in Calls : Proceed(c) \/ ConfigFails(c) \/ Cancel(c)
  \/ \E c \in Calls, kd \in Kinds : Begin(c, kd)
  \/ Work
  \/ \E e \in Envs : ChangeEnvironment(e)

\* The loop runs what is ready and its timers go off; an idle worker takes the
\* next job.  That a job ends is not assumed.
Fairness == (\A c \in Calls : WF_vars(Proceed(c))) /\ WF_vars(TakeJob)

Spec == Init /\ [][Next]_vars /\ Fairness

(***************************************************************************)
(* Properties                                                              *)
(***************************************************************************)

TypeOK ==
  /\ pc \in [Calls -> {"idle", "locking", "operating", "answered"} \cup Holding]
  /\ kind \in [Calls -> Kinds \cup {None}]
  /\ owner \in Calls \cup {None}
  /\ waiters \in Seq(Calls)
  /\ client \in Clients \cup {None}
  /\ running \in Jobs \cup {None}
  /\ stage \in {"idle", "taken", "handshake", "asking"}
  /\ stage = "idle" <=> running = None
  /\ stage \in {"handshake", "asking"} =>
       running.kind = "connect" /\ running.client # None
  /\ waiting \in Seq(Jobs)
  /\ open \subseteq Clients
  /\ gateway \in [Clients -> Envs]
  /\ env \in Envs
  /\ seen \in [Calls -> SUBSET Envs]

Operations == {job \in Backlog : job.kind = "operate"}

\* Whatever other calls disconnect meanwhile, an operation never meets a client
\* that the service itself has closed, also when nobody waits for it any more.
OperatesOnOpenClient ==
  \A job \in Operations : job.client \in open

\* "The next IBKR operation will use the new connection" (main.py:1556): an
\* operation runs in an environment that was configured after it was called.
OperatesInConfiguredEnvironment ==
  \A job \in Operations : job.call # None => gateway[job.client] \in seen[job.call]

\* The time limit of an operation starts when its job does: it never waits for a
\* job of another call, so that one that timed out has always been started.
OperationsDoNotWait ==
  \A i \in DOMAIN waiting :
    waiting[i].kind = "operate" => (i = 1 /\ running = None)

\* As long as the jobs of the worker end, every call does, whatever is lost,
\* refused, given up or cancelled, and the lock is given back.
CallsEnd ==
  ([]<>(running = None)) => \A c \in Calls : pc[c] # "idle" ~> pc[c] = "idle"

\* "The connection will automatically reconnect on the next tool call"
\* (main.py:1494): no connection that was left behind is in the way.
ReconnectFindsIdFree == stage = "handshake" => IdIsFree(gateway[running.client])
=============================================================================
