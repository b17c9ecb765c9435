------------------------------ MODULE Processes ------------------------------
(***************************************************************************)
(* The life of the two processes, api and worker: boot, the connections     *)
(* they keep to Redis and Postgres, the loops of the worker, the readiness  *)
(* probe and the shutdown.  Compose restarts a process that exits.          *)
(*                                                                         *)
(* Nest runs onModuleInit from the imported modules to the importing one,   *)
(* and onModuleDestroy the other way round, the hooks of one module         *)
(* together.                                                                *)
(***************************************************************************)
EXTENDS Naturals

CONSTANTS
    Processes,      \* subset of {"api", "worker"}
    Retries,        \* reconnections a client tries before it gives up: 20
    MaxTroubles      \* bound: outages of a server and crashes of a process

ProcessesAssumption ==
    Processes \subseteq {"api", "worker"} /\ {Retries, MaxTroubles} \subseteq Nat

VARIABLES
    server,     \* server |-> it answers
    troubles,    \* outages and crashes so far
    phase,      \* process |-> down, init, up, closing
    client,     \* process |-> its ioredis client: [status, attempts]
    pool,       \* process |-> its DataSource is initialized
    stopped,    \* OutboxRelayService.#stopped
    drain,      \* the tick of the relay: none, timer, claiming, adding
    consumer,   \* queue |-> its BullMQ worker: none, open, closing, closed
    active      \* queues whose worker runs a job

worker == <<stopped, drain, consumer, active>>
vars == <<server, troubles, phase, client, pool, worker>>

Servers == {"redis", "postgres"}
QueueName == {"maintenance", "outbox"}

Unconnected == [status |-> "none", attempts |-> 0]
Connecting(n) == [status |-> "connecting", attempts |-> n]
Ready == [status |-> "ready", attempts |-> 0]
Ended == [status |-> "end", attempts |-> 0]

Idle == [q \in QueueName |-> "none"]

Init ==
    /\ server = [s \in Servers |-> TRUE]
    /\ troubles = 0
    /\ phase = [p \in Processes |-> "down"]
    /\ client = [p \in Processes |-> Unconnected]
    /\ pool = [p \in Processes |-> FALSE]
    /\ stopped = FALSE
    /\ drain = "none"
    /\ consumer = Idle
    /\ active = {}

-----------------------------------------------------------------------------
(* The servers and the supervisor *)

Fails(s) ==
    /\ server[s]
    /\ troubles < MaxTroubles
    /\ troubles' = troubles + 1
    /\ server' = [server EXCEPT ![s] = FALSE]
    /\ UNCHANGED <<phase, client, pool, worker>>

Returns(s) ==
    /\ ~server[s]
    /\ server' = [server EXCEPT ![s] = TRUE]
    /\ UNCHANGED <<troubles, phase, client, pool, worker>>

\* What dies with a process.
Gone(p) ==
    /\ phase' = [phase EXCEPT ![p] = "down"]
    /\ client' = [client EXCEPT ![p] = Unconnected]
    /\ pool' = [pool EXCEPT ![p] = FALSE]
    /\ IF p = "worker"
       THEN stopped' = FALSE /\ drain' = "none" /\ consumer' = Idle /\ active' = {}
       ELSE UNCHANGED worker

\* The constructor of the client manager connects.
Start(p) ==
    /\ phase[p] = "down"
    /\ phase' = [phase EXCEPT ![p] = "init"]
    /\ client' = [client EXCEPT ![p] = Connecting(0)]
    /\ UNCHANGED <<server, troubles, pool, worker>>

Crash(p) ==
    /\ phase[p] # "down"
    /\ troubles < MaxTroubles
    /\ troubles' = troubles + 1
    /\ Gone(p)
    /\ UNCHANGED server

-----------------------------------------------------------------------------
(* The Redis client *)

\* null after the last retry, else the delay before the next.
RetryStrategy(n) == n <= Retries

AfterDrop == Connecting(0)

Connects(p) ==
    /\ client[p].status = "connecting" /\ server["redis"]
    /\ client' = [client EXCEPT ![p] = Ready]
    /\ UNCHANGED <<server, troubles, phase, pool, worker>>

\* The api's boot waits for 'ready' or the first 'error'; the worker's waits for
\* a command in the offline queue, which is rejected when the client ends.
BootFails(p, next) == p = "api" \/ next = Ended

Refused(p) ==
    /\ client[p].status = "connecting" /\ ~server["redis"]
    /\ LET n == client[p].attempts + 1
           next == IF RetryStrategy(n) THEN Connecting(n) ELSE Ended
       IN IF phase[p] = "init" /\ BootFails(p, next)
          THEN Gone(p)
          ELSE /\ client' = [client EXCEPT ![p] = next]
               /\ UNCHANGED <<phase, pool, worker>>
    /\ UNCHANGED <<server, troubles>>

Drops(p) ==
    /\ client[p] = Ready /\ ~server["redis"]
    /\ client' = [client EXCEPT ![p] = AfterDrop]
    /\ UNCHANGED <<server, troubles, phase, pool, worker>>

-----------------------------------------------------------------------------
(* Boot *)

\* DataSourceManager.onModuleInit; an error fails the boot.
Initialize(p) ==
    /\ phase[p] = "init" /\ ~pool[p]
    /\ IF server["postgres"]
       THEN pool' = [pool EXCEPT ![p] = TRUE] /\ UNCHANGED <<phase, client, worker>>
       ELSE Gone(p)
    /\ UNCHANGED <<server, troubles>>

\* app.listen, after every onModuleInit.
Listen ==
    /\ "api" \in Processes
    /\ phase["api"] = "init" /\ pool["api"] /\ client["api"] = Ready
    /\ phase' = [phase EXCEPT !["api"] = "up"]
    /\ UNCHANGED <<server, troubles, client, pool, worker>>

\* The hooks of WorkerModule that wait for nothing: two BullMQ workers and the
\* first tick of the relay.
StartConsumers ==
    /\ "worker" \in Processes
    /\ phase["worker"] = "init" /\ pool["worker"] /\ consumer = Idle
    /\ consumer' = [q \in QueueName |-> "open"]
    /\ stopped' = FALSE
    /\ drain' = "claiming"
    /\ UNCHANGED <<server, troubles, phase, client, pool, active>>

\* MaintenanceScheduler.onModuleInit upserts its schedulers; the context is up.
UpsertSchedulers ==
    /\ "worker" \in Processes
    /\ phase["worker"] = "init" /\ consumer # Idle /\ client["worker"] = Ready
    /\ phase' = [phase EXCEPT !["worker"] = "up"]
    /\ UNCHANGED <<server, troubles, client, pool, worker>>

-----------------------------------------------------------------------------
(* The worker's loops *)

NextTick == IF stopped THEN "none" ELSE "timer"

Tick ==
    /\ drain = "timer"
    /\ drain' = "claiming"
    /\ UNCHANGED <<server, troubles, phase, client, pool, stopped, consumer, active>>

\* claimBatch: rows, none, or an error that is logged.
Claim ==
    /\ drain = "claiming"
    /\ \/ pool["worker"] /\ server["postgres"] /\ drain' = "adding"
       \/ drain' = NextTick
    /\ UNCHANGED <<server, troubles, phase, client, pool, stopped, consumer, active>>

\* addOutboxJob waits in the offline queue of a client that still connects; it
\* throws on one that has ended or quit.  A full batch is followed by another.
Add ==
    /\ drain = "adding"
    /\ client["worker"].status # "connecting"
    /\ \/ client["worker"] = Ready /\ drain' = "claiming"
       \/ drain' = NextTick
    /\ UNCHANGED <<server, troubles, phase, client, pool, stopped, consumer, active>>

Takes(q) == consumer[q] = "open"

TakeJob(q) ==
    /\ Takes(q) /\ q \notin active
    /\ client["worker"] = Ready
    /\ active' = active \cup {q}
    /\ UNCHANGED <<server, troubles, phase, client, pool, stopped, drain, consumer>>

FinishJob(q) ==
    /\ q \in active
    /\ active' = active \ {q}
    /\ UNCHANGED <<server, troubles, phase, client, pool, stopped, drain, consumer>>

-----------------------------------------------------------------------------
(* Shutdown *)

Signal(p) ==
    /\ phase[p] = "up"
    /\ phase' = [phase EXCEPT ![p] = "closing"]
    /\ IF p = "worker"
       THEN /\ stopped' = TRUE
            /\ drain' = IF drain = "timer" THEN "none" ELSE drain
            /\ consumer' = [q \in QueueName |-> "closing"]
            /\ UNCHANGED active
       ELSE UNCHANGED worker
    /\ UNCHANGED <<server, troubles, client, pool>>

\* Mutant: close() is not awaited by the hook.
ClosesAtOnce(q) == TRUE
\* Worker.close waits for the job that runs.
MayClose(q) == q \notin active

CloseConsumer(q) ==
    /\ consumer[q] = "closing" /\ MayClose(q)
    /\ consumer' = [consumer EXCEPT ![q] = "closed"]
    /\ UNCHANGED <<server, troubles, phase, client, pool, stopped, drain, active>>

\* The modules WorkerModule imports are destroyed after it.
HooksDone(p) ==
    phase[p] = "closing" /\ (p = "worker" => \A q \in QueueName : consumer[q] = "closed")

\* quit() or disconnect()
Closes(p) == client[p] # Unconnected

CloseClient(p) ==
    /\ HooksDone(p) /\ Closes(p)
    /\ client' = [client EXCEPT ![p] = Unconnected]
    /\ UNCHANGED <<server, troubles, phase, pool, worker>>

Destroy(p) ==
    /\ HooksDone(p) /\ pool[p]
    /\ pool' = [pool EXCEPT ![p] = FALSE]
    /\ UNCHANGED <<server, troubles, phase, client, worker>>

Exit(p) ==
    /\ HooksDone(p) /\ ~pool[p] /\ client[p] = Unconnected
    /\ Gone(p)
    /\ UNCHANGED <<server, troubles>>

Progress(p) ==
    \/ Start(p) \/ Connects(p) \/ Refused(p) \/ Drops(p) \/ Initialize(p)
    \/ CloseClient(p) \/ Destroy(p) \/ Exit(p)

Loops ==
    \/ StartConsumers \/ UpsertSchedulers \/ Tick \/ Claim \/ Add
    \/ \E q \in QueueName : FinishJob(q) \/ CloseConsumer(q)

Next ==
    \/ \E s \in Servers : Fails(s) \/ Returns(s)
    \/ \E p \in Processes : Progress(p) \/ Crash(p) \/ Signal(p)
    \/ Listen \/ Loops
    \/ \E q \in QueueName : TakeJob(q)

Spec == Init /\ [][Next]_vars

\* Compose restarts what exits, ioredis reconnects, a hook that may return
\* returns, a handler ends.  Nothing makes an outage, a crash or a signal happen.
Fairness ==
    /\ \A p \in Processes : WF_vars(Progress(p))
    /\ WF_vars(Listen)
    /\ WF_vars(StartConsumers) /\ WF_vars(UpsertSchedulers)
    /\ WF_vars(Tick) /\ WF_vars(Claim) /\ WF_vars(Add)
    /\ \A q \in QueueName : WF_vars(FinishJob(q)) /\ WF_vars(CloseConsumer(q))

FairSpec == Spec /\ Fairness

-----------------------------------------------------------------------------
(* Probes *)

PostgresUp == pool["api"] /\ server["postgres"]
RedisUp == client["api"] = Ready /\ server["redis"]

\* HealthAggregator.ready of a process that answers.
ReadyProbe == phase["api"] \in {"up", "closing"} /\ PostgresUp /\ RedisUp

-----------------------------------------------------------------------------
(* Properties *)

TypeOK ==
    /\ server \in [Servers -> BOOLEAN] /\ troubles \in 0..MaxTroubles
    /\ phase \in [Processes -> {"down", "init", "up", "closing"}]
    /\ client \in [Processes -> {Unconnected, Ready, Ended} \cup {Connecting(n) : n \in 0..Retries}]
    /\ pool \in [Processes -> BOOLEAN] /\ stopped \in BOOLEAN
    /\ drain \in {"none", "timer", "claiming", "adding"}
    /\ consumer \in [QueueName -> {"none", "open", "closing", "closed"}]
    /\ active \subseteq QueueName

\* MaintenanceProcessorService, OutboxEventProcessorService: onModuleDestroy waits
\* for the job that runs, so no handler meets a destroyed DataSource.
JobsHaveThePool == active # {} => pool["worker"]

\* OutboxRelayService.onModuleDestroy: the drain that runs may finish, but no tick
\* starts once the service is stopped.
NoTickAfterStop == stopped => drain # "timer"

\* main.ts and the restart policy: however a boot fails, a process is up again
\* once the servers stay up, however often it is stopped.
BootsEventually ==
    \A p \in Processes :
       <>[](server["redis"] /\ server["postgres"]) => []<>(phase[p] \in {"up", "closing"})

\* SIGTERM: a shutdown ends.
ShutdownEnds == \A p \in Processes : phase[p] = "closing" ~> phase[p] = "down"

\* A process that is up and whose servers stay up gets its client back, or the
\* client has used up its retries in an outage: it never stays half connected.
ReconnectsOrEnds ==
    \A p \in Processes :
       <>[](server["redis"] /\ phase[p] = "up") => <>[](client[p] = Ready \/ client[p] = Ended)

\* ADR-035: "GET /ready (Postgres SELECT 1 + Redis PING; 200 when all up, 503
\* otherwise)".  Not after an outage longer than the retries: the client has ended
\* for good and nothing restarts the process.
ReadyWhenAllUp ==
    <>[](server["redis"] /\ server["postgres"] /\ phase["api"] = "up") => <>[]ReadyProbe
=============================================================================
