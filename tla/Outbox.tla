------------------------------- MODULE Outbox -------------------------------
(***************************************************************************)
(* The transactional outbox and its delivery: use cases that insert outbox *)
(* rows in their transaction (PostgresEventPublisher), worker processes    *)
(* that claim pending rows and enqueue BullMQ jobs (OutboxRelayService,    *)
(* OutboxRelay), the job processor that dispatches a row and records the   *)
(* result (OutboxEventProcessorService), and the maintenance job that      *)
(* returns stale rows to pending.  BullMQ and Redis are modelled from the  *)
(* options this code gives them and from what it relies on.                *)
(***************************************************************************)
EXTENDS Integers, FiniteSets

CONSTANTS
    Worker,         \* worker processes: each runs one relay and one processor
    NoWorker,       \* "no worker holds the job's lock"
    MaxRow,         \* outbox rows 1..MaxRow, numbered in created_at order
    BatchSize,      \* outbox.batchSize
    ReclaimLimit,   \* PURGE_BATCH_SIZE
    MaxAttempts,    \* DefaultJobOptions.attempts
    MaxStalled,     \* BullMQ's maxStalledCount
    Poison,         \* rows whose dispatch always throws
    MaxFaults       \* bound: how many faults a behaviour has

Row == 1..MaxRow

ASSUME WorkerAssumption == NoWorker \notin Worker
ASSUME SizeAssumption ==
    /\ MaxRow \in Nat
    /\ BatchSize \in Nat \ {0}
    /\ ReclaimLimit \in Nat \ {0}
    /\ MaxAttempts \in Nat \ {0}
    /\ MaxStalled \in Nat
    /\ MaxFaults \in Nat
ASSUME PoisonAssumption == Poison \subseteq Row

VARIABLES
    domain,     \* [Row -> ...]: the transaction that makes the domain change
    status,     \* [Row -> ...]: outbox.status ("absent": no row)
    stale,      \* rows whose updated_at is older than staleProcessingMs
    relay,      \* [Worker -> [pc, batch]]: OutboxRelayService's drain loop
    job,        \* [Row -> ...]: the BullMQ job whose jobId is the row's id
    exec,       \* [Worker -> [pc, row, made]]: the processor's #process call
    maintenance,\* whether Redis holds the schedule of the maintenance jobs
    deliveries, \* history: completed dispatches of a row, counted up to 2
    throws,     \* history: #process calls that threw, up to MaxAttempts
    faults      \* faults still to come

environment == <<domain, maintenance>>
rowVars == <<status, stale>>
history == <<deliveries, throws>>
vars == <<domain, status, stale, relay, job, exec, maintenance, deliveries, throws, faults>>

NoJob  == [state |-> "none", made |-> 0, stalls |-> 0, owner |-> NoWorker]
NewJob == [NoJob EXCEPT !.state = "waiting"]
IdleRelay == [pc |-> "idle", batch |-> {}]
IdleExec  == [pc |-> "idle", row |-> 1, made |-> 0]

RelayState == [pc : {"idle", "selected", "enqueueing"}, batch : SUBSET Row]
JobState == [state : {"none", "waiting", "active", "completed", "failed"},
             made : 0..MaxAttempts,
             stalls : 0..(MaxStalled + 1),
             owner : Worker \union {NoWorker}]
ExecState == [pc : {"idle", "reading", "dispatching", "completing",
                    "recording", "returned", "thrown"},
              row : Nat,
              made : 0..MaxAttempts]

TypeOK ==
    /\ domain \in [Row -> {"none", "open", "committed", "rolledback"}]
    /\ status \in [Row -> {"absent", "uncommitted", "pending", "processing",
                           "processed", "failed"}]
    /\ stale \subseteq Row
    /\ relay \in [Worker -> RelayState]
    /\ job \in [Row -> JobState]
    /\ exec \in [Worker -> ExecState]
    /\ \A w \in Worker : exec[w].pc # "idle" => exec[w].row \in Row
    /\ maintenance \in {"scheduled", "lost"}
    /\ deliveries \in [Row -> 0..2]
    /\ throws \in [Row -> 0..MaxAttempts]
    /\ faults \in 0..MaxFaults

Init ==
    /\ domain = [r \in Row |-> "none"]
    /\ status = [r \in Row |-> "absent"]
    /\ stale = {}
    /\ relay = [w \in Worker |-> IdleRelay]
    /\ job = [r \in Row |-> NoJob]
    /\ exec = [w \in Worker |-> IdleExec]
    /\ maintenance = "scheduled"
    /\ deliveries = [r \in Row |-> 0]
    /\ throws = [r \in Row |-> 0]
    /\ faults = MaxFaults

Fault == faults > 0 /\ faults' = faults - 1

-----------------------------------------------------------------------------
(* The publishing use case: one transaction around the domain change.      *)

\* publish() in the ambient transaction: the row is inserted with status
\* pending, which nobody else sees before the commit.
PublishOutsideTransaction(r) ==
    /\ domain[r] = "none"
    /\ domain' = [domain EXCEPT ![r] = "open"]
    /\ status' = [status EXCEPT ![r] = "pending"]
    /\ UNCHANGED <<stale, relay, job, exec, maintenance, history, faults>>

Publish(r) ==
    /\ domain[r] = "none"
    /\ domain' = [domain EXCEPT ![r] = "open"]
    /\ status' = [status EXCEPT ![r] = "uncommitted"]
    /\ UNCHANGED <<stale, relay, job, exec, maintenance, history, faults>>

Commit(r) ==
    /\ domain[r] = "open"
    /\ domain' = [domain EXCEPT ![r] = "committed"]
    /\ status' = [status EXCEPT ![r] = IF @ = "uncommitted" THEN "pending" ELSE @]
    /\ UNCHANGED <<stale, relay, job, exec, maintenance, history, faults>>

\* A later statement of the use case throws: the row goes with the rest.
Rollback(r) ==
    /\ domain[r] = "open"
    /\ domain' = [domain EXCEPT ![r] = "rolledback"]
    /\ status' = [status EXCEPT ![r] = IF @ = "uncommitted" THEN "absent" ELSE @]
    /\ UNCHANGED <<stale, relay, job, exec, maintenance, history, faults>>

-----------------------------------------------------------------------------
(* OutboxRelay.claimBatch and OutboxRelayService.#drain.                    *)

Locked == UNION {relay[w].batch : w \in {v \in Worker : relay[v].pc = "selected"}}

ClaimableIgnoringLocks == {r \in Row : status[r] = "pending"}

\* WHERE status = 'pending' ... FOR UPDATE SKIP LOCKED
Claimable == {r \in Row : status[r] = "pending" /\ r \notin Locked}

\* ORDER BY created_at LIMIT n
Oldest(S, n) ==
    {r \in S : Cardinality({s \in S : s < r}) < n}

SelectPending(w) ==
    /\ relay[w].pc = "idle"
    /\ Claimable # {}
    /\ relay' = [relay EXCEPT ![w] = [pc |-> "selected",
                                      batch |-> Oldest(Claimable, BatchSize)]]
    /\ UNCHANGED <<environment, rowVars, job, exec, history, faults>>

\* UPDATE ... WHERE id = ANY(ids), and the commit that releases the locks.
ClaimBatch(w) ==
    /\ relay[w].pc = "selected"
    /\ status' = [r \in Row |-> IF r \in relay[w].batch THEN "processing" ELSE status[r]]
    /\ stale' = stale \ relay[w].batch
    /\ relay' = [relay EXCEPT ![w].pc = "enqueueing"]
    /\ UNCHANGED <<environment, job, exec, history, faults>>

\* The claim transaction fails and rolls back; #drainSafely logs.
ClaimThrows(w) ==
    /\ relay[w].pc = "selected"
    /\ Fault
    /\ relay' = [relay EXCEPT ![w] = IdleRelay]
    /\ UNCHANGED <<environment, rowVars, job, exec, history>>

\* Queue.add with jobId = outboxId: ignored while a job of that id exists,
\* also one kept after it completed or failed.
AddJob(r) == IF job[r].state = "none" THEN NewJob ELSE job[r]

Enqueue(w, r) ==
    /\ relay[w].pc = "enqueueing"
    /\ r \in relay[w].batch
    /\ \A s \in relay[w].batch : r <= s
    /\ job' = [job EXCEPT ![r] = AddJob(r)]
    /\ relay' = [relay EXCEPT ![w] =
                    IF relay[w].batch = {r} THEN IdleRelay
                    ELSE [pc |-> "enqueueing", batch |-> relay[w].batch \ {r}]]
    /\ UNCHANGED <<environment, rowVars, exec, history, faults>>

\* addOutboxJob rejects: the rest of the batch is abandoned in 'processing'.
EnqueueThrows(w) ==
    /\ relay[w].pc = "enqueueing"
    /\ Fault
    /\ relay' = [relay EXCEPT ![w] = IdleRelay]
    /\ UNCHANGED <<environment, rowVars, job, exec, history>>

-----------------------------------------------------------------------------
(* OutboxEventProcessorService.#process, run by the BullMQ worker.         *)

Running(w, r) == exec[w].pc # "idle" /\ exec[w].row = r
Owns(w) == LET j == job[exec[w].row] IN j.state = "active" /\ j.owner = w

Taken(j, w) == [j EXCEPT !.state = "active", !.owner = w]

Take(w, r) ==
    /\ exec[w].pc = "idle"
    /\ job[r].state = "waiting"
    /\ job' = [job EXCEPT ![r] = Taken(@, w)]
    /\ exec' = [exec EXCEPT ![w] = [pc |-> "reading", row |-> r, made |-> job[r].made]]
    /\ UNCHANGED <<environment, rowVars, relay, history, faults>>

Goto(w, pc) == exec' = [exec EXCEPT ![w].pc = pc]

\* A row that is not 'processing' when the job runs is skipped, and the job
\* completes.
Dispatches(r) == status[r] = "processing"

FindById(w) ==
    /\ exec[w].pc = "reading"
    /\ Goto(w, IF Dispatches(exec[w].row) THEN "dispatching" ELSE "returned")
    /\ UNCHANGED <<environment, rowVars, relay, job, history, faults>>

CountThrow(w) ==
    throws' = [throws EXCEPT ![exec[w].row] = IF @ < MaxAttempts THEN @ + 1 ELSE @]

\* findById is outside the try: it throws past relay.fail even on the last
\* attempt.
FindByIdThrows(w) ==
    /\ exec[w].pc = "reading"
    /\ Fault
    /\ Goto(w, "thrown")
    /\ CountThrow(w)
    /\ UNCHANGED <<environment, rowVars, relay, job, deliveries>>

\* All handlers return.
Dispatch(w) ==
    /\ exec[w].pc = "dispatching"
    /\ exec[w].row \notin Poison
    /\ deliveries' = [deliveries EXCEPT ![exec[w].row] = IF @ < 2 THEN @ + 1 ELSE @]
    /\ Goto(w, "completing")
    /\ UNCHANGED <<environment, rowVars, relay, job, throws, faults>>

\* The catch block: on the last attempt relay.fail is called, then rethrown.
LastAttemptTooEarly(w) == exec[w].made + 2 >= MaxAttempts
LastAttemptTooLate(w) == exec[w].made >= MaxAttempts
LastAttempt(w) == exec[w].made + 1 >= MaxAttempts

CatchSwallows(w) == Goto(w, "completing") /\ CountThrow(w)

Catch(w) ==
    /\ Goto(w, IF LastAttempt(w) THEN "recording" ELSE "thrown")
    /\ CountThrow(w)

DispatchThrows(w) ==
    /\ exec[w].pc = "dispatching"
    /\ IF exec[w].row \in Poison THEN UNCHANGED faults ELSE Fault
    /\ Catch(w)
    /\ UNCHANGED <<environment, rowVars, relay, job, deliveries>>

\* UPDATE ... WHERE id AND status = 'processing', which also sets updated_at.
SetFinalUnguarded(r, final) ==
    /\ status' = [status EXCEPT ![r] = final]
    /\ stale' = stale \ {r}

SetFinal(r, final) ==
    IF status[r] = "processing"
    THEN /\ status' = [status EXCEPT ![r] = final]
         /\ stale' = stale \ {r}
    ELSE UNCHANGED rowVars

Complete(w) ==
    /\ exec[w].pc = "completing"
    /\ SetFinal(exec[w].row, "processed")
    /\ Goto(w, "returned")
    /\ UNCHANGED <<environment, relay, job, history, faults>>

CompleteThrows(w) ==
    /\ exec[w].pc = "completing"
    /\ Fault
    /\ Catch(w)
    /\ UNCHANGED <<environment, rowVars, relay, job, deliveries>>

RecordFailure(w) ==
    /\ exec[w].pc = "recording"
    /\ SetFinal(exec[w].row, "failed")
    /\ Goto(w, "thrown")
    /\ UNCHANGED <<environment, relay, job, history, faults>>

RecordFailureThrows(w) ==
    /\ exec[w].pc = "recording"
    /\ Fault
    /\ Goto(w, "thrown")
    /\ UNCHANGED <<environment, rowVars, relay, job, history>>

\* BullMQ moves the job when the handler settles, unless its lock was lost.
Finished(j) == [j EXCEPT !.state = "completed", !.owner = NoWorker]

JobReturned(w) ==
    /\ exec[w].pc = "returned"
    /\ job' = IF Owns(w) THEN [job EXCEPT ![exec[w].row] = Finished(@)] ELSE job
    /\ exec' = [exec EXCEPT ![w] = IdleExec]
    /\ UNCHANGED <<environment, rowVars, relay, history, faults>>

RetriedOnceMore(j) ==
    [state |-> IF j.made + 1 <= MaxAttempts THEN "waiting" ELSE "failed",
     made |-> j.made + 1, stalls |-> j.stalls, owner |-> NoWorker]

Retried(j) ==
    [state |-> IF j.made + 1 < MaxAttempts THEN "waiting" ELSE "failed",
     made |-> j.made + 1, stalls |-> j.stalls, owner |-> NoWorker]

JobThrew(w) ==
    /\ exec[w].pc = "thrown"
    /\ job' = IF Owns(w) THEN [job EXCEPT ![exec[w].row] = Retried(@)] ELSE job
    /\ exec' = [exec EXCEPT ![w] = IdleExec]
    /\ UNCHANGED <<environment, rowVars, relay, history, faults>>

-----------------------------------------------------------------------------
(* Maintenance: reclaimStaleProcessing.                                     *)

InFlight(r) ==
    \/ job[r].state \in {"waiting", "active"}
    \/ \E w \in Worker : r \in relay[w].batch \/ Running(w, r)

\* staleProcessingMs pass since the row became 'processing'.  That a delivery
\* still in flight takes so long counts as a fault (a backlog, a pause).
GrowStale(r) ==
    /\ status[r] = "processing"
    /\ r \notin stale
    /\ IF InFlight(r) THEN Fault ELSE UNCHANGED faults
    /\ stale' = stale \union {r}
    /\ UNCHANGED <<environment, status, relay, job, exec, history>>

Reclaimable == {r \in stale : status[r] = "processing"}

\* ORDER BY updated_at LIMIT n: which rows are the oldest is left open.
ReclaimStaleProcessing ==
    /\ maintenance = "scheduled"
    /\ \E batch \in SUBSET Reclaimable :
           /\ batch # {}
           /\ \/ batch = Reclaimable /\ Cardinality(batch) <= ReclaimLimit
              \/ Cardinality(batch) = ReclaimLimit
           /\ status' = [r \in Row |-> IF r \in batch THEN "pending" ELSE status[r]]
           /\ stale' = stale \ batch
           /\ UNCHANGED <<environment, relay, job, exec, history, faults>>

-----------------------------------------------------------------------------
(* BullMQ housekeeping and the failures of processes and of Redis.          *)

\* The stalled-job check: back to the queue, or failed without a handler run.
Stalled(j) ==
    [state |-> IF j.stalls + 1 > MaxStalled THEN "failed" ELSE "waiting",
     made |-> j.made, stalls |-> j.stalls + 1, owner |-> NoWorker]

StallMove(r) == job' = [job EXCEPT ![r] = Stalled(@)]

Orphaned(r) == job[r].state = "active" /\ ~Running(job[r].owner, r)

RecoverStalled(r) ==
    /\ Orphaned(r)
    /\ StallMove(r)
    /\ UNCHANGED <<environment, rowVars, relay, exec, history, faults>>

\* The worker is alive but did not renew its lock in time: it runs on.
LoseLock(r) ==
    /\ job[r].state = "active" /\ ~Orphaned(r)
    /\ Fault
    /\ StallMove(r)
    /\ UNCHANGED <<environment, rowVars, relay, exec, history>>

\* removeOnComplete / removeOnFail: BullMQ looks for finished jobs past their
\* age, or beyond the count, when another job of the queue finishes.  That may
\* be the job of a row that is not followed here, or never come to pass.
Evict(r) ==
    /\ job[r].state \in {"completed", "failed"}
    /\ job' = [job EXCEPT ![r] = NoJob]
    /\ UNCHANGED <<environment, rowVars, relay, exec, history, faults>>

\* Redis restarts, empty: the schedule of the maintenance jobs goes too.
RedisLoss ==
    /\ Fault
    /\ job' = [r \in Row |-> NoJob]
    /\ maintenance' = "lost"
    /\ UNCHANGED <<domain, rowVars, relay, exec, history>>

\* The process dies and is started again: an open claim rolls back, the rest
\* is forgotten, MaintenanceScheduler.onModuleInit registers the schedule.
\* A process that is stopped while idle, by a deployment, loses nothing.
Crash(w) ==
    /\ IF relay[w].pc = "idle" /\ exec[w].pc = "idle" THEN UNCHANGED faults ELSE Fault
    /\ relay' = [relay EXCEPT ![w] = IdleRelay]
    /\ exec' = [exec EXCEPT ![w] = IdleExec]
    /\ maintenance' = "scheduled"
    /\ UNCHANGED <<domain, rowVars, job, history>>

-----------------------------------------------------------------------------
Relay(w) == SelectPending(w) \/ ClaimBatch(w) \/ \E r \in Row : Enqueue(w, r)

Process(w) ==
    \/ FindById(w) \/ Dispatch(w) \/ Complete(w) \/ RecordFailure(w)
    \/ JobReturned(w) \/ JobThrew(w)

Failure(w) ==
    \/ ClaimThrows(w) \/ EnqueueThrows(w) \/ FindByIdThrows(w)
    \/ DispatchThrows(w) \/ CompleteThrows(w) \/ RecordFailureThrows(w)
    \/ Crash(w)

Next ==
    \/ \E r \in Row : Publish(r) \/ Commit(r) \/ Rollback(r)
    \/ \E w \in Worker : Relay(w) \/ Process(w) \/ Failure(w)
    \/ \E w \in Worker, r \in Row : Take(w, r)
    \/ \E r \in Row : GrowStale(r) \/ RecoverStalled(r) \/ LoseLock(r) \/ Evict(r)
    \/ ReclaimStaleProcessing
    \/ RedisLoss

Spec == Init /\ [][Next]_vars

\* Workers keep polling and processing, scheduled maintenance runs, BullMQ
\* keeps checking for stalled jobs; a poisoned dispatch ends by throwing.  The
\* reclaim takes the oldest first, so every stale row has its turn.  Faults
\* have no fairness and run out.  Eviction has none either: on a queue without
\* later jobs a finished job is kept for ever.
Fairness ==
    /\ \A w \in Worker :
        /\ WF_vars(Relay(w))
        /\ WF_vars(Process(w))
        /\ WF_vars(exec[w].row \in Poison /\ DispatchThrows(w))
    /\ \A r \in Row :
        /\ WF_vars(\E w \in Worker : Take(w, r))
        /\ WF_vars(~InFlight(r) /\ GrowStale(r))
        /\ WF_vars(RecoverStalled(r))
        /\ WF_vars(ReclaimStaleProcessing /\ r \in Reclaimable /\ r \notin stale')

FairSpec == Spec /\ Fairness

-----------------------------------------------------------------------------
(* Properties.                                                              *)

\* At-least-once: a row is marked processed only after every handler of its
\* event returned (complete() comes after the dispatch, never at enqueue).
ProcessedWasDispatched ==
    \A r \in Row : status[r] = "processed" => deliveries[r] > 0

\* The outbox row and the domain change are atomic: no handler ever sees an
\* event whose transaction has not committed.
OnlyCommittedDispatched ==
    \A r \in Row : deliveries[r] > 0 => domain[r] = "committed"

\* A row is given up only after MaxAttempts calls of #process threw for it,
\* whatever stalls, re-enqueues and overlapping executions happened between.
FailedWasRetried ==
    \A r \in Row : status[r] = "failed" => throws[r] >= MaxAttempts

\* Handlers see an event twice only if something went wrong: a crash, an
\* error, a lost lock, a lost Redis or a delivery that outlived the window.
DuplicateNeedsFault ==
    (\E r \in Row : deliveries[r] > 1) => faults < MaxFaults

\* processed and failed are final: no late complete, fail, claim or reclaim
\* of another worker puts the row back into circulation.
FinalStatusStays ==
    [][\A r \in Row : status[r] \in {"processed", "failed"}
                        => status'[r] = status[r]]_vars

Settled(r) == status[r] \in {"processed", "failed"}

\* A finished job still has the jobId of the row.
Retained(r) == job[r].state \in {"completed", "failed"}

\* A pending row ends, or it is claimed and reclaimed for ever behind a
\* finished job of its own that nothing evicts, to which add() adds nothing.
SettlesOrStaysBehindItsJob(r) ==
    status[r] = "pending" ~> (Settled(r) \/ [](Retained(r) /\ ~Settled(r)))

\* Every committed event is eventually processed or given up, once faults
\* stop: a row left 'processing' by a crash, a stall or a lost job is
\* reclaimed and delivered, as long as there is a schedule to reclaim it.  The
\* one thing that keeps a row from its end is a finished job that BullMQ never
\* evicts, and without a fault no row gets there.
EverySettles ==
    /\ <>[](maintenance = "scheduled") => \A r \in Row : SettlesOrStaysBehindItsJob(r)
    /\ [](faults = MaxFaults) => \A r \in Row : status[r] = "pending" ~> Settled(r)

\* "Lost in-flight BullMQ jobs are recovered by reclaiming stale processing
\* rows": the same with nothing assumed of the schedule.
LostJobsRecovered == \A r \in Row : SettlesOrStaysBehindItsJob(r)

\* The same with nothing assumed of the eviction: a row that is reclaimed is
\* delivered.
ReclaimedRowSettles ==
    <>[](maintenance = "scheduled") => \A r \in Row : status[r] = "pending" ~> Settled(r)

\* "The worker relay claims pending -> processing and enqueues a BullMQ
\* outbox job": after the relay's enqueue of a row a job for it is queued.
ClaimedRowGetsJob ==
    [][\A w \in Worker, r \in Row :
            Enqueue(w, r) /\ status[r] = "processing"
                => job'[r].state \in {"waiting", "active"}]_vars

(* The outbox implements EventDelivery.                                     *)
Outcome(r) ==
    CASE status[r] \in {"absent", "uncommitted"} -> "unpublished"
      [] status[r] \in {"pending", "processing"} -> "owed"
      [] status[r] = "processed" -> "settled"
      [] status[r] = "failed" -> "givenUp"

Delivery == INSTANCE EventDelivery WITH
    Event   <- Row,
    outcome <- [r \in Row |-> Outcome(r)],
    handled <- {r \in Row : deliveries[r] > 0}

\* Claims, jobs, retries, reclaims and crashes are invisible to the promise.
ImplementsDelivery == Delivery!Spec
=============================================================================
