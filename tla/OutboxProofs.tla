---------------------------- MODULE OutboxProofs ----------------------------
(***************************************************************************)
(* Theorems about Outbox for every number of workers, rows, attempts and   *)
(* faults: type correctness, the safety invariants, the finality of        *)
(* processed and failed, and the refinement of EventDelivery.              *)
(***************************************************************************)
EXTENDS Outbox, TLAPS

-----------------------------------------------------------------------------
(* Type correctness.  Counters stay in range because a job that may still  *)
(* run has attempts left and has not stalled more than allowed.            *)

RunnableJobInRange ==
    \A r \in Row : job[r].state \in {"waiting", "active"} =>
        /\ job[r].made < MaxAttempts
        /\ job[r].stalls <= MaxStalled

TypeInv == TypeOK /\ RunnableJobInRange

\* The records the actions write are well typed.
LEMMA RecordTypes ==
  /\ NoJob \in JobState /\ NewJob \in JobState
  /\ IdleRelay \in RelayState /\ IdleExec \in ExecState
  /\ NewJob.made < MaxAttempts /\ NewJob.stalls <= MaxStalled
  /\ NoJob.state = "none" /\ NewJob.state = "waiting"
  BY SizeAssumption
  DEF NoJob, NewJob, IdleRelay, IdleExec, JobState, RelayState, ExecState

\* The initial state is well typed.
LEMMA InitTypeInv == Init => TypeInv
  BY SizeAssumption, RecordTypes
  DEF Init, TypeInv, TypeOK, RunnableJobInRange, IdleExec

\* The publishing transaction keeps the types.
LEMMA PublishTypeInv ==
  ASSUME TypeInv, NEW r \in Row, Publish(r) \/ Commit(r) \/ Rollback(r)
  PROVE  TypeInv'
<1> USE DEF TypeInv, TypeOK, RunnableJobInRange
<1>1. CASE Publish(r)
  BY <1>1 DEF Publish, history
<1>2. CASE Commit(r)
  BY <1>2 DEF Commit, history
<1>3. CASE Rollback(r)
  BY <1>3 DEF Rollback, history
<1> QED
  BY <1>1, <1>2, <1>3

\* The relay's loop keeps the types.
LEMMA RelayTypeInv ==
  ASSUME TypeInv, NEW w \in Worker,
         Relay(w) \/ ClaimThrows(w) \/ EnqueueThrows(w)
  PROVE  TypeInv'
<1> USE RecordTypes DEF TypeInv, TypeOK, RunnableJobInRange
<1>1. CASE SelectPending(w)
  BY <1>1 DEF SelectPending, Oldest, Claimable, RelayState, environment, rowVars, history
<1>2. CASE ClaimBatch(w)
  BY <1>2 DEF ClaimBatch, RelayState, environment, history
<1>3. ASSUME NEW r \in Row, Enqueue(w, r)
      PROVE  TypeInv'
  <2>1. AddJob(r) \in JobState /\ AddJob(r).state # "none"
        /\ (AddJob(r) = job[r] \/ AddJob(r) = NewJob)
    BY DEF AddJob, JobState
  <2>2. job' \in [Row -> JobState] /\ RunnableJobInRange'
    BY <1>3, <2>1 DEF Enqueue
  <2>3. relay' \in [Worker -> RelayState]
    BY <1>3 DEF Enqueue, RelayState
  <2> QED
    BY <1>3, <2>2, <2>3 DEF Enqueue, environment, rowVars, history
<1>4. CASE ClaimThrows(w) \/ EnqueueThrows(w)
  BY <1>4, SizeAssumption
  DEF ClaimThrows, EnqueueThrows, Fault, environment, rowVars, history
<1> QED
  BY <1>1, <1>2, <1>3, <1>4 DEF Relay

\* A well-typed execution state moved to another program point.
LEMMA GotoType ==
  ASSUME TypeInv, NEW w \in Worker, exec[w].pc # "idle",
         NEW pc \in {"reading", "dispatching", "completing", "recording",
                     "returned", "thrown"},
         Goto(w, pc)
  PROVE  /\ exec' \in [Worker -> ExecState]
         /\ \A v \in Worker : exec'[v].pc # "idle" => exec'[v].row \in Row
  BY DEF TypeInv, TypeOK, Goto, ExecState

\* A job in range stays in range when it is taken, finished or retried ...
LEMMA JobMoveTypes ==
  ASSUME NEW j \in JobState, NEW w \in Worker
  PROVE  /\ Taken(j, w) \in JobState
         /\ Taken(j, w).made = j.made /\ Taken(j, w).stalls = j.stalls
         /\ Finished(j) \in JobState /\ Finished(j).state = "completed"
         /\ j.made < MaxAttempts =>
              /\ Retried(j) \in JobState
              /\ Retried(j).state # "active"
              /\ Retried(j).stalls = j.stalls
              /\ Retried(j).state = "waiting" => Retried(j).made < MaxAttempts
<1> USE SizeAssumption DEF JobState
<1>1. Taken(j, w) \in JobState /\ Taken(j, w).made = j.made /\ Taken(j, w).stalls = j.stalls
  BY DEF Taken
<1>2. Finished(j) \in JobState /\ Finished(j).state = "completed"
  BY DEF Finished
<1>3. ASSUME j.made < MaxAttempts
      PROVE  /\ Retried(j) \in JobState
             /\ Retried(j).state # "active"
             /\ Retried(j).stalls = j.stalls
             /\ Retried(j).state = "waiting" => Retried(j).made < MaxAttempts
  <2>1. j.made + 1 \in 0..MaxAttempts
    BY <1>3
  <2> QED
    BY <1>3, <2>1 DEF Retried
<1> QED
  BY <1>1, <1>2, <1>3

\* ... and when it is found stalled.
LEMMA StalledType ==
  ASSUME NEW j \in JobState, j.stalls <= MaxStalled
  PROVE  /\ Stalled(j) \in JobState
         /\ Stalled(j).state # "active"
         /\ Stalled(j).made = j.made
         /\ Stalled(j).state = "waiting" => Stalled(j).stalls <= MaxStalled
<1>1. j.stalls + 1 \in 0..(MaxStalled + 1)
  BY SizeAssumption DEF JobState
<1> QED
  BY <1>1, SizeAssumption DEF Stalled, JobState

\* The processor keeps the types.
LEMMA ProcessTypeInv ==
  ASSUME TypeInv, NEW w \in Worker,
         Process(w) \/ FindByIdThrows(w) \/ DispatchThrows(w)
         \/ CompleteThrows(w) \/ RecordFailureThrows(w)
  PROVE  TypeInv'
<1> USE GotoType, SizeAssumption DEF TypeInv, TypeOK, RunnableJobInRange
<1>1. CASE FindById(w)
  BY <1>1 DEF FindById, environment, rowVars, history
<1>2. CASE Dispatch(w)
  BY <1>2 DEF Dispatch, environment, rowVars
<1>3. CASE Complete(w) \/ RecordFailure(w)
  BY <1>3 DEF Complete, RecordFailure, SetFinal, rowVars, environment, history
<1>4. CASE FindByIdThrows(w)
  BY <1>4 DEF FindByIdThrows, CountThrow, Fault, environment, rowVars
<1>5. CASE DispatchThrows(w)
  BY <1>5 DEF DispatchThrows, Catch, CountThrow, Fault, environment, rowVars
<1>6. CASE CompleteThrows(w)
  BY <1>6 DEF CompleteThrows, Catch, CountThrow, Fault, environment, rowVars
<1>7. CASE RecordFailureThrows(w)
  BY <1>7 DEF RecordFailureThrows, Fault, environment, rowVars, history
<1>8. CASE JobReturned(w)
  <2>1. job' \in [Row -> JobState] /\ RunnableJobInRange'
    BY <1>8, JobMoveTypes DEF JobReturned, Owns
  <2> QED
    BY <1>8, <2>1, RecordTypes DEF JobReturned, IdleExec, environment, rowVars, history
<1>9. CASE JobThrew(w)
  <2>1. job' \in [Row -> JobState] /\ RunnableJobInRange'
    BY <1>9, JobMoveTypes DEF JobThrew, Owns
  <2> QED
    BY <1>9, <2>1, RecordTypes DEF JobThrew, IdleExec, environment, rowVars, history
<1> QED
  BY <1>1, <1>2, <1>3, <1>4, <1>5, <1>6, <1>7, <1>8, <1>9 DEF Process

\* BullMQ's moves and the passing of time keep the types.
LEMMA QueueTypeInv ==
  ASSUME TypeInv, NEW r \in Row,
         (\E w \in Worker : Take(w, r)) \/ GrowStale(r) \/ RecoverStalled(r)
         \/ LoseLock(r) \/ Evict(r)
  PROVE  TypeInv'
<1> USE SizeAssumption, RecordTypes, JobMoveTypes DEF TypeInv, TypeOK, RunnableJobInRange
<1>1. ASSUME NEW w \in Worker, Take(w, r)
      PROVE  TypeInv'
  <2> DEFINE x == [pc |-> "reading", row |-> r, made |-> job[r].made]
  <2>1. Taken(job[r], w) \in JobState
        /\ Taken(job[r], w).made = job[r].made /\ Taken(job[r], w).stalls = job[r].stalls
    OBVIOUS
  <2>2. job' = [job EXCEPT ![r] = Taken(job[r], w)] /\ job[r].state = "waiting"
        /\ exec' = [exec EXCEPT ![w] = x]
    BY <1>1 DEF Take
  <2>3. job' \in [Row -> JobState] /\ RunnableJobInRange'
    BY <2>1, <2>2
  <2>4. x \in ExecState /\ x.row = r
    BY DEF ExecState, JobState, Row
  <2>5. exec' \in [Worker -> ExecState]
        /\ \A v \in Worker : exec'[v].pc # "idle" => exec'[v].row \in Row
    BY <2>2, <2>4
  <2> QED
    BY <1>1, <2>3, <2>5 DEF Take, environment, rowVars, history
<1>2. CASE GrowStale(r)
  BY <1>2 DEF GrowStale, Fault, environment, history
<1>3. CASE RecoverStalled(r) \/ LoseLock(r)
  <2>1. job[r].state = "active" /\ job' = [job EXCEPT ![r] = Stalled(job[r])]
    BY <1>3 DEF RecoverStalled, LoseLock, Orphaned, StallMove
  <2>2. Stalled(job[r]) \in JobState
        /\ Stalled(job[r]).state # "active"
        /\ Stalled(job[r]).made = job[r].made
        /\ (Stalled(job[r]).state = "waiting" => Stalled(job[r]).stalls <= MaxStalled)
    <3>1. job[r] \in JobState /\ job[r].stalls <= MaxStalled
      BY <2>1
    <3> QED
      BY <3>1, StalledType
  <2>3. job' \in [Row -> JobState] /\ RunnableJobInRange'
    BY <2>1, <2>2
  <2> QED
    BY <1>3, <2>3 DEF RecoverStalled, LoseLock, Fault, environment, rowVars, history
<1>4. CASE Evict(r)
  BY <1>4 DEF Evict, environment, rowVars, history
<1> QED
  BY <1>1, <1>2, <1>3, <1>4

\* The maintenance job, the loss of Redis and a crash keep the types.
LEMMA SystemTypeInv ==
  ASSUME TypeInv,
         ReclaimStaleProcessing \/ RedisLoss \/ (\E w \in Worker : Crash(w))
  PROVE  TypeInv'
<1> USE SizeAssumption, RecordTypes DEF TypeInv, TypeOK, RunnableJobInRange
<1>1. CASE ReclaimStaleProcessing
  BY <1>1 DEF ReclaimStaleProcessing, environment, history
<1>2. CASE RedisLoss
  BY <1>2 DEF RedisLoss, Fault, environment, rowVars, history
<1>3. ASSUME NEW w \in Worker, Crash(w)
      PROVE  TypeInv'
  BY <1>3 DEF Crash, Fault, IdleExec, environment, rowVars, history
<1> QED
  BY <1>1, <1>2, <1>3

\* Every step keeps the types.
LEMMA TypeInvStep ==
  ASSUME TypeInv, [Next]_vars
  PROVE  TypeInv'
<1>1. CASE UNCHANGED vars
  BY <1>1 DEF vars, TypeInv, TypeOK, RunnableJobInRange
<1>2. CASE Next
  BY <1>2, PublishTypeInv, RelayTypeInv, ProcessTypeInv, QueueTypeInv, SystemTypeInv
  DEF Next, Failure
<1> QED
  BY <1>1, <1>2

\* No action takes a variable out of its type, for any number of workers,
\* rows, attempts, stalls and faults.
THEOREM OutboxTypeCorrect == Spec => []TypeOK
<1>1. Init => TypeInv
  BY InitTypeInv
<1>2. TypeInv /\ [Next]_vars => TypeInv'
  BY TypeInvStep
<1>3. TypeInv => TypeOK
  BY DEF TypeInv
<1> QED
  BY <1>1, <1>2, <1>3, PTL DEF Spec

-----------------------------------------------------------------------------
(* Rows: what a claim has locked is pending and locked by nobody else, and *)
(* a row is visible exactly when its transaction has committed.            *)

LockInv ==
    /\ \A w \in Worker : relay[w].pc = "selected" =>
            \A r \in relay[w].batch : status[r] = "pending"
    /\ \A v, w \in Worker : v # w /\ relay[v].pc = "selected" /\ relay[w].pc = "selected"
            => relay[v].batch \cap relay[w].batch = {}

CommitInv ==
    \A r \in Row :
        /\ status[r] = "uncommitted" <=> domain[r] = "open"
        /\ status[r] \in {"pending", "processing", "processed", "failed"}
                <=> domain[r] = "committed"

RowInv == LockInv /\ CommitInv

\* What each kind of step may do to the columns of a row.
RowStep ==
    \A r \in Row :
        \/ domain'[r] = domain[r] /\ status'[r] = status[r]
        \/ domain[r] = "none" /\ domain'[r] = "open" /\ status'[r] = "uncommitted"
        \/ domain[r] = "open" /\ status[r] = "uncommitted"
           /\ domain'[r] = "committed" /\ status'[r] = "pending"
        \/ domain[r] = "open" /\ status[r] = "uncommitted"
           /\ domain'[r] = "rolledback" /\ status'[r] = "absent"
        \/ domain'[r] = domain[r] /\ status[r] = "pending" /\ status'[r] = "processing"
        \/ /\ domain'[r] = domain[r] /\ status[r] = "processing"
           /\ status'[r] \in {"pending", "processed", "failed"}

\* A step either belongs to the writers of rows and claims or leaves both
\* alone.
LEMMA StepKinds ==
  ASSUME [Next]_vars
  PROVE  \/ \E r \in Row : Publish(r) \/ Commit(r) \/ Rollback(r)
         \/ \E w \in Worker : SelectPending(w)
         \/ \E w \in Worker : ClaimBatch(w)
         \/ \E w \in Worker : \/ ClaimThrows(w) \/ EnqueueThrows(w) \/ Crash(w)
                              \/ \E r \in Row : Enqueue(w, r)
         \/ \E w \in Worker : Complete(w) \/ RecordFailure(w)
         \/ ReclaimStaleProcessing
         \/ UNCHANGED <<domain, status, relay>>
<1>1. ASSUME NEW w \in Worker,
             FindById(w) \/ Dispatch(w) \/ JobReturned(w) \/ JobThrew(w)
             \/ FindByIdThrows(w) \/ DispatchThrows(w) \/ CompleteThrows(w)
             \/ RecordFailureThrows(w)
      PROVE  UNCHANGED <<domain, status, relay>>
  BY <1>1
  DEF FindById, Dispatch, JobReturned, JobThrew, FindByIdThrows, DispatchThrows,
      CompleteThrows, RecordFailureThrows, environment, rowVars
<1>2. ASSUME NEW r \in Row,
             (\E w \in Worker : Take(w, r)) \/ GrowStale(r) \/ RecoverStalled(r)
             \/ LoseLock(r) \/ Evict(r) \/ RedisLoss
      PROVE  UNCHANGED <<domain, status, relay>>
  BY <1>2
  DEF Take, GrowStale, RecoverStalled, LoseLock, Evict, RedisLoss, environment, rowVars
<1>3. ASSUME RedisLoss
      PROVE  UNCHANGED <<domain, status, relay>>
  BY <1>3 DEF RedisLoss, environment, rowVars
<1>4. CASE UNCHANGED vars
  BY <1>4 DEF vars
<1> QED
  BY <1>1, <1>2, <1>3, <1>4 DEF Next, Relay, Process, Failure

\* Every step moves every row along the lifecycle, and RowInv is inductive.
\* A claim's UPDATE has no status guard: the locks of its SELECT are what
\* keeps it from touching a row another worker has moved on.
LEMMA RowInvStep ==
  ASSUME TypeInv, RowInv, [Next]_vars
  PROVE  RowStep /\ RowInv'
<1> USE DEF TypeInv, TypeOK, RowInv
<1>1. ASSUME NEW r \in Row, Publish(r) \/ Commit(r) \/ Rollback(r)
      PROVE  RowStep /\ RowInv'
  <2>1. relay' = relay /\ status[r] # "pending"
        /\ \A s \in Row : s # r => status'[s] = status[s] /\ domain'[s] = domain[s]
    BY <1>1 DEF Publish, Commit, Rollback, CommitInv
  <2>2. LockInv'
    BY <2>1 DEF LockInv, RelayState
  <2>3. \/ domain[r] = "none" /\ domain'[r] = "open" /\ status'[r] = "uncommitted"
        \/ domain[r] = "open" /\ status[r] = "uncommitted"
           /\ domain'[r] = "committed" /\ status'[r] = "pending"
        \/ domain[r] = "open" /\ status[r] = "uncommitted"
           /\ domain'[r] = "rolledback" /\ status'[r] = "absent"
    BY <1>1 DEF Publish, Commit, Rollback, CommitInv
  <2> QED
    BY <2>1, <2>2, <2>3 DEF RowStep, CommitInv
<1>2. ASSUME NEW w \in Worker, SelectPending(w)
      PROVE  RowStep /\ RowInv'
  <2>1. status' = status /\ domain' = domain /\ relay[w].pc = "idle"
    BY <1>2 DEF SelectPending, environment, rowVars
  <2>2. PICK B \in SUBSET Claimable :
          relay' = [relay EXCEPT ![w] = [pc |-> "selected", batch |-> B]]
    BY <1>2 DEF SelectPending, Oldest
  <2>3. \A r \in B : status[r] = "pending"
    BY DEF Claimable
  <2>4. \A v \in Worker : relay[v].pc = "selected" => relay[v].batch \cap B = {}
    BY DEF Claimable, Locked
  <2>5. LockInv'
    BY <2>1, <2>2, <2>3, <2>4 DEF LockInv
  <2> QED
    BY <2>1, <2>5 DEF RowStep, CommitInv
<1>3. ASSUME NEW w \in Worker, ClaimBatch(w)
      PROVE  RowStep /\ RowInv'
  <2>1. /\ domain' = domain
        /\ status' = [r \in Row |-> IF r \in relay[w].batch THEN "processing" ELSE status[r]]
        /\ relay[w].pc = "selected"
        /\ relay' = [relay EXCEPT ![w].pc = "enqueueing"]
    BY <1>3 DEF ClaimBatch, environment
  <2>2. \A r \in relay[w].batch : status[r] = "pending"
    BY <2>1 DEF LockInv
  <2>3. \A r \in Row : r \notin relay[w].batch => status'[r] = status[r]
    BY <2>1
  <2>4. \A v \in Worker : relay'[v].pc = "selected" => v # w /\ relay'[v] = relay[v]
    BY <2>1
  <2>5. ASSUME NEW v \in Worker, relay'[v].pc = "selected", NEW r \in relay'[v].batch
        PROVE  status'[r] = "pending"
    <3>1. r \in relay[v].batch /\ relay[v].pc = "selected" /\ v # w
      BY <2>4, <2>5
    <3>2. r \notin relay[w].batch /\ status[r] = "pending" /\ r \in Row
      BY <3>1, <2>1 DEF LockInv, RelayState
    <3> QED
      BY <3>2, <2>3
  <2>6. LockInv'
    BY <2>4, <2>5 DEF LockInv
  <2> QED
    BY <2>1, <2>2, <2>3, <2>6 DEF RowStep, CommitInv
<1>4. ASSUME NEW w \in Worker,
             \/ ClaimThrows(w) \/ EnqueueThrows(w) \/ Crash(w)
             \/ \E r \in Row : Enqueue(w, r)
      PROVE  RowStep /\ RowInv'
  <2>1. status' = status /\ domain' = domain
    BY <1>4 DEF ClaimThrows, EnqueueThrows, Crash, Enqueue, environment, rowVars
  <2>2. PICK x : relay' = [relay EXCEPT ![w] = x] /\ x.pc # "selected"
    BY <1>4 DEF ClaimThrows, EnqueueThrows, Crash, Enqueue, IdleRelay
  <2>3. \A v \in Worker : relay'[v].pc = "selected" => v # w /\ relay'[v] = relay[v]
    BY <2>2
  <2>4. LockInv'
    BY <2>1, <2>3 DEF LockInv
  <2> QED
    BY <2>1, <2>4 DEF RowStep, CommitInv
<1>5. ASSUME NEW w \in Worker, Complete(w) \/ RecordFailure(w)
      PROVE  RowStep /\ RowInv'
  <2> DEFINE r == exec[w].row
  <2>1. r \in Row /\ relay' = relay /\ domain' = domain
        /\ (SetFinal(r, "processed") \/ SetFinal(r, "failed"))
    BY <1>5 DEF Complete, RecordFailure, environment
  <2>2. status' = status
        \/ /\ status[r] = "processing"
           /\ \/ status' = [status EXCEPT ![r] = "processed"]
              \/ status' = [status EXCEPT ![r] = "failed"]
    BY <2>1 DEF SetFinal, rowVars
  <2>3. \A s \in Row : \/ status'[s] = status[s]
                       \/ status[s] = "processing" /\ status'[s] \in {"processed", "failed"}
    BY <2>1, <2>2
  <2>4. LockInv'
    BY <2>1, <2>3 DEF LockInv, RelayState
  <2> QED
    BY <2>1, <2>3, <2>4 DEF RowStep, CommitInv
<1>6. ASSUME ReclaimStaleProcessing
      PROVE  RowStep /\ RowInv'
  <2>1. relay' = relay /\ domain' = domain
        /\ \A s \in Row : \/ status'[s] = status[s]
                          \/ status[s] = "processing" /\ status'[s] = "pending"
    BY <1>6 DEF ReclaimStaleProcessing, Reclaimable, environment
  <2>2. LockInv'
    BY <2>1 DEF LockInv, RelayState
  <2> QED
    BY <2>1, <2>2 DEF RowStep, CommitInv
<1>7. CASE UNCHANGED <<domain, status, relay>>
  BY <1>7 DEF RowStep, LockInv, CommitInv
<1> QED
  BY <1>1, <1>2, <1>3, <1>4, <1>5, <1>6, <1>7, StepKinds

-----------------------------------------------------------------------------
(* Dispatching: only committed rows are dispatched, and only dispatched    *)
(* rows are marked processed.                                              *)

DispatchInv ==
    /\ \A r \in Row :
        /\ deliveries[r] > 0 => domain[r] = "committed"
        /\ status[r] = "processed" => deliveries[r] > 0
    /\ \A w \in Worker :
        /\ exec[w].pc \in {"dispatching", "completing"}
                => domain[exec[w].row] = "committed"
        /\ exec[w].pc = "completing" => deliveries[exec[w].row] > 0

\* A step that dispatches nothing, starts no dispatch and marks nothing
\* processed keeps DispatchInv.
LEMMA DispatchFrame ==
  ASSUME TypeInv, RowInv, DispatchInv, RowStep,
         deliveries' = deliveries,
         \A v \in Worker : exec'[v] = exec[v]
                           \/ exec'[v].pc \notin {"dispatching", "completing"},
         \A r \in Row : status'[r] = "processed" => status[r] = "processed"
  PROVE  DispatchInv'
<1>1. \A r \in Row : domain[r] = "committed" => domain'[r] = "committed"
  BY DEF RowStep
<1>2. \A r \in Row : /\ deliveries'[r] > 0 => domain'[r] = "committed"
                     /\ status'[r] = "processed" => deliveries'[r] > 0
  BY <1>1 DEF DispatchInv
<1>3. ASSUME NEW v \in Worker, exec'[v].pc \in {"dispatching", "completing"}
      PROVE  /\ domain'[exec'[v].row] = "committed"
             /\ exec'[v].pc = "completing" => deliveries'[exec'[v].row] > 0
  <2>1. exec'[v] = exec[v] /\ exec[v].row \in Row
    BY <1>3 DEF TypeInv, TypeOK
  <2> QED
    BY <1>1, <1>3, <2>1 DEF DispatchInv
<1> QED
  BY <1>2, <1>3 DEF DispatchInv

\* DispatchInv is inductive relative to the row lifecycle.
LEMMA DispatchInvStep ==
  ASSUME TypeInv, RowInv, DispatchInv, RowStep, [Next]_vars
  PROVE  DispatchInv'
<1> USE DEF TypeInv, TypeOK
<1>1. ASSUME NEW w \in Worker, FindById(w)
      PROVE  DispatchInv'
  <2>1. UNCHANGED <<domain, status, deliveries>> /\ exec[w].row \in Row
        /\ exec' = [exec EXCEPT ![w].pc = IF Dispatches(exec[w].row) THEN "dispatching"
                                          ELSE "returned"]
    BY <1>1 DEF FindById, Goto, environment, rowVars, history
  <2>2. Dispatches(exec[w].row) => domain[exec[w].row] = "committed"
    BY <2>1 DEF Dispatches, RowInv, CommitInv
  <2> QED
    BY <2>1, <2>2 DEF DispatchInv, ExecState
<1>2. ASSUME NEW w \in Worker, Dispatch(w)
      PROVE  DispatchInv'
  <2>1. /\ UNCHANGED <<domain, status>> /\ exec[w].row \in Row
        /\ exec[w].pc = "dispatching"
        /\ exec' = [exec EXCEPT ![w].pc = "completing"]
        /\ deliveries' = [deliveries EXCEPT ![exec[w].row] =
                            IF deliveries[exec[w].row] < 2 THEN deliveries[exec[w].row] + 1
                            ELSE deliveries[exec[w].row]]
    BY <1>2 DEF Dispatch, Goto, environment, rowVars
  <2>2. deliveries'[exec[w].row] > 0
    BY <2>1
  <2>3. \A r \in Row : deliveries[r] > 0 => deliveries'[r] > 0
    BY <2>1
  <2>4. \A r \in Row : deliveries'[r] > 0 => r = exec[w].row \/ deliveries[r] > 0
    BY <2>1
  <2> QED
    BY <2>1, <2>2, <2>3, <2>4 DEF DispatchInv, ExecState
<1>3. ASSUME NEW w \in Worker, Complete(w)
      PROVE  DispatchInv'
  <2>1. /\ domain' = domain /\ deliveries' = deliveries /\ exec[w].row \in Row
        /\ exec[w].pc = "completing"
        /\ exec' = [exec EXCEPT ![w].pc = "returned"]
        /\ \A r \in Row : status'[r] = "processed" => status[r] = "processed" \/ r = exec[w].row
    BY <1>3 DEF Complete, SetFinal, rowVars, Goto, environment, history
  <2> QED
    BY <2>1 DEF DispatchInv, ExecState
<1>4. ASSUME NEW w \in Worker,
             \/ RecordFailure(w) \/ FindByIdThrows(w) \/ DispatchThrows(w)
             \/ CompleteThrows(w) \/ RecordFailureThrows(w)
      PROVE  DispatchInv'
  <2>1. /\ deliveries' = deliveries
        /\ \A r \in Row : status'[r] = "processed" => status[r] = "processed"
    BY <1>4
    DEF RecordFailure, FindByIdThrows, DispatchThrows, CompleteThrows, RecordFailureThrows,
        SetFinal, rowVars, history
  <2>2. \A v \in Worker : exec'[v] = exec[v]
                          \/ exec'[v].pc \notin {"dispatching", "completing"}
    BY <1>4
    DEF RecordFailure, FindByIdThrows, DispatchThrows, CompleteThrows, RecordFailureThrows,
        Catch, Goto, ExecState
  <2> QED
    BY <2>1, <2>2, DispatchFrame
<1>5. ASSUME NEW w \in Worker,
             JobReturned(w) \/ JobThrew(w) \/ Crash(w) \/ \E r \in Row : Take(w, r)
      PROVE  DispatchInv'
  <2>1. deliveries' = deliveries /\ status' = status
    BY <1>5 DEF JobReturned, JobThrew, Crash, Take, rowVars, history
  <2>2. \A v \in Worker : exec'[v] = exec[v]
                          \/ exec'[v].pc \notin {"dispatching", "completing"}
    BY <1>5 DEF JobReturned, JobThrew, Crash, Take, IdleExec
  <2> QED
    BY <2>1, <2>2, DispatchFrame
<1>6. ASSUME UNCHANGED <<deliveries, exec>>,
             \A r \in Row : status'[r] = "processed" => status[r] = "processed"
      PROVE  DispatchInv'
  BY <1>6, DispatchFrame
<1>7. ASSUME NEW r \in Row,
             \/ Publish(r) \/ Commit(r) \/ Rollback(r) \/ GrowStale(r)
             \/ RecoverStalled(r) \/ LoseLock(r) \/ Evict(r)
      PROVE  DispatchInv'
  BY <1>7, <1>6
  DEF Publish, Commit, Rollback, GrowStale, RecoverStalled, LoseLock, Evict, rowVars, history
<1>8. ASSUME NEW w \in Worker,
             \/ SelectPending(w) \/ ClaimBatch(w) \/ ClaimThrows(w) \/ EnqueueThrows(w)
             \/ \E r \in Row : Enqueue(w, r)
      PROVE  DispatchInv'
  BY <1>8, <1>6
  DEF SelectPending, ClaimBatch, ClaimThrows, EnqueueThrows, Enqueue, rowVars, history
<1>9. ASSUME ReclaimStaleProcessing \/ RedisLoss \/ UNCHANGED vars
      PROVE  DispatchInv'
  BY <1>9, <1>6 DEF ReclaimStaleProcessing, RedisLoss, vars, rowVars, history
<1> QED
  BY <1>1, <1>2, <1>3, <1>4, <1>5, <1>7, <1>8, <1>9 DEF Next, Relay, Process, Failure

-----------------------------------------------------------------------------
(* Retries: a job's attempt counter never runs ahead of the calls that     *)
(* threw for its row, not even when a lost lock makes two workers run it.  *)

RetryInv ==
    /\ \A r \in Row :
        /\ job[r].made <= throws[r]
        /\ status[r] = "failed" => throws[r] = MaxAttempts
    /\ \A w \in Worker : exec[w].pc # "idle" =>
        /\ exec[w].made < MaxAttempts
        /\ exec[w].made <= throws[exec[w].row]
        /\ Owns(w) => job[exec[w].row].made = exec[w].made
        /\ exec[w].pc = "recording" => throws[exec[w].row] = MaxAttempts
        /\ exec[w].pc = "thrown" => throws[exec[w].row] > exec[w].made

\* A step that counts no throw, takes no job and gives up no row keeps
\* RetryInv if the jobs it touches are not active afterwards and the calls it
\* moves do not end in an error.
JobsFrame == \A r \in Row : \/ job'[r] = job[r]
                            \/ job'[r].state # "active" /\ job'[r].made <= throws[r]
ExecFrame == \A v \in Worker :
                \/ exec'[v] = exec[v]
                \/ exec'[v].pc = "idle"
                \/ /\ exec[v].pc # "idle"
                   /\ exec'[v].row = exec[v].row
                   /\ exec'[v].made = exec[v].made
                   /\ exec'[v].pc \notin {"recording", "thrown"}
RowsFrame == \A r \in Row : status'[r] = "failed" => status[r] = "failed"

LEMMA RetryFrame ==
  ASSUME TypeInv, RetryInv, throws' = throws, JobsFrame, ExecFrame, RowsFrame
  PROVE  RetryInv'
<1> USE DEF TypeInv, TypeOK, JobsFrame, ExecFrame, RowsFrame
<1>1. \A r \in Row : /\ job'[r].made <= throws'[r]
                     /\ status'[r] = "failed" => throws'[r] = MaxAttempts
  BY DEF RetryInv
<1>2. ASSUME NEW v \in Worker, exec'[v].pc # "idle"
      PROVE  /\ exec'[v].made < MaxAttempts
             /\ exec'[v].made <= throws'[exec'[v].row]
             /\ Owns(v)' => job'[exec'[v].row].made = exec'[v].made
             /\ exec'[v].pc = "recording" => throws'[exec'[v].row] = MaxAttempts
             /\ exec'[v].pc = "thrown" => throws'[exec'[v].row] > exec'[v].made
  <2>1. /\ exec[v].pc # "idle" /\ exec'[v].row = exec[v].row
        /\ exec'[v].made = exec[v].made /\ exec[v].row \in Row
        /\ exec'[v].pc \in {"recording", "thrown"} => exec'[v].pc = exec[v].pc
    BY <1>2
  <2>2. Owns(v)' => Owns(v) /\ job'[exec'[v].row] = job[exec[v].row]
    BY <2>1 DEF Owns
  <2> QED
    BY <2>1, <2>2 DEF RetryInv
<1> QED
  BY <1>1, <1>2 DEF RetryInv

\* A call of #process throws: what the catch block and the counter do.
LEMMA ThrowStep ==
  ASSUME TypeInv, RetryInv, NEW w \in Worker, NEW pc \in {"recording", "thrown"},
         exec[w].pc # "idle",
         exec' = [exec EXCEPT ![w].pc = pc],
         CountThrow(w),
         pc = "recording" => LastAttempt(w),
         UNCHANGED <<job, status>>
  PROVE  RetryInv'
<1> USE SizeAssumption DEF TypeInv, TypeOK
<1> DEFINE r == exec[w].row
           m == exec[w].made
<1>1. r \in Row /\ m \in 0..MaxAttempts /\ m < MaxAttempts /\ m <= throws[r]
      /\ throws[r] \in 0..MaxAttempts
  BY DEF RetryInv, ExecState
<1>2. throws' = [throws EXCEPT ![r] = IF throws[r] < MaxAttempts THEN throws[r] + 1
                                      ELSE throws[r]]
  BY DEF CountThrow
<1>3. /\ throws'[r] > m
      /\ m + 1 >= MaxAttempts => throws'[r] = MaxAttempts
      /\ throws[r] = MaxAttempts => throws'[r] = MaxAttempts
      /\ throws'[r] >= throws[r]
      /\ \A s \in Row : s # r => throws'[s] = throws[s]
  <2>1. throws'[r] = IF throws[r] < MaxAttempts THEN throws[r] + 1 ELSE throws[r]
    BY <1>1, <1>2
  <2>2. \A s \in Row : s # r => throws'[s] = throws[s]
    BY <1>1, <1>2
  <2>3. throws[r] \in Int /\ m \in Int /\ MaxAttempts \in Int /\ throws[r] <= MaxAttempts
    BY <1>1
  <2> HIDE DEF TypeInv, TypeOK, r, m
  <2> QED
    BY <1>1, <2>1, <2>2, <2>3
<1>4. \A s \in Row : /\ throws'[s] >= throws[s]
                     /\ throws[s] = MaxAttempts => throws'[s] = MaxAttempts
  BY <1>3
<1>5. ASSUME NEW s \in Row
      PROVE  /\ job'[s].made <= throws'[s]
             /\ status'[s] = "failed" => throws'[s] = MaxAttempts
  <2>1. job[s].made \in 0..MaxAttempts /\ throws[s] \in 0..MaxAttempts
        /\ throws'[s] \in Int
    BY <1>1, <1>2 DEF JobState
  <2> QED
    BY <1>4, <2>1 DEF RetryInv
<1>6. ASSUME NEW v \in Worker, v # w, exec[v].pc # "idle"
      PROVE  /\ exec'[v] = exec[v]
             /\ exec[v].made <= throws'[exec[v].row]
             /\ exec[v].pc = "thrown" => throws'[exec[v].row] > exec[v].made
             /\ exec[v].pc = "recording" => throws'[exec[v].row] = MaxAttempts
  <2>1. exec[v].row \in Row /\ exec[v].made \in 0..MaxAttempts
        /\ throws[exec[v].row] \in 0..MaxAttempts /\ throws'[exec[v].row] \in Int
    BY <1>1, <1>2, <1>6 DEF ExecState
  <2> QED
    BY <1>4, <1>6, <2>1 DEF RetryInv
<1>7. exec'[w].row = r /\ exec'[w].made = m /\ exec'[w].pc = pc
  BY DEF ExecState
<1>8. \A v \in Worker : Owns(v)' <=> Owns(v)
  BY <1>7 DEF Owns, ExecState
<1>9. ASSUME NEW v \in Worker, exec'[v].pc # "idle"
      PROVE  /\ exec'[v].made < MaxAttempts
             /\ exec'[v].made <= throws'[exec'[v].row]
             /\ Owns(v)' => job'[exec'[v].row].made = exec'[v].made
             /\ exec'[v].pc = "recording" => throws'[exec'[v].row] = MaxAttempts
             /\ exec'[v].pc = "thrown" => throws'[exec'[v].row] > exec'[v].made
  <2>1. CASE v = w
    <3>1. m <= throws'[r]
      BY <1>1, <1>3, <1>2
    <3>2. Owns(w)' => job'[r].made = m
      BY <1>7, <1>8 DEF RetryInv
    <3>3. pc = "recording" => throws'[r] = MaxAttempts
      BY <1>3 DEF LastAttempt
    <3> QED
      BY <1>1, <1>3, <1>7, <2>1, <3>1, <3>2, <3>3
  <2>2. CASE v # w
    BY <1>6, <1>8, <1>9, <2>2 DEF RetryInv
  <2> QED
    BY <2>1, <2>2
<1> QED
  BY <1>5, <1>9 DEF RetryInv

\* RetryInv is inductive.
LEMMA RetryInvStep ==
  ASSUME TypeInv, RetryInv, [Next]_vars
  PROVE  RetryInv'
<1> USE DEF TypeInv, TypeOK
<1>1. ASSUME NEW w \in Worker, NEW r \in Row, Take(w, r)
      PROVE  RetryInv'
  <2> DEFINE x == [pc |-> "reading", row |-> r, made |-> job[r].made]
  <2>1. /\ exec[w].pc = "idle" /\ job[r].state = "waiting"
        /\ job' = [job EXCEPT ![r] = Taken(job[r], w)]
        /\ exec' = [exec EXCEPT ![w] = x]
        /\ UNCHANGED <<status, throws>>
    BY <1>1 DEF Take, rowVars, history
  <2>2. Taken(job[r], w).made = job[r].made /\ Taken(job[r], w).owner = w
    BY DEF Taken, JobState
  <2>3. job[r].made < MaxAttempts
    BY <2>1 DEF RunnableJobInRange
  <2>4. \A s \in Row : job'[s].made = job[s].made
    BY <2>1, <2>2
  <2>5. ASSUME NEW v \in Worker, v # w, exec[v].pc # "idle"
        PROVE  exec'[v] = exec[v] /\ (Owns(v)' => Owns(v))
    BY <2>1, <2>2, <2>5 DEF Owns
  <2>6. exec'[w] = x
    BY <2>1
  <2>7. \A s \in Row : /\ job'[s].made <= throws'[s]
                       /\ status'[s] = "failed" => throws'[s] = MaxAttempts
    BY <2>1, <2>4 DEF RetryInv
  <2>8. ASSUME NEW v \in Worker, exec'[v].pc # "idle"
        PROVE  /\ exec'[v].made < MaxAttempts
               /\ exec'[v].made <= throws'[exec'[v].row]
               /\ Owns(v)' => job'[exec'[v].row].made = exec'[v].made
               /\ exec'[v].pc = "recording" => throws'[exec'[v].row] = MaxAttempts
               /\ exec'[v].pc = "thrown" => throws'[exec'[v].row] > exec'[v].made
    <3>1. CASE v = w
      BY <2>1, <2>3, <2>4, <2>6, <3>1 DEF RetryInv
    <3>2. CASE v # w
      <4>1. exec'[v] = exec[v] /\ exec[v].pc # "idle" /\ exec[v].row \in Row
        BY <2>1, <2>8, <3>2
      <4> QED
        BY <2>1, <2>4, <2>5, <3>2, <4>1 DEF RetryInv
    <3> QED
      BY <3>1, <3>2
  <2> QED
    BY <2>7, <2>8 DEF RetryInv
<1>2. ASSUME NEW w \in Worker,
             \/ FindByIdThrows(w) \/ DispatchThrows(w) \/ CompleteThrows(w)
      PROVE  RetryInv'
  <2>1. exec[w].pc # "idle" /\ CountThrow(w) /\ UNCHANGED <<job, status>>
    BY <1>2 DEF FindByIdThrows, DispatchThrows, CompleteThrows, Catch, rowVars
  <2>2. \/ exec' = [exec EXCEPT ![w].pc = "thrown"]
        \/ exec' = [exec EXCEPT ![w].pc = "recording"] /\ LastAttempt(w)
    BY <1>2 DEF FindByIdThrows, DispatchThrows, CompleteThrows, Catch, Goto
  <2> QED
    BY <2>1, <2>2, ThrowStep
<1>3. ASSUME NEW w \in Worker, RecordFailure(w) \/ RecordFailureThrows(w)
      PROVE  RetryInv'
  <2> DEFINE r == exec[w].row
  <2>1. /\ exec[w].pc = "recording" /\ UNCHANGED <<job, throws>> /\ r \in Row
        /\ exec' = [exec EXCEPT ![w].pc = "thrown"]
        /\ \A s \in Row : status'[s] = "failed" => status[s] = "failed" \/ s = r
    BY <1>3 DEF RecordFailure, RecordFailureThrows, SetFinal, rowVars, Goto, history
  <2>2. throws[r] = MaxAttempts /\ exec[w].made < MaxAttempts
    BY <2>1 DEF RetryInv
  <2>3. \A v \in Worker : Owns(v)' <=> Owns(v)
    BY <2>1 DEF Owns, ExecState
  <2>4. \A v \in Worker : /\ exec'[v].row = exec[v].row /\ exec'[v].made = exec[v].made
                          /\ v # w => exec'[v].pc = exec[v].pc
    BY <2>1 DEF ExecState
  <2>5. exec'[w].pc = "thrown" /\ throws'[r] > exec[w].made
    BY <2>1, <2>2, SizeAssumption DEF ExecState
  <2> QED
    BY <2>1, <2>2, <2>3, <2>4, <2>5 DEF RetryInv
<1>4. ASSUME NEW w \in Worker, JobThrew(w)
      PROVE  RetryInv'
  <2> DEFINE r == exec[w].row
  <2>1. /\ exec[w].pc = "thrown" /\ UNCHANGED <<status, throws>> /\ r \in Row
        /\ exec' = [exec EXCEPT ![w] = IdleExec]
        /\ job' = IF Owns(w) THEN [job EXCEPT ![r] = Retried(job[r])] ELSE job
    BY <1>4 DEF JobThrew, rowVars, history
  <2>2. Owns(w) => /\ Retried(job[r]).state # "active"
                   /\ Retried(job[r]).made <= throws[r]
    <3>1. Owns(w) => job[r].made = exec[w].made /\ throws[r] > exec[w].made
      BY <2>1 DEF RetryInv
    <3>2. exec[w].made \in Int /\ throws[r] \in Int
      BY <2>1 DEF ExecState
    <3> QED
      BY <3>1, <3>2 DEF Retried
  <2>3. JobsFrame
    BY <2>1, <2>2 DEF JobsFrame
  <2>4. ExecFrame
    BY <2>1 DEF ExecFrame, IdleExec
  <2>5. RowsFrame
    BY <2>1 DEF RowsFrame
  <2> QED
    BY <2>1, <2>3, <2>4, <2>5, RetryFrame
<1>5. ASSUME NEW w \in Worker, JobReturned(w)
      PROVE  RetryInv'
  <2> DEFINE r == exec[w].row
  <2>1. /\ UNCHANGED <<status, throws>> /\ r \in Row
        /\ exec' = [exec EXCEPT ![w] = IdleExec]
        /\ job' = IF Owns(w) THEN [job EXCEPT ![r] = Finished(job[r])] ELSE job
    BY <1>5 DEF JobReturned, rowVars, history
  <2>2. Finished(job[r]).state # "active" /\ Finished(job[r]).made <= throws[r]
    BY <2>1 DEF Finished, JobState, RetryInv
  <2>3. JobsFrame
    BY <2>1, <2>2 DEF JobsFrame
  <2>4. ExecFrame
    BY <2>1 DEF ExecFrame, IdleExec
  <2>5. RowsFrame
    BY <2>1 DEF RowsFrame
  <2> QED
    BY <2>1, <2>3, <2>4, <2>5, RetryFrame
<1>6. ASSUME NEW w \in Worker, FindById(w) \/ Dispatch(w) \/ Complete(w)
      PROVE  RetryInv'
  <2>1. /\ UNCHANGED <<job, throws>> /\ exec[w].pc # "idle"
        /\ \A r \in Row : status'[r] = "failed" => status[r] = "failed"
    BY <1>6 DEF FindById, Dispatch, Complete, SetFinal, rowVars, history
  <2>2. \/ exec' = [exec EXCEPT ![w].pc = "dispatching"]
        \/ exec' = [exec EXCEPT ![w].pc = "completing"]
        \/ exec' = [exec EXCEPT ![w].pc = "returned"]
    BY <1>6 DEF FindById, Dispatch, Complete, Goto
  <2>3. ExecFrame
    BY <2>1, <2>2 DEF ExecFrame, ExecState
  <2>4. JobsFrame /\ RowsFrame
    BY <2>1 DEF JobsFrame, RowsFrame
  <2> QED
    BY <2>1, <2>3, <2>4, RetryFrame
<1>7. ASSUME NEW w \in Worker, NEW r \in Row, Enqueue(w, r)
      PROVE  RetryInv'
  <2>1. UNCHANGED <<status, throws, exec>> /\ job' = [job EXCEPT ![r] = AddJob(r)]
    BY <1>7 DEF Enqueue, rowVars, history
  <2>2. \/ AddJob(r) = job[r]
        \/ AddJob(r).state # "active" /\ AddJob(r).made <= throws[r]
    <3>1. NewJob.state # "active" /\ NewJob.made = 0 /\ throws[r] >= 0
      BY DEF NewJob, NoJob
    <3> QED
      BY <3>1 DEF AddJob
  <2>3. JobsFrame
    BY <2>1, <2>2 DEF JobsFrame
  <2>4. ExecFrame /\ RowsFrame
    BY <2>1 DEF ExecFrame, RowsFrame
  <2> QED
    BY <2>1, <2>3, <2>4, RetryFrame
<1>8. ASSUME NEW r \in Row, RecoverStalled(r) \/ LoseLock(r)
      PROVE  RetryInv'
  <2>1. UNCHANGED <<status, throws, exec>> /\ job' = [job EXCEPT ![r] = Stalled(job[r])]
    BY <1>8 DEF RecoverStalled, LoseLock, StallMove, rowVars, history
  <2>2. Stalled(job[r]).state # "active" /\ Stalled(job[r]).made <= throws[r]
    BY DEF Stalled, RetryInv
  <2>3. JobsFrame
    BY <2>1, <2>2 DEF JobsFrame
  <2>4. ExecFrame /\ RowsFrame
    BY <2>1 DEF ExecFrame, RowsFrame
  <2> QED
    BY <2>1, <2>3, <2>4, RetryFrame
<1>9. ASSUME (\E r \in Row : Evict(r)) \/ RedisLoss
      PROVE  RetryInv'
  <2>1. /\ UNCHANGED <<status, throws, exec>>
        /\ \A r \in Row : job'[r] = job[r] \/ job'[r] = NoJob
    BY <1>9 DEF Evict, RedisLoss, rowVars, history
  <2>2. NoJob.state # "active" /\ \A r \in Row : NoJob.made <= throws[r]
    BY DEF NoJob
  <2>3. JobsFrame
    BY <2>1, <2>2 DEF JobsFrame
  <2>4. ExecFrame /\ RowsFrame
    BY <2>1 DEF ExecFrame, RowsFrame
  <2> QED
    BY <2>1, <2>3, <2>4, RetryFrame
<1>10. ASSUME NEW w \in Worker, Crash(w)
       PROVE  RetryInv'
  <2>1. UNCHANGED <<status, throws, job>> /\ exec' = [exec EXCEPT ![w] = IdleExec]
    BY <1>10 DEF Crash, rowVars, history
  <2>2. JobsFrame /\ RowsFrame
    BY <2>1 DEF JobsFrame, RowsFrame
  <2>3. ExecFrame
    BY <2>1 DEF ExecFrame, IdleExec
  <2> QED
    BY <2>1, <2>2, <2>3, RetryFrame
<1>11. ASSUME UNCHANGED <<job, exec, throws>>,
              \A r \in Row : status'[r] = "failed" => status[r] = "failed"
       PROVE  RetryInv'
  <2>1. JobsFrame /\ ExecFrame /\ RowsFrame
    BY <1>11 DEF JobsFrame, ExecFrame, RowsFrame
  <2> QED
    BY <1>11, <2>1, RetryFrame
<1>12. ASSUME NEW r \in Row, Publish(r) \/ Commit(r) \/ Rollback(r) \/ GrowStale(r)
       PROVE  RetryInv'
  BY <1>11, <1>12 DEF Publish, Commit, Rollback, GrowStale, history
<1>13. ASSUME NEW w \in Worker,
              SelectPending(w) \/ ClaimBatch(w) \/ ClaimThrows(w) \/ EnqueueThrows(w)
       PROVE  RetryInv'
  BY <1>11, <1>13 DEF SelectPending, ClaimBatch, ClaimThrows, EnqueueThrows, rowVars, history
<1>14. ASSUME ReclaimStaleProcessing \/ UNCHANGED vars
       PROVE  RetryInv'
  BY <1>11, <1>14 DEF ReclaimStaleProcessing, vars, history
<1> QED
  BY <1>1, <1>2, <1>3, <1>4, <1>5, <1>6, <1>7, <1>8, <1>9, <1>10, <1>12, <1>13, <1>14
  DEF Next, Relay, Process, Failure

-----------------------------------------------------------------------------
(* Duplicates: until the first fault a row that is not poisoned passes once *)
(* through a claim, one job and one execution, and is owed by exactly one   *)
(* of them at a time.                                                       *)

Held(w, r) == relay[w].pc # "idle" /\ r \in relay[w].batch

Clean(r) ==
    /\ r \notin stale /\ deliveries[r] <= 1
    /\ status[r] \in {"absent", "uncommitted", "pending"} =>
          job[r].state = "none" /\ deliveries[r] = 0
    /\ status[r] = "processing" =>
          job[r].state \in {"waiting", "active"} \/ \E w \in Worker : Held(w, r)
    /\ status[r] # "failed" /\ job[r].state # "failed"
    /\ job[r].state = "waiting" => status[r] = "processing" /\ deliveries[r] = 0
    /\ job[r].state = "active" => Running(job[r].owner, r) /\ job[r].owner \in Worker
    /\ job[r].state = "completed" => status[r] = "processed"
    /\ \A w \in Worker : Running(w, r) =>
          /\ job[r].state = "active" /\ job[r].owner = w
          /\ exec[w].pc \in {"reading", "dispatching", "completing", "returned"}
          /\ exec[w].pc \in {"reading", "dispatching"} => deliveries[r] = 0
          /\ status[r] = IF exec[w].pc = "returned" THEN "processed" ELSE "processing"
    /\ \A w \in Worker : Held(w, r) =>
          /\ status[r] = IF relay[w].pc = "selected" THEN "pending" ELSE "processing"
          /\ job[r].state = "none" /\ deliveries[r] = 0
    /\ \A v, w \in Worker : Held(v, r) /\ Held(w, r) => v = w

CleanInv ==
    /\ \A r \in Poison : deliveries[r] = 0
    /\ faults = MaxFaults => \A r \in Row \ Poison : Clean(r)

\* What a step leaves of row r.
RowSame(r) ==
    /\ status'[r] = status[r] /\ deliveries'[r] = deliveries[r]
    /\ r \in stale' => r \in stale
ExecSame(r) ==
    \A w \in Worker : exec'[w] = exec[w] \/ (~Running(w, r) /\ ~Running(w, r)')
RelaySame(r) ==
    \A w \in Worker : /\ Held(w, r)' <=> Held(w, r)
                      /\ Held(w, r) => relay'[w].pc = relay[w].pc

\* A step that leaves row r alone keeps it clean.
LEMMA CleanFrame ==
  ASSUME NEW r, Clean(r), RowSame(r), job'[r] = job[r], ExecSame(r), RelaySame(r)
  PROVE  Clean(r)'
<1>1. \A w \in Worker : Running(w, r)' <=> Running(w, r)
  BY DEF ExecSame, Running
<1>2. \A w \in Worker : Running(w, r) => exec'[w] = exec[w]
  BY DEF ExecSame
<1> QED
  BY <1>1, <1>2 DEF Clean, RowSame, RelaySame

\* The publishing transaction: nothing has been claimed yet.
LEMMA PublishClean ==
  ASSUME TypeInv, RowInv, NEW r \in Row, Clean(r), NEW s \in Row,
         Publish(s) \/ Commit(s) \/ Rollback(s)
  PROVE  Clean(r)'
<1>1. UNCHANGED <<stale, deliveries, relay, exec, job>>
      /\ status' = [status EXCEPT ![s] = status'[s]]
  BY DEF Publish, Commit, Rollback, history, TypeInv, TypeOK
<1>2. /\ status[s] \in {"absent", "uncommitted"}
      /\ status'[s] \in {"absent", "uncommitted", "pending"}
  BY DEF Publish, Commit, Rollback, TypeInv, TypeOK, RowInv, CommitInv
<1>3. CASE s = r
  BY <1>1, <1>2, <1>3 DEF Clean, Held, Running
<1>4. CASE s # r
  <2>1. RowSame(r) /\ ExecSame(r) /\ RelaySame(r)
    BY <1>1, <1>4 DEF RowSame, ExecSame, RelaySame, Held, TypeInv, TypeOK
  <2> QED
    BY <1>1, <2>1, CleanFrame
<1> QED
  BY <1>3, <1>4

\* The relay: a row that is locked or claimed is so by one worker, and its job
\* is the first of its id.
LEMMA RelayClean ==
  ASSUME TypeInv, RowInv, NEW r \in Row, Clean(r), NEW w \in Worker, Relay(w)
  PROVE  Clean(r)'
<1>0. /\ relay \in [Worker -> RelayState] /\ status \in [Row -> {"absent", "uncommitted", "pending", "processing", "processed", "failed"}]
      /\ job \in [Row -> JobState]
  BY DEF TypeInv, TypeOK
<1>1. CASE SelectPending(w)
  <2>1. PICK B \in SUBSET Claimable :
          relay' = [relay EXCEPT ![w] = [pc |-> "selected", batch |-> B]]
    BY <1>1 DEF SelectPending, Oldest
  <2>2. /\ UNCHANGED <<status, stale, deliveries, job, exec>> /\ relay[w].pc = "idle"
    BY <1>1 DEF SelectPending, rowVars, history
  <2>3. CASE r \in B
    <3>1. status[r] = "pending" /\ \A v \in Worker : ~Held(v, r)
      BY <1>0, <2>3 DEF Claimable, Locked, Held, Clean, RelayState
    <3>2. \A v \in Worker : Held(v, r)' => v = w /\ relay'[w].pc = "selected"
      BY <1>0, <2>1, <3>1 DEF Held
    <3> QED
      BY <2>2, <3>1, <3>2 DEF Clean, Running
  <2>4. CASE r \notin B
    <3>1. RowSame(r) /\ ExecSame(r) /\ RelaySame(r)
      BY <1>0, <2>1, <2>2, <2>4 DEF RowSame, ExecSame, RelaySame, Held
    <3> QED
      BY <2>2, <3>1, CleanFrame
  <2> QED
    BY <2>3, <2>4
<1>2. CASE ClaimBatch(w)
  <2>1. /\ UNCHANGED <<deliveries, job, exec>> /\ relay[w].pc = "selected"
        /\ status' = [q \in Row |-> IF q \in relay[w].batch THEN "processing" ELSE status[q]]
        /\ stale' = stale \ relay[w].batch
        /\ relay' = [relay EXCEPT ![w].pc = "enqueueing"]
    BY <1>2 DEF ClaimBatch, history
  <2>2. \A v \in Worker : /\ Held(v, r)' <=> Held(v, r)
                          /\ v # w => relay'[v].pc = relay[v].pc
    BY <1>0, <2>1 DEF Held, RelayState
  <2>3. relay'[w].pc = "enqueueing"
    BY <1>0, <2>1 DEF RelayState
  <2>4. CASE r \in relay[w].batch
    <3>1. Held(w, r)
      BY <2>1, <2>4 DEF Held
    <3> QED
      BY <2>1, <2>2, <2>3, <2>4, <3>1 DEF Clean, Running
  <2>5. CASE r \notin relay[w].batch
    <3>1. RowSame(r) /\ ExecSame(r) /\ RelaySame(r)
      BY <2>1, <2>2, <2>5 DEF RowSame, ExecSame, RelaySame, Held
    <3> QED
      BY <2>1, <3>1, CleanFrame
  <2> QED
    BY <2>4, <2>5
<1>3. ASSUME NEW s \in Row, Enqueue(w, s)
      PROVE  Clean(r)'
  <2>1. /\ UNCHANGED <<status, stale, deliveries, exec>> /\ relay[w].pc = "enqueueing"
        /\ s \in relay[w].batch
        /\ job' = [job EXCEPT ![s] = AddJob(s)]
        /\ relay' = [relay EXCEPT ![w] =
                        IF relay[w].batch = {s} THEN IdleRelay
                        ELSE [pc |-> "enqueueing", batch |-> relay[w].batch \ {s}]]
    BY <1>3 DEF Enqueue, rowVars, history
  <2>2. CASE r = s
    <3>1. Held(w, r) /\ status[r] = "processing" /\ job[r].state = "none" /\ deliveries[r] = 0
      BY <2>1, <2>2 DEF Held, Clean
    <3>2. \A v \in Worker : ~Held(v, r)'
      BY <1>0, <2>1, <2>2, <3>1 DEF Held, Clean, IdleRelay
    <3>3. job'[r].state = "waiting" /\ \A v \in Worker : ~Running(v, r)'
      BY <1>0, <2>1, <2>2, <3>1 DEF AddJob, NewJob, NoJob, Clean, Running
    <3> QED
      BY <2>1, <3>1, <3>2, <3>3 DEF Clean
  <2>3. CASE r # s
    <3>1. RowSame(r) /\ ExecSame(r) /\ RelaySame(r) /\ job'[r] = job[r]
      BY <1>0, <2>1, <2>3 DEF RowSame, ExecSame, RelaySame, Held, IdleRelay
    <3> QED
      BY <3>1, CleanFrame
  <2> QED
    BY <2>2, <2>3
<1> QED
  BY <1>1, <1>2, <1>3 DEF Relay

\* The processor: one execution per job, which dispatches once and marks the
\* row before its job is done.
LEMMA ProcessClean ==
  ASSUME TypeInv, NEW r \in Row, Clean(r), NEW w \in Worker, Process(w)
  PROVE  Clean(r)'
<1> DEFINE s == exec[w].row
<1>0. /\ exec \in [Worker -> ExecState] /\ job \in [Row -> JobState]
      /\ status \in [Row -> {"absent", "uncommitted", "pending", "processing", "processed", "failed"}]
      /\ deliveries \in [Row -> 0..2]
      /\ relay' = relay /\ exec[w].pc # "idle" /\ s \in Row
  BY DEF TypeInv, TypeOK, Process, FindById, Dispatch, Complete, RecordFailure, JobReturned, JobThrew
<1>1. RelaySame(r)
  BY <1>0 DEF RelaySame, Held
<1>2. ASSUME s # r
      PROVE  Clean(r)'
  <2>1. ExecSame(r)
    BY <1>0, <1>2 DEF ExecSame, Running, Process, FindById, Dispatch, Complete, RecordFailure,
                      JobReturned, JobThrew, Goto, ExecState, IdleExec
  <2>2. RowSame(r)
    BY <1>0, <1>2 DEF RowSame, Process, FindById, Dispatch, Complete, RecordFailure, SetFinal,
                      JobReturned, JobThrew, rowVars, history
  <2>3. job'[r] = job[r]
    BY <1>0, <1>2 DEF Process, FindById, Dispatch, Complete, RecordFailure, JobReturned, JobThrew
  <2> QED
    BY <1>1, <2>1, <2>2, <2>3, CleanFrame
<1>3. ASSUME s = r
      PROVE  Clean(r)'
  <2>1. /\ Running(w, r) /\ job[r].state = "active" /\ job[r].owner = w
        /\ \A v \in Worker : Running(v, r) => v = w
        /\ exec[w].pc \in {"reading", "dispatching", "completing", "returned"}
        /\ \A v \in Worker : ~Held(v, r)
    BY <1>0, <1>3 DEF Running, Clean
  <2>2. ASSUME NEW pc, Goto(w, pc)
        PROVE  /\ exec'[w].pc = pc /\ exec'[w].row = r
               /\ \A v \in Worker : v # w => exec'[v] = exec[v]
    BY <1>0, <1>3, <2>2 DEF Goto, ExecState
  <2>3. CASE FindById(w)
    <3>1. /\ exec[w].pc = "reading" /\ status[r] = "processing"
      BY <1>3, <2>1, <2>3 DEF FindById, Clean
    <3>2. Goto(w, "dispatching") /\ UNCHANGED <<status, stale, job, deliveries>>
      BY <1>3, <2>3, <3>1 DEF FindById, Dispatches, rowVars, history
    <3>3. exec'[w].pc = "dispatching" /\ exec'[w].row = r
          /\ \A v \in Worker : v # w => exec'[v] = exec[v]
      BY <2>2, <3>2
    <3> QED
      BY <1>0, <2>1, <3>1, <3>2, <3>3 DEF Clean, Running, Held
  <2>4. CASE Dispatch(w)
    <3>1. /\ exec[w].pc = "dispatching" /\ deliveries[r] = 0 /\ status[r] = "processing"
          /\ Goto(w, "completing") /\ UNCHANGED <<status, stale, job>>
          /\ deliveries'[r] = 1
      BY <1>0, <1>3, <2>1, <2>4 DEF Dispatch, Clean, rowVars
    <3>2. exec'[w].pc = "completing" /\ exec'[w].row = r
          /\ \A v \in Worker : v # w => exec'[v] = exec[v]
      BY <2>2, <3>1
    <3> QED
      BY <1>0, <2>1, <3>1, <3>2 DEF Clean, Running, Held
  <2>5. CASE Complete(w)
    <3>1. /\ exec[w].pc = "completing" /\ status[r] = "processing"
          /\ Goto(w, "returned") /\ UNCHANGED <<deliveries, job>>
          /\ status'[r] = "processed" /\ r \notin stale'
      BY <1>0, <1>3, <2>1, <2>5 DEF Complete, SetFinal, Clean, history
    <3>2. exec'[w].pc = "returned" /\ exec'[w].row = r
          /\ \A v \in Worker : v # w => exec'[v] = exec[v]
      BY <2>2, <3>1
    <3> QED
      BY <1>0, <2>1, <3>1, <3>2 DEF Clean, Running, Held
  <2>6. CASE JobReturned(w)
    <3>1. /\ status[r] = "processed" /\ UNCHANGED <<status, stale, deliveries>>
          /\ exec' = [exec EXCEPT ![w] = IdleExec]
          /\ job' = [job EXCEPT ![r] = Finished(job[r])]
      BY <1>3, <2>1, <2>6 DEF JobReturned, Owns, Clean, rowVars, history
    <3>2. job'[r].state = "completed" /\ \A v \in Worker : ~Running(v, r)'
      BY <1>0, <2>1, <3>1 DEF Finished, JobState, Running, IdleExec
    <3> QED
      BY <1>0, <2>1, <3>1, <3>2 DEF Clean, Held
  <2>7. CASE RecordFailure(w) \/ JobThrew(w)
    BY <2>1, <2>7 DEF RecordFailure, JobThrew
  <2> QED
    BY <2>3, <2>4, <2>5, <2>6, <2>7 DEF Process
<1> QED
  BY <1>2, <1>3

\* The queue: a waiting job is taken once, and none stalls or grows stale
\* without a fault.
LEMMA QueueClean ==
  ASSUME TypeInv, NEW r \in Row, Clean(r), NEW s \in Row, faults' = faults, faults \in Nat,
         \/ \E w \in Worker : Take(w, s)
         \/ GrowStale(s) \/ RecoverStalled(s) \/ LoseLock(s) \/ Evict(s)
  PROVE  Clean(r)'
<1>0. /\ exec \in [Worker -> ExecState] /\ job \in [Row -> JobState]
      /\ relay' = relay /\ status' = status /\ deliveries' = deliveries
      /\ ~Fault
  BY DEF TypeInv, TypeOK, Take, GrowStale, RecoverStalled, LoseLock, Evict, Fault, rowVars, history
<1>1. RelaySame(r) /\ \A w \in Worker : Held(w, r)' <=> Held(w, r)
  BY <1>0 DEF RelaySame, Held
<1>2. ASSUME NEW w \in Worker, Take(w, s)
      PROVE  Clean(r)'
  <2>1. /\ exec[w].pc = "idle" /\ job[s].state = "waiting" /\ stale' = stale
        /\ job' = [job EXCEPT ![s] = Taken(job[s], w)]
        /\ exec' = [exec EXCEPT ![w] = [pc |-> "reading", row |-> s, made |-> job[s].made]]
    BY <1>2 DEF Take, rowVars
  <2>2. CASE s = r
    <3>1. /\ job'[r].state = "active" /\ job'[r].owner = w
          /\ status[r] = "processing" /\ deliveries[r] = 0
          /\ \A v \in Worker : ~Running(v, r)
      BY <1>0, <2>1, <2>2 DEF Taken, JobState, Clean
    <3>2. \A v \in Worker : Running(v, r)' => v = w /\ exec'[v].pc = "reading"
      BY <1>0, <2>1, <3>1 DEF Running
    <3>3. Running(w, r)'
      BY <1>0, <2>1, <2>2 DEF Running
    <3> QED
      BY <1>0, <1>1, <2>1, <2>2, <3>1, <3>2, <3>3 DEF Clean
  <2>3. CASE s # r
    <3>1. RowSame(r) /\ ExecSame(r) /\ job'[r] = job[r]
      BY <1>0, <2>1, <2>3 DEF RowSame, ExecSame, Running
    <3> QED
      BY <1>1, <3>1, CleanFrame
  <2> QED
    BY <2>2, <2>3
<1>3. CASE GrowStale(s)
  <2>1. /\ status[s] = "processing" /\ ~InFlight(s) /\ stale' = stale \union {s}
        /\ job' = job /\ exec' = exec
    BY <1>0, <1>3 DEF GrowStale
  <2>2. s # r
    BY <2>1 DEF InFlight, Clean, Held
  <2> QED
    BY <1>0, <1>1, <2>1, <2>2, CleanFrame DEF RowSame, ExecSame
<1>4. CASE RecoverStalled(s) \/ LoseLock(s)
  <2>1. /\ Orphaned(s) /\ stale' = stale /\ exec' = exec
        /\ job' = [job EXCEPT ![s] = Stalled(job[s])]
    BY <1>0, <1>4 DEF RecoverStalled, LoseLock, StallMove, rowVars
  <2>2. s # r
    BY <2>1 DEF Orphaned, Clean
  <2>3. job'[r] = job[r]
    BY <1>0, <2>1, <2>2
  <2> QED
    BY <1>0, <1>1, <2>1, <2>3, CleanFrame DEF RowSame, ExecSame
<1>5. CASE Evict(s)
  <2>1. /\ job[s].state \in {"completed", "failed"} /\ stale' = stale /\ exec' = exec
        /\ job' = [job EXCEPT ![s] = NoJob]
    BY <1>5 DEF Evict, rowVars
  <2>2. CASE s = r
    <3>1. job'[r].state = "none" /\ status[r] = "processed" /\ \A v \in Worker : ~Running(v, r)'
      BY <1>0, <2>1, <2>2 DEF NoJob, Clean, Running
    <3> QED
      BY <1>0, <1>1, <2>1, <3>1 DEF Clean
  <2>3. CASE s # r
    BY <1>0, <1>1, <2>1, <2>3, CleanFrame DEF RowSame, ExecSame
  <2> QED
    BY <2>2, <2>3
<1> QED
  BY <1>2, <1>3, <1>4, <1>5

\* Without a fault only a poisoned row throws, only an idle process stops, and
\* a row that is not stale is not reclaimed.
LEMMA FailureClean ==
  ASSUME TypeInv, NEW r \in Row \ Poison, Clean(r), faults' = faults, faults \in Nat,
         \/ \E w \in Worker : Failure(w)
         \/ ReclaimStaleProcessing \/ RedisLoss
  PROVE  Clean(r)'
<1>0. ~Fault /\ exec \in [Worker -> ExecState] /\ relay \in [Worker -> RelayState]
      /\ status \in [Row -> {"absent", "uncommitted", "pending", "processing", "processed", "failed"}]
  BY DEF Fault, TypeInv, TypeOK
<1>1. ASSUME NEW w \in Worker, Failure(w)
      PROVE  Clean(r)'
  <2>1. DispatchThrows(w) \/ Crash(w)
    BY <1>0, <1>1 DEF Failure, ClaimThrows, EnqueueThrows, FindByIdThrows, CompleteThrows,
                      RecordFailureThrows
  <2>2. CASE DispatchThrows(w)
    <3>1. /\ exec[w].row # r /\ UNCHANGED <<status, stale, deliveries, relay, job>>
          /\ \E pc : Goto(w, pc)
      BY <1>0, <2>2 DEF DispatchThrows, Catch, rowVars
    <3>2. ExecSame(r)
      BY <1>0, <3>1 DEF ExecSame, Running, Goto, ExecState
    <3> QED
      BY <3>1, <3>2, CleanFrame DEF RowSame, RelaySame, Held
  <2>3. CASE Crash(w)
    <3>1. /\ relay[w].pc = "idle" /\ exec[w].pc = "idle"
          /\ relay' = [relay EXCEPT ![w] = IdleRelay] /\ exec' = [exec EXCEPT ![w] = IdleExec]
          /\ UNCHANGED <<status, stale, deliveries, job>>
      BY <1>0, <2>3 DEF Crash, rowVars, history
    <3>2. ExecSame(r) /\ RelaySame(r)
      BY <1>0, <3>1 DEF ExecSame, RelaySame, Running, Held, IdleExec, IdleRelay
    <3> QED
      BY <3>1, <3>2, CleanFrame DEF RowSame
  <2> QED
    BY <2>1, <2>2, <2>3
<1>2. CASE ReclaimStaleProcessing
  <2>1. PICK batch \in SUBSET Reclaimable :
          /\ status' = [q \in Row |-> IF q \in batch THEN "pending" ELSE status[q]]
          /\ stale' = stale \ batch
          /\ UNCHANGED <<deliveries, relay, job, exec>>
    BY <1>2 DEF ReclaimStaleProcessing, history
  <2>2. r \notin batch
    BY DEF Reclaimable, Clean
  <2> QED
    BY <1>0, <2>1, <2>2, CleanFrame DEF RowSame, ExecSame, RelaySame, Held
<1> QED
  BY <1>0, <1>1, <1>2 DEF RedisLoss

\* Faults never come back, so until the first one every step keeps CleanInv.
LEMMA CleanInvStep ==
  ASSUME TypeInv, RowInv, CleanInv, [Next]_vars
  PROVE  CleanInv'
<1>1. faults \in 0..MaxFaults /\ MaxFaults \in Nat
  BY SizeAssumption DEF TypeInv, TypeOK
<1>2. faults' = faults \/ faults' = faults - 1
  BY DEF Next, Relay, Process, Failure, Publish, Commit, Rollback, SelectPending, ClaimBatch,
         Enqueue, FindById, Dispatch, Complete, RecordFailure, JobReturned, JobThrew,
         ClaimThrows, EnqueueThrows, FindByIdThrows, DispatchThrows, CompleteThrows,
         RecordFailureThrows, Crash, Take, GrowStale, RecoverStalled, LoseLock, Evict,
         ReclaimStaleProcessing, RedisLoss, Fault, vars
<1>5. \A r \in Poison : deliveries'[r] = 0
  <2>1. UNCHANGED deliveries \/ \E w \in Worker : Dispatch(w)
    BY DEF Next, Relay, Process, Failure, Publish, Commit, Rollback, SelectPending, ClaimBatch,
           Enqueue, FindById, Complete, RecordFailure, JobReturned, JobThrew,
           ClaimThrows, EnqueueThrows, FindByIdThrows, DispatchThrows, CompleteThrows,
           RecordFailureThrows, Crash, Take, GrowStale, RecoverStalled, LoseLock, Evict,
           ReclaimStaleProcessing, RedisLoss, history, vars
  <2>2. ASSUME NEW w \in Worker, Dispatch(w), NEW r \in Poison
        PROVE  deliveries'[r] = deliveries[r]
    BY <2>2, PoisonAssumption DEF Dispatch, TypeInv, TypeOK
  <2> QED
    BY <2>1, <2>2 DEF CleanInv
<1> SUFFICES ASSUME faults' = MaxFaults, NEW r \in Row \ Poison PROVE Clean(r)'
  BY <1>5 DEF CleanInv
<1>3. faults' = faults /\ faults \in Nat /\ Clean(r)
  BY <1>1, <1>2 DEF CleanInv
<1>4. CASE UNCHANGED vars
  <2>1. RowSame(r) /\ ExecSame(r) /\ RelaySame(r) /\ job'[r] = job[r]
    BY <1>4 DEF vars, rowVars, history, RowSame, ExecSame, RelaySame, Held
  <2> QED
    BY <1>3, <2>1, CleanFrame
<1> QED
  BY <1>3, <1>4, PublishClean, RelayClean, ProcessClean, QueueClean, FailureClean DEF Next

-----------------------------------------------------------------------------
(* The inductive invariant and the theorems that follow from it.           *)

IInv == TypeInv /\ RowInv /\ DispatchInv /\ RetryInv /\ CleanInv

\* IInv holds at the start and every step keeps it.
LEMMA Inductive == Spec => []IInv
<1>1. Init => IInv
  <2> SUFFICES ASSUME Init
               PROVE  IInv
    OBVIOUS
  <2>1. TypeInv
    BY InitTypeInv
  <2>2. RowInv
    BY DEF Init, RowInv, LockInv, CommitInv, IdleRelay
  <2>3. DispatchInv
    BY DEF Init, DispatchInv, IdleExec
  <2>4. RetryInv
    BY DEF Init, RetryInv, IdleExec, NoJob
  <2>5. CleanInv
    BY PoisonAssumption DEF Init, CleanInv, Clean, Running, Held, IdleExec, IdleRelay, NoJob
  <2> QED
    BY <2>1, <2>2, <2>3, <2>4, <2>5 DEF IInv
<1>2. IInv /\ [Next]_vars => IInv'
  <2> SUFFICES ASSUME IInv, [Next]_vars
               PROVE  IInv'
    OBVIOUS
  <2>1. TypeInv /\ RowInv /\ DispatchInv /\ RetryInv /\ CleanInv
    BY DEF IInv
  <2>2. TypeInv'
    BY <2>1, TypeInvStep
  <2>3. RowStep /\ RowInv'
    BY <2>1, RowInvStep
  <2>4. DispatchInv'
    BY <2>1, <2>3, DispatchInvStep
  <2>5. RetryInv'
    BY <2>1, RetryInvStep
  <2>6. CleanInv'
    BY <2>1, CleanInvStep
  <2> QED
    BY <2>2, <2>3, <2>4, <2>5, <2>6 DEF IInv
<1> QED
  BY <1>1, <1>2, PTL DEF Spec

\* At-least-once: a processed row was dispatched.
THEOREM OutboxAtLeastOnce == Spec => []ProcessedWasDispatched
<1>1. IInv => ProcessedWasDispatched
  BY DEF IInv, DispatchInv, ProcessedWasDispatched
<1> QED
  BY <1>1, Inductive, PTL

\* No handler sees an event of a transaction that did not commit.
THEOREM OutboxAtomicPublication == Spec => []OnlyCommittedDispatched
<1>1. IInv => OnlyCommittedDispatched
  BY DEF IInv, DispatchInv, OnlyCommittedDispatched
<1> QED
  BY <1>1, Inductive, PTL

\* A row is failed only after MaxAttempts calls threw for it.
THEOREM OutboxFailedWasRetried == Spec => []FailedWasRetried
<1>1. IInv => FailedWasRetried
  BY SizeAssumption DEF IInv, RetryInv, FailedWasRetried
<1> QED
  BY <1>1, Inductive, PTL

\* Handlers see an event twice only after a fault: without one a claim, a job
\* and an execution hand the row on to each other, and a row in anyone's hands
\* does not go stale.
THEOREM OutboxDuplicateNeedsFault == Spec => []DuplicateNeedsFault
<1>1. IInv => DuplicateNeedsFault
  <2> SUFFICES ASSUME IInv, NEW r \in Row, deliveries[r] > 1, ~(faults < MaxFaults)
               PROVE  FALSE
    BY DEF DuplicateNeedsFault
  <2>1. faults = MaxFaults
    BY SizeAssumption DEF IInv, TypeInv, TypeOK
  <2>2. deliveries[r] <= 1
    BY <2>1 DEF IInv, CleanInv, Clean
  <2> QED
    BY <2>2 DEF IInv, TypeInv, TypeOK
<1> QED
  BY <1>1, Inductive, PTL

\* processed and failed are final.
THEOREM OutboxFinalStatus == Spec => FinalStatusStays
<1>1. IInv /\ [Next]_vars
        => [\A r \in Row : status[r] \in {"processed", "failed"}
                             => status'[r] = status[r]]_vars
  <2> SUFFICES ASSUME IInv, [Next]_vars, NEW r \in Row,
                      status[r] \in {"processed", "failed"}
               PROVE  status'[r] = status[r]
    OBVIOUS
  <2>1. RowStep
    BY RowInvStep DEF IInv
  <2>2. domain[r] = "committed"
    BY DEF IInv, RowInv, CommitInv
  <2> QED
    BY <2>1, <2>2 DEF RowStep
<1> QED
  BY <1>1, Inductive, PTL DEF Spec, FinalStatusStays

-----------------------------------------------------------------------------
(* The refinement of EventDelivery.                                         *)

Mapped == [r \in Row |-> Outcome(r)]
Handled == {r \in Row : deliveries[r] > 0}

\* A step that changes no row's outcome and dispatches nothing stutters.
LEMMA StutterStep ==
  ASSUME \A r \in Row : Outcome(r)' = Outcome(r),
         deliveries' = deliveries
  PROVE  Mapped' = Mapped /\ Handled' = Handled
  BY DEF Mapped, Handled

\* Every step of the outbox is a step of the promise or a stutter.
LEMMA DeliveryStep ==
  ASSUME IInv, [Next]_vars
  PROVE  [Delivery!Next]_(<<Mapped, Handled>>)
<1> USE DEF IInv, TypeInv, TypeOK
<1>1. ASSUME NEW r \in Row, Commit(r)
      PROVE  Delivery!Publish(r)
  <2>1. status[r] = "uncommitted" /\ status' = [status EXCEPT ![r] = "pending"]
        /\ deliveries' = deliveries
    BY <1>1 DEF Commit, RowInv, CommitInv, history
  <2>2. Outcome(r) = "unpublished" /\ Outcome(r)' = "owed"
    BY <2>1 DEF Outcome
  <2>3. \A s \in Row : s # r => Outcome(s)' = Outcome(s)
    BY <2>1 DEF Outcome
  <2> QED
    BY <2>1, <2>2, <2>3 DEF Delivery!Publish
<1>2. ASSUME NEW w \in Worker, Dispatch(w)
      PROVE  \E e \in Row : Delivery!Handle(e)
  <2> PICK r \in Row : r = exec[w].row
    BY <1>2 DEF Dispatch
  <2>1. r \in Row /\ status' = status /\ domain[r] = "committed"
        /\ deliveries' = [deliveries EXCEPT ![r] =
                            IF deliveries[r] < 2 THEN deliveries[r] + 1 ELSE deliveries[r]]
    BY <1>2 DEF Dispatch, rowVars, DispatchInv
  <2>2. Outcome(r) # "unpublished"
    BY <2>1 DEF Outcome, RowInv, CommitInv
  <2>3. \A s \in Row : Outcome(s)' = Outcome(s)
    BY <2>1 DEF Outcome
  <2>4. {s \in Row : deliveries'[s] > 0} = {s \in Row : deliveries[s] > 0} \union {r}
    BY <2>1
  <2> QED
    BY <2>1, <2>2, <2>3, <2>4 DEF Delivery!Handle
<1>3. ASSUME NEW w \in Worker, Complete(w)
      PROVE  (\E e \in Row : Delivery!Settle(e)) \/ UNCHANGED <<Mapped, Handled>>
  <2> PICK r \in Row : r = exec[w].row
    BY <1>3 DEF Complete
  <2>1. r \in Row /\ deliveries' = deliveries /\ deliveries[r] > 0
        /\ SetFinal(r, "processed")
    BY <1>3 DEF Complete, DispatchInv, history
  <2>2. CASE status[r] = "processing"
    <3>1. status' = [status EXCEPT ![r] = "processed"]
      BY <2>1, <2>2 DEF SetFinal
    <3>2. Outcome(r) = "owed" /\ Outcome(r)' = "settled"
      BY <2>1, <2>2, <3>1 DEF Outcome
    <3>3. \A s \in Row : s # r => Outcome(s)' = Outcome(s)
      BY <3>1 DEF Outcome
    <3> QED
      BY <2>1, <3>2, <3>3 DEF Delivery!Settle
  <2>3. CASE status[r] # "processing"
    <3>1. status' = status
      BY <2>1, <2>3 DEF SetFinal, rowVars
    <3> QED
      BY <2>1, <3>1, StutterStep DEF Outcome
  <2> QED
    BY <2>2, <2>3
<1>4. ASSUME NEW w \in Worker, RecordFailure(w)
      PROVE  (\E e \in Row : Delivery!GiveUp(e)) \/ UNCHANGED <<Mapped, Handled>>
  <2> PICK r \in Row : r = exec[w].row
    BY <1>4 DEF RecordFailure
  <2>1. r \in Row /\ deliveries' = deliveries /\ SetFinal(r, "failed")
    BY <1>4 DEF RecordFailure, history
  <2>2. CASE status[r] = "processing"
    <3>1. status' = [status EXCEPT ![r] = "failed"]
      BY <2>1, <2>2 DEF SetFinal
    <3>2. Outcome(r) = "owed" /\ Outcome(r)' = "givenUp"
      BY <2>1, <2>2, <3>1 DEF Outcome
    <3>3. \A s \in Row : s # r => Outcome(s)' = Outcome(s)
      BY <3>1 DEF Outcome
    <3> QED
      BY <2>1, <3>2, <3>3 DEF Delivery!GiveUp
  <2>3. CASE status[r] # "processing"
    <3>1. status' = status
      BY <2>1, <2>3 DEF SetFinal, rowVars
    <3> QED
      BY <2>1, <3>1, StutterStep DEF Outcome
  <2> QED
    BY <2>2, <2>3
<1>5. ASSUME NEW r \in Row, Publish(r) \/ Rollback(r)
      PROVE  UNCHANGED <<Mapped, Handled>>
  <2>1. deliveries' = deliveries
        /\ \A s \in Row : \/ status'[s] = status[s]
                          \/ /\ status[s] \in {"absent", "uncommitted"}
                             /\ status'[s] \in {"absent", "uncommitted"}
    BY <1>5 DEF Publish, Rollback, RowInv, CommitInv, history
  <2> QED
    BY <2>1, StutterStep DEF Outcome
<1>6. ASSUME (\E w \in Worker : ClaimBatch(w)) \/ ReclaimStaleProcessing
      PROVE  UNCHANGED <<Mapped, Handled>>
  <2>1. deliveries' = deliveries
        /\ \A s \in Row : \/ status'[s] = status[s]
                          \/ /\ status[s] \in {"pending", "processing"}
                             /\ status'[s] \in {"pending", "processing"}
    BY <1>6
    DEF ClaimBatch, ReclaimStaleProcessing, Reclaimable, RowInv, LockInv, history
  <2> QED
    BY <2>1, StutterStep DEF Outcome
<1>7. ASSUME UNCHANGED <<status, deliveries>>
      PROVE  UNCHANGED <<Mapped, Handled>>
  BY <1>7, StutterStep DEF Outcome
<1>8. ASSUME NEW w \in Worker,
             \/ SelectPending(w) \/ ClaimThrows(w) \/ EnqueueThrows(w) \/ Crash(w)
             \/ \E r \in Row : Enqueue(w, r) \/ Take(w, r)
      PROVE  UNCHANGED <<Mapped, Handled>>
  BY <1>7, <1>8
  DEF SelectPending, ClaimThrows, EnqueueThrows, Crash, Enqueue, Take, rowVars, history
<1>9. ASSUME NEW w \in Worker,
             \/ FindById(w) \/ JobReturned(w) \/ JobThrew(w) \/ FindByIdThrows(w)
             \/ DispatchThrows(w) \/ CompleteThrows(w) \/ RecordFailureThrows(w)
      PROVE  UNCHANGED <<Mapped, Handled>>
  BY <1>7, <1>9
  DEF FindById, JobReturned, JobThrew, FindByIdThrows, DispatchThrows, CompleteThrows,
      RecordFailureThrows, rowVars, history
<1>10. ASSUME NEW r \in Row, GrowStale(r) \/ RecoverStalled(r) \/ LoseLock(r) \/ Evict(r)
       PROVE  UNCHANGED <<Mapped, Handled>>
  BY <1>7, <1>10 DEF GrowStale, RecoverStalled, LoseLock, Evict, rowVars, history
<1>11. ASSUME RedisLoss \/ UNCHANGED vars
       PROVE  UNCHANGED <<Mapped, Handled>>
  BY <1>7, <1>11 DEF RedisLoss, vars, rowVars, history
<1> QED
  <2>1. CASE UNCHANGED <<Mapped, Handled>>
    BY <2>1
  <2>2. CASE ~UNCHANGED <<Mapped, Handled>>
    <3>1. \E e \in Row : Delivery!Publish(e) \/ Delivery!Handle(e)
                         \/ Delivery!Settle(e) \/ Delivery!GiveUp(e)
      <4>1. CASE \E r \in Row : Publish(r) \/ Commit(r) \/ Rollback(r)
        BY <4>1, <1>1, <1>5, <2>2
      <4>2. CASE \E w \in Worker : Relay(w)
        BY <4>2, <1>6, <1>8, <2>2 DEF Relay
      <4>3. CASE \E w \in Worker : Process(w)
        BY <4>3, <1>2, <1>3, <1>4, <1>9, <2>2 DEF Process
      <4>4. CASE \E w \in Worker : Failure(w)
        BY <4>4, <1>8, <1>9, <2>2 DEF Failure
      <4>5. CASE \E w \in Worker, r \in Row : Take(w, r)
        BY <4>5, <1>8, <2>2
      <4>6. CASE \E r \in Row : GrowStale(r) \/ RecoverStalled(r) \/ LoseLock(r) \/ Evict(r)
        BY <4>6, <1>10, <2>2
      <4>7. CASE ReclaimStaleProcessing \/ RedisLoss \/ UNCHANGED vars
        BY <4>7, <1>6, <1>11, <2>2
      <4> QED
        BY <4>1, <4>2, <4>3, <4>4, <4>5, <4>6, <4>7 DEF Next
    <3> QED
      BY <3>1 DEF Delivery!Next
  <2> QED
    BY <2>1, <2>2

\* The outbox implements EventDelivery: claims, jobs, retries, reclaims,
\* crashes and losses are stutters of what a publisher is promised.
THEOREM OutboxImplementsDelivery == Spec => ImplementsDelivery
<1>1. Init => Delivery!Init
  BY DEF Init, Delivery!Init, Outcome
<1>2. IInv /\ [Next]_vars => [Delivery!Next]_(Delivery!deliveryVars)
  BY DeliveryStep DEF Delivery!deliveryVars, Mapped, Handled
<1> QED
  BY <1>1, <1>2, Inductive, PTL DEF Spec, ImplementsDelivery, Delivery!Spec
=============================================================================
