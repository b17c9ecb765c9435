------------------------------ MODULE MCSettles ------------------------------
(* Small instances of the components that have something to get done in the  *)
(* end, for TLC, each under the fairness its own module states.  They share  *)
(* no state, so they are explored side by side: the component "part" names   *)
(* takes steps and the others rest in an initial state.                      *)
EXTENDS Naturals, FiniteSets

CONSTANT NoPolicy       \* an undefined retry

VARIABLES
    roleIds, grants, minted, expired, cache, tx, fill, gone, effective, raced, writes, cacheFaults,
    slot, ttl, lockPhase, round, lockFaults, lapsed,
    count, left, limitPhase, wait, limitFaults, recent, blocked, counted, losses,
    req, httpPhase, attempt, redirects, hopTime, tryTime, elapsed, aborted, outcome, received, answered,
    row, family, cookie, session, refresh, request, calls, webFaults, executed, reused, crossed, futile,
    server, troubles, processPhase, client, pool, stopped, drain, consumer, active,
    ci, head, due, mon, monitorPhase, code, monitorElapsed, unparsed, stale, actions, reruns,
    part                \* the component that takes steps

cacheVars == <<roleIds, grants, minted, expired, cache, tx, fill, gone, effective, raced, writes, cacheFaults>>
lockVars == <<slot, ttl, lockPhase, round, lockFaults, lapsed>>
limiterVars == <<count, left, limitPhase, wait, limitFaults, recent, blocked, counted, losses>>
httpVars == <<req, httpPhase, attempt, redirects, hopTime, tryTime, elapsed, aborted, outcome, received, answered>>
webVars == <<row, family, cookie, session, refresh, request, calls, webFaults, executed, reused, crossed, futile>>
processVars == <<server, troubles, processPhase, client, pool, stopped, drain, consumer, active>>
monitorVars == <<ci, head, due, mon, monitorPhase, code, monitorElapsed, unparsed, stale, actions, reruns>>

-----------------------------------------------------------------------------
Cache == INSTANCE PermissionCache WITH
    User <- {"u1"}, ApiKey <- {}, Role <- {"ra"}, Permission <- {"p", "s"}, Writer <- {"w1"}, Reader <- {"q1"},
    TTL <- 1, MaxFill <- 1, MaxWrites <- 1, MaxFaults <- 1, faults <- cacheFaults

Lock == INSTANCE RedisLock WITH
    Client <- {"c1", "c2"}, Ttl <- 2, MaxAcquires <- 2, MaxFaults <- 2,
    phase <- lockPhase, faults <- lockFaults

Limiter == INSTANCE RateLimiter WITH
    Request <- {"r1"}, Limit <- 2, WindowSeconds <- 1, MaxFaults <- 1,
    phase <- limitPhase, faults <- limitFaults, calls <- counted

Http == INSTANCE HttpClient WITH
    Policy <- {{"network", "timeout"}},
    TimeoutMs <- 1, MaxRedirects <- 2, MaxRetries <- 1, phase <- httpPhase

Web == INSTANCE WebSession WITH
    Tab <- {"b1"}, Request <- {"r1", "r2"}, MaxCalls <- 4, MaxFaults <- 1, faults <- webFaults

Worker == INSTANCE Processes WITH
    Processes <- {"worker"}, Retries <- 2, MaxTroubles <- 2, phase <- processPhase

Failed == [cipe |-> "FAILED", sh |-> "COMPLETED", ver |-> "COMPLETED", fc |-> "none", tasks |-> "verified",
           skip |-> "none", autoApply |-> FALSE, skipApply |-> FALSE, autoApplied |-> FALSE, enabled |-> TRUE]

InProgress == [Failed EXCEPT !.cipe = "IN_PROGRESS", !.sh = "none", !.ver = "none"]

Classified(fc) == [Failed EXCEPT !.sh = "none", !.ver = "none", !.fc = fc]

Course == {InProgress, Failed, [Failed EXCEPT !.autoApply = TRUE],
           Classified("FLAKY_TASK"), Classified("ENVIRONMENT_STATE"),
           [InProgress EXCEPT !.cipe = "SUCCEEDED"]}

Monitor == INSTANCE CiMonitor WITH
    CiInfo <- Course, NoProgressCap <- 3, EnvRerunCap <- 1, MaxCycles <- 2, LocalAttempts <- 1,
    TimeoutUnits <- 6, NewCipeUnits <- 3, MaxAttempts <- 2, MaxUnparsed <- 1,
    phase <- monitorPhase, elapsed <- monitorElapsed

-----------------------------------------------------------------------------
SettlesInit ==
    /\ part \in {"cache", "lock", "limiter", "http", "web", "worker", "monitor"}
    /\ Cache!Init /\ Lock!Init /\ Limiter!Init /\ Http!Init /\ Web!Init /\ Worker!Init /\ Monitor!Init
    /\ part # "cache" => roleIds["u1"] = {} /\ grants["ra"] = {}
    /\ part # "http" => req = CHOOSE r \in Http!HttpRequest : TRUE
    /\ part # "monitor" => ci.info = Failed

Resolving ==
    /\ part = "cache" /\ Cache!Next
    /\ UNCHANGED <<part, lockVars, limiterVars, httpVars, webVars, processVars, monitorVars>>

Locking ==
    /\ part = "lock" /\ Lock!Next
    /\ UNCHANGED <<part, cacheVars, limiterVars, httpVars, webVars, processVars, monitorVars>>

Limiting ==
    /\ part = "limiter" /\ Limiter!Next
    /\ UNCHANGED <<part, cacheVars, lockVars, httpVars, webVars, processVars, monitorVars>>

Calling ==
    /\ part = "http" /\ Http!Next
    /\ UNCHANGED <<part, cacheVars, lockVars, limiterVars, webVars, processVars, monitorVars>>

Browsing ==
    /\ part = "web" /\ Web!Next
    /\ UNCHANGED <<part, cacheVars, lockVars, limiterVars, httpVars, processVars, monitorVars>>

Working ==
    /\ part = "worker" /\ Worker!Next
    /\ UNCHANGED <<part, cacheVars, lockVars, limiterVars, httpVars, webVars, monitorVars>>

Monitoring ==
    /\ part = "monitor" /\ Monitor!Next
    /\ UNCHANGED <<part, cacheVars, lockVars, limiterVars, httpVars, webVars, processVars>>

SettlesNext == Resolving \/ Locking \/ Limiting \/ Calling \/ Browsing \/ Working \/ Monitoring

-----------------------------------------------------------------------------
(* The fairness of each component, as its module states it.                  *)

CacheFairness ==
    /\ WF_cacheVars(part = "cache" /\ Cache!Tick)
    /\ WF_cacheVars(part = "cache" /\ Cache!FillStep("q1"))
    /\ WF_cacheVars(part = "cache" /\ Cache!WriteStep("w1"))

LockFairness == WF_lockVars(part = "lock" /\ Lock!Tick)

LimiterFairness == WF_limiterVars(part = "limiter" /\ Limiter!Tick)

HttpFairness ==
    WF_httpVars(part = "http" /\ (Http!Dispatch \/ Http!DispatchAborted \/ Http!Timeout \/ Http!CallerStops
                                  \/ Http!Backoff \/ Http!Tick))

WebFairness ==
    /\ WF_webVars(part = "web" /\ Web!Rotate("b1")) /\ WF_webVars(part = "web" /\ Web!RefreshAnswered("b1"))
    /\ \A r \in {"r1", "r2"} :
        WF_webVars(part = "web" /\ Web!Answer("b1", r)) /\ WF_webVars(part = "web" /\ Web!Refused("b1", r))

WorkerFairness ==
    /\ WF_processVars(part = "worker" /\ Worker!Progress("worker"))
    /\ WF_processVars(part = "worker" /\ Worker!Listen)
    /\ WF_processVars(part = "worker" /\ Worker!StartConsumers)
    /\ WF_processVars(part = "worker" /\ Worker!UpsertSchedulers)
    /\ WF_processVars(part = "worker" /\ Worker!Tick)
    /\ WF_processVars(part = "worker" /\ Worker!Claim)
    /\ WF_processVars(part = "worker" /\ Worker!Add)
    /\ \A q \in Worker!QueueName :
        /\ WF_processVars(part = "worker" /\ Worker!FinishJob(q))
        /\ WF_processVars(part = "worker" /\ Worker!CloseConsumer(q))

MonitorFairness ==
    /\ WF_monitorVars(part = "monitor" /\ Monitor!Poll)
    /\ WF_monitorVars(part = "monitor" /\ (\/ Monitor!Stop
                                           \/ \E action \in Monitor!CipeUrlActions \union Monitor!CommitShaActions :
                                                Monitor!Act(action)))

SettlesSpec ==
    /\ SettlesInit
    /\ [][SettlesNext]_<<part, cacheVars, lockVars, limiterVars, httpVars, webVars, processVars, monitorVars>>
    /\ CacheFairness /\ LockFairness /\ LimiterFairness /\ HttpFairness /\ WebFairness
    /\ WorkerFairness /\ MonitorFairness

-----------------------------------------------------------------------------
(* Properties.                                                              *)

\* What every component gets done in the end: a revoked grant leaves the cache, a
\* lease ends, the bucket of a caller who keeps calling reopens, an outbound call
\* and the calls of a page settle, a worker boots, shuts down and reconnects, and
\* the CI monitor stops.
EverythingSettles ==
    /\ part = "cache" => Cache!RevocationTakesEffect
    /\ part = "lock" => Lock!LeaseEnds
    /\ part = "limiter" => Limiter!BucketReopens
    /\ part = "http" => Http!CallSettles
    /\ part = "web" => Web!CallsSettle
    /\ part = "worker" => Worker!BootsEventually /\ Worker!ShutdownEnds /\ Worker!ReconnectsOrEnds
    /\ part = "monitor" => Monitor!Stops
=============================================================================
