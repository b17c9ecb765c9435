----------------------------- MODULE MCServices -----------------------------
(* Small instances of the components at the edges of the processes: what     *)
(* they keep in Redis, their outbound calls, the browser's session and their *)
(* own start and stop.  In the models they share no state, so they are       *)
(* explored side by side: the component "part" names takes steps and the     *)
(* others rest in an initial state.                                          *)
EXTENDS RedisLock, TLC

CONSTANTS
    Request,        \* requests of a client address, of a tab
    Limit, WindowSeconds, MaxLimiterFaults,
    Subscriber, Channel, MaxPublished, MaxDrops,
    Policy, NoPolicy, TimeoutMs, MaxRedirects, MaxRetries,
    Tab, MaxCalls, MaxLost,
    Processes, Retries, MaxTroubles

VARIABLES
    count, left, limitPhase, wait, limitFaults, recent, blocked, counted, losses,
    channelOf, subPhase, listeners, ready, channels, messages, published, subFaults, strays,
    req, httpPhase, attempt, redirects, hopTime, tryTime, elapsed, aborted, outcome, received, answered,
    row, family, cookie, session, refresh, request, calls, webFaults, executed, reused, crossed, futile,
    server, troubles, processPhase, client, pool, stopped, drain, consumer, active,
    part            \* the component that takes steps

limiterVars == <<count, left, limitPhase, wait, limitFaults, recent, blocked, counted, losses>>
pubSubVars == <<channelOf, subPhase, listeners, ready, channels, messages, published, subFaults, strays>>
httpVars == <<req, httpPhase, attempt, redirects, hopTime, tryTime, elapsed, aborted, outcome, received, answered>>
webVars == <<row, family, cookie, session, refresh, request, calls, webFaults, executed, reused, crossed, futile>>
processVars == <<server, troubles, processPhase, client, pool, stopped, drain, consumer, active>>

Limiter == INSTANCE RateLimiter WITH
    MaxFaults <- MaxLimiterFaults, phase <- limitPhase, faults <- limitFaults, calls <- counted

PubSub == INSTANCE RedisPubSub WITH MaxFaults <- MaxDrops, phase <- subPhase, faults <- subFaults

Http == INSTANCE HttpClient WITH phase <- httpPhase

Web == INSTANCE WebSession WITH MaxFaults <- MaxLost, faults <- webFaults

Runtime == INSTANCE Processes WITH phase <- processPhase

ASSUME LimiterAssumption == Limiter!RateLimiterAssumption
ASSUME PubSubAssumption == PubSub!RedisPubSubAssumption
ASSUME HttpAssumption == Http!HttpClientAssumption
ASSUME WebAssumption == Web!TabAssumption /\ Web!BoundAssumption
ASSUME RuntimeAssumption == Runtime!ProcessesAssumption

HttpAtRest == Http!Init /\ req = CHOOSE r \in Http!HttpRequest : TRUE

ServicesInit ==
    /\ part \in {"lock", "limiter", "pubSub", "http", "web", "processes"}
    /\ Init /\ Limiter!Init /\ PubSub!Init /\ Web!Init /\ Runtime!Init
    /\ part # "pubSub" => channelOf = [s \in Subscriber |-> CHOOSE k \in Channel : TRUE]
    /\ IF part = "http" THEN Http!Init ELSE HttpAtRest

Locking ==
    /\ part = "lock" /\ Next
    /\ UNCHANGED <<part, limiterVars, pubSubVars, httpVars, webVars, processVars>>

Limiting ==
    /\ part = "limiter" /\ Limiter!Next
    /\ UNCHANGED <<part, vars, pubSubVars, httpVars, webVars, processVars>>

Publishing ==
    /\ part = "pubSub" /\ PubSub!Next
    /\ UNCHANGED <<part, vars, limiterVars, httpVars, webVars, processVars>>

Calling ==
    /\ part = "http" /\ Http!Next
    /\ UNCHANGED <<part, vars, limiterVars, pubSubVars, webVars, processVars>>

Browsing ==
    /\ part = "web" /\ Web!Next
    /\ UNCHANGED <<part, vars, limiterVars, pubSubVars, httpVars, processVars>>

Running ==
    /\ part = "processes" /\ Runtime!Next
    /\ UNCHANGED <<part, vars, limiterVars, pubSubVars, httpVars, webVars>>

ServicesNext == Locking \/ Limiting \/ Publishing \/ Calling \/ Browsing \/ Running

ServicesSpec ==
    ServicesInit /\ [][ServicesNext]_<<part, vars, limiterVars, pubSubVars, httpVars, webVars, processVars>>

ServicesSymmetry == Permutations(Client) \union Permutations(Request)

-----------------------------------------------------------------------------
(* Properties.                                                              *)

\* What RedisLock promises: a lease nobody lost stays its holder's, two clients
\* hold the lock together only after one's lease lapsed, and a key without a
\* holder needs a lost answer or a crash.
LocksAreKept == part = "lock" => TypeOK /\ LeaseIsKept /\ OverlapNeedsLapse /\ OrphanNeedsFault

\* What RateLimiter promises: at most twice the limit within any window, a
\* refusal only when the window is full, and a caller who waits as long as it is
\* told finds the window over.
LimitsAreKept ==
    part = "limiter" =>
        /\ Limiter!TypeOK /\ Limiter!BurstBounded
        /\ Limiter!RefusedNeedsFullWindow /\ Limiter!RetryAfterReachesTheEnd

\* What RedisPubSub promises: a subscriber goes deaf only because a peer left,
\* and no handler runs after its unsubscribe or, without a peer, its failure.
SubscriptionsAreKept ==
    part = "pubSub" =>
        /\ PubSub!TypeOK /\ PubSub!DeafNeedsPeerLeaving
        /\ PubSub!SilentAfterUnsubscribe /\ PubSub!LeakedHandlerNeedsPeer

\* What HttpClient promises: a write reaches the peer twice only if the caller
\* allowed retries, and time, attempts and hops are bounded.
CallsStayWithinBounds ==
    part = "http" => Http!TypeOK /\ Http!WriteTwiceNeedsConsent /\ Http!CallIsBounded

\* What WebSession promises: no call is executed twice, and the session is taken
\* for stolen only if tabs refreshed together or a message was lost.
SessionsAreKept == part = "web" => Web!TypeOK /\ Web!ExecutedAtMostOnce /\ Web!ReuseNeedsTabsOrLoss

\* What the life cycle of the processes promises: no job runs without the pool
\* and no relay tick starts after the stop.
ShutdownIsOrdered == part = "processes" => Runtime!TypeOK /\ Runtime!JobsHaveThePool /\ Runtime!NoTickAfterStop
=============================================================================
