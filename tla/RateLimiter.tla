---------------------------- MODULE RateLimiter ----------------------------
(* The fixed-window rate limiter: RateLimitInterceptor asks RedisRateLimiter,  *)
(* whose script counts and dates one key per bucket and client address, and    *)
(* lets the request through when the limiter fails.  Time is in quarters of a  *)
(* second, because Redis answers TTL in seconds, rounded to the nearest.       *)
EXTENDS Integers, FiniteSetsExt

CONSTANTS
    Request,          \* requests in flight for one bucket and address; a slot is used again
    Limit,            \* options.limit
    WindowSeconds,    \* options.windowSeconds
    MaxFaults         \* bound: failures of Redis and resent commands

RateLimiterAssumption ==
    /\ Limit \in Nat \ {0}
    /\ WindowSeconds \in Nat \ {0}
    /\ MaxFaults \in Nat

Second == 4
Window == Second * WindowSeconds

VARIABLES
    count,     \* the key's counter, 0 when there is no key
    left,      \* quarters until the key expires
    phase,     \* request -> "idle" | "sent" | "counted" | "allowed" | "refused"
    wait,      \* refused request -> quarters until the time it was told
    faults,    \* faults left
    recent,    \* history: n up to a window -> admissions of the script in the last n quarters
    blocked,   \* history: refused requests whose window still runs
    calls,     \* history: requests the running window has counted, each once, up to Limit
    losses     \* history: times Redis lost the key

vars == <<count, left, phase, wait, faults, recent, blocked, calls, losses>>

Init ==
    /\ count = 0
    /\ left = 0
    /\ phase = [r \in Request |-> "idle"]
    /\ wait = [r \in Request |-> 0]
    /\ faults = MaxFaults
    /\ recent = [n \in 1 .. Window |-> 0]
    /\ blocked = {}
    /\ calls = 0
    /\ losses = 0

Fault ==
    /\ faults > 0
    /\ faults' = faults - 1

(* Redis TTL: milliseconds to seconds, rounded to the nearest. *)
TTL(quarters) == (quarters + 2) \div Second

----------------------------------------------------------------------------
(* INCR, EXPIRE when the counter is new, TTL.  The counter only matters up to  *)
(* its first value above the limit.                                            *)
Expire(n, quarters) == IF n = 1 THEN Window ELSE quarters

ConsumeScript ==
    /\ count' = Min({count + 1, Limit + 1})
    /\ left' = Expire(count + 1, left)

(* toRateLimitDecision *)
Allows(n) == n <= Limit

HalfTheTtl(ttl) == Max({1, ttl \div 2})

RetryAfterSeconds(ttl) == Max({1, IF ttl > 0 THEN ttl ELSE WindowSeconds})

(* A request of a limited route reaches the interceptor. *)
Arrive(r) ==
    /\ phase[r] = "idle"
    /\ phase' = [phase EXCEPT ![r] = "sent"]
    /\ UNCHANGED <<count, left, wait, faults, recent, blocked, calls, losses>>

(* The script runs; calls counts the request once, also when it is resent.     *)
Decide(r) ==
    /\ ConsumeScript
    /\ phase' = [phase EXCEPT ![r] = IF Allows(count + 1) THEN "allowed" ELSE "refused"]
    /\ wait' = [wait EXCEPT ![r] = IF Allows(count + 1) THEN 0 ELSE Second * RetryAfterSeconds(TTL(left'))]
    /\ recent' = IF Allows(count + 1) THEN [n \in 1 .. Window |-> recent[n] + 1] ELSE recent
    /\ blocked' = IF Allows(count + 1) THEN blocked ELSE blocked \union {r}

Consume(r) ==
    /\ phase[r] = "sent"
    /\ Decide(r)
    /\ calls' = Min({calls + 1, Limit + 1})
    /\ UNCHANGED <<faults, losses>>

(* The answer of the script is lost and the command client sends it again: the *)
(* request is counted twice.                                                   *)
ConsumeUnanswered(r) ==
    /\ phase[r] = "sent"
    /\ Fault
    /\ ConsumeScript
    /\ phase' = [phase EXCEPT ![r] = "counted"]
    /\ calls' = Min({calls + 1, Limit + 1})
    /\ UNCHANGED <<wait, recent, blocked, losses>>

ConsumeAgain(r) ==
    /\ phase[r] = "counted"
    /\ Decide(r)
    /\ UNCHANGED <<faults, calls, losses>>

(* Any other error of the limiter is logged and the request goes on. *)
FailOpen(r) ==
    /\ phase[r] \in {"sent", "counted"}
    /\ Fault
    /\ phase' = [phase EXCEPT ![r] = "allowed"]
    /\ UNCHANGED <<count, left, wait, recent, blocked, calls, losses>>

(* The caller has its answer and may send another request. *)
Answered(r) ==
    /\ phase[r] \in {"allowed", "refused"}
    /\ phase' = [phase EXCEPT ![r] = "idle"]
    /\ wait' = [wait EXCEPT ![r] = 0]
    /\ blocked' = blocked \ {r}
    /\ UNCHANGED <<count, left, faults, recent, calls, losses>>

----------------------------------------------------------------------------
(* The key is gone: a new window begins with the next request. *)
WindowEnds ==
    /\ count' = 0
    /\ left' = 0
    /\ blocked' = {}
    /\ calls' = 0

Tick ==
    /\ \/ left = 1 /\ WindowEnds
       \/ left # 1 /\ left' = (IF left = 0 THEN 0 ELSE left - 1) /\ UNCHANGED <<count, blocked, calls>>
    /\ wait' = [r \in Request |-> Max({0, wait[r] - 1})]
    /\ recent' = [n \in 1 .. Window |-> IF n = 1 THEN 0 ELSE recent[n - 1]]
    /\ UNCHANGED <<phase, faults, losses>>

LoseData ==
    /\ Fault
    /\ count > 0
    /\ WindowEnds
    /\ losses' = losses + 1
    /\ UNCHANGED <<phase, wait, recent>>

Next ==
    \/ \E r \in Request :
        \/ Arrive(r) \/ Consume(r) \/ ConsumeUnanswered(r) \/ ConsumeAgain(r)
        \/ FailOpen(r) \/ Answered(r)
    \/ Tick
    \/ LoseData

Spec == Init /\ [][Next]_vars

(* Redis's clock runs. *)
FairSpec == Spec /\ WF_vars(Tick)

----------------------------------------------------------------------------
TypeOK ==
    /\ count \in 0 .. Limit + 1
    /\ left \in 0 .. Window
    /\ (left = 0) <=> (count = 0)
    /\ phase \in [Request -> {"idle", "sent", "counted", "allowed", "refused"}]
    /\ wait \in [Request -> 0 .. Window]
    /\ faults \in 0 .. MaxFaults

(* In any span of a window's length, wherever its border falls, the script     *)
(* admits at most twice the limit, and one limit more for each time Redis       *)
(* lost the counter.                                                            *)
BurstBounded == recent[Window] <= (2 + losses) * Limit

(* A request is refused only in a window that has counted more requests than    *)
(* the limit, unless a resent command counted one of them twice.                *)
RefusedNeedsFullWindow == blocked # {} => calls > Limit \/ faults < MaxFaults

(* A refused caller that waits as long as Retry-After says finds the window     *)
(* over, or at most half a second from its end: TTL rounds to the nearest.      *)
RetryAfterReachesTheEnd == \A r \in blocked : wait[r] = 0 => left <= Second \div 2

(* The time a refused caller is told is the window's: within the rounding it    *)
(* never waits past the end of the window that refused it.                      *)
RetryAfterIsTheTtl ==
    \A r \in blocked : wait[r] <= left + Second \div 2

(* A window ends however many requests arrive: no caller is locked out by       *)
(* its own retries.                                                             *)
BucketReopens == (count > Limit) ~> (count <= Limit)
=============================================================================
