----------------------------- MODULE HttpClient -----------------------------
(* UndiciHttpClient.request: attempts under a retry policy, each a chain of    *)
(* redirects on one host, each hop with a timer of its own.  The peer may      *)
(* answer late, badly or never, execute a request whose answer is lost, and    *)
(* the caller may abort at any moment.  Time is in ticks; a backoff takes none.*)
EXTENDS Naturals

CONSTANTS
    TimeoutMs,       \* the merged timeoutMs, in ticks
    MaxRedirects,    \* HTTP_CLIENT_MAX_REDIRECTS
    MaxRetries,      \* maxRetries of every policy
    Policy,          \* retryOn of the policies a request or a scope may set
    NoPolicy         \* an undefined retry

HttpClientAssumption ==
    /\ TimeoutMs \in Nat \ {0}
    /\ MaxRedirects \in Nat
    /\ MaxRetries \in Nat
    /\ Policy \subseteq SUBSET {"network", "timeout", "429", "503"}

(* defaultRetry; its 'GET' and 'HEAD' are read by nobody. *)
DefaultRetry == {"network", "timeout", "429", "503"}

(* HttpRequest with the scope's retry: what the two policies, the method and   *)
(* the idempotency key decide.                                                 *)
HttpRequest == [safe : BOOLEAN, keyed : BOOLEAN, retry : Policy \union {NoPolicy}, scope : Policy \union {NoPolicy}]

VARIABLES
    req,         \* the request
    phase,       \* "dispatch" | "fetching" | "reached" | "reading" | "backoff" | "settled"
    attempt,     \* the loop's counter
    redirects,   \* redirectCount of the running hop
    hopTime,     \* ticks since the running hop's timer was set
    tryTime,     \* ticks since the attempt's first timer was set
    elapsed,     \* ticks since request was called
    aborted,     \* req.signal is aborted
    outcome,     \* "none", a status, or the error thrown
    received,    \* history: times the peer received the request
    answered     \* history: the peer answered in the attempt that settled the call

vars == <<req, phase, attempt, redirects, hopTime, tryTime, elapsed, aborted, outcome, received, answered>>

ghosts == <<received, answered>>

(* The hop's timer, the attempt's and the call's clock. *)
clocks == <<hopTime, tryTime, elapsed>>

Waiting == {"fetching", "reached", "reading"}

Init ==
    /\ req \in HttpRequest
    /\ phase = "dispatch"
    /\ attempt = 0
    /\ redirects = 0
    /\ hopTime = 0
    /\ tryTime = 0
    /\ elapsed = 0
    /\ aborted = FALSE
    /\ outcome = "none"
    /\ received = 0
    /\ answered = FALSE

(* #resolveRetry: the request's policy, the scope's, or the default, which a   *)
(* write gets only with an idempotency key.                                    *)
ResolveRetryForAll ==
    IF req.retry # NoPolicy THEN req.retry ELSE IF req.scope # NoPolicy THEN req.scope ELSE DefaultRetry

ResolveRetry ==
    IF req.retry # NoPolicy THEN req.retry
    ELSE IF req.scope # NoPolicy THEN req.scope
    ELSE IF ~req.safe /\ ~req.keyed THEN NoPolicy
    ELSE DefaultRetry

(* The attempt ended in o; the loop returns or throws it, or backs off. *)
Settle(o) ==
    /\ phase' = IF ResolveRetry # NoPolicy /\ attempt < MaxRetries /\ o \in ResolveRetry
                THEN "backoff" ELSE "settled"
    /\ outcome' = o

(* #rethrow at every level of the redirect chain: the caller's abort, a timer  *)
(* that has run out (the first hop's has run longest), then what was thrown;   *)
(* anything unknown is a network error.                                        *)
Rethrow(thrown) ==
    IF aborted THEN "aborted"
    ELSE IF tryTime >= TimeoutMs THEN "timeout"
    ELSE thrown

----------------------------------------------------------------------------
(* #dispatch sets a timer, joins the caller's signal and sends the request; a  *)
(* signal that is already aborted sends nothing.                               *)
Dispatch ==
    /\ phase = "dispatch"
    /\ ~aborted
    /\ phase' = "fetching"
    /\ hopTime' = 0
    /\ tryTime' = IF redirects = 0 THEN 0 ELSE tryTime
    /\ UNCHANGED <<req, attempt, redirects, elapsed, aborted, outcome>>
    /\ UNCHANGED ghosts

DispatchAborted ==
    /\ phase = "dispatch"
    /\ aborted
    /\ Settle(Rethrow("aborted"))
    /\ UNCHANGED <<req, attempt, redirects, aborted>>
    /\ UNCHANGED clocks
    /\ UNCHANGED ghosts

(* The peer gets the hop, and may execute it whether or not its answer arrives. *)
Receive ==
    /\ phase = "fetching"
    /\ ~aborted
    /\ phase' = "reached"
    /\ received' = IF redirects = 0 THEN received + 1 ELSE received
    /\ UNCHANGED <<req, attempt, redirects, aborted, outcome, answered>>
    /\ UNCHANGED clocks

(* The headers of an answer that is not a redirect to follow arrive. *)
Headers ==
    /\ phase = "reached"
    /\ ~aborted
    /\ phase' = "reading"
    /\ answered' = TRUE
    /\ UNCHANGED <<req, attempt, redirects, aborted, outcome, received>>
    /\ UNCHANGED clocks

(* #followRedirect: a safe method, a Location on the same host, fewer than the *)
(* allowed redirects; any other redirect is returned as the answer it is.      *)
Follows ==
    /\ req.safe
    /\ redirects < MaxRedirects

Redirect ==
    /\ phase = "reached"
    /\ ~aborted
    /\ Follows
    /\ phase' = "dispatch"
    /\ redirects' = redirects + 1
    /\ answered' = TRUE
    /\ UNCHANGED <<req, attempt, aborted, outcome, received>>
    /\ UNCHANGED clocks

(* #readBody: a status, a body over the cap, or one that is not the JSON its   *)
(* header says.                                                                *)
ReadBody ==
    /\ phase = "reading"
    /\ ~aborted
    /\ \/ \E status \in {"ok", "429", "503"} : Settle(status)
       \/ Settle(Rethrow("tooLarge"))
       \/ Settle(Rethrow("network"))
    /\ UNCHANGED <<req, attempt, redirects, aborted>>
    /\ UNCHANGED clocks
    /\ UNCHANGED ghosts

(* The peer cannot be reached, or the connection breaks. *)
NetworkFails ==
    /\ phase \in Waiting
    /\ ~aborted
    /\ Settle(Rethrow("network"))
    /\ UNCHANGED <<req, attempt, redirects, aborted>>
    /\ UNCHANGED clocks
    /\ UNCHANGED ghosts

(* The running hop's timer fires, or the caller's signal. *)
TimeoutFirstHop ==
    /\ phase \in Waiting
    /\ hopTime = TimeoutMs
    /\ redirects = 0
    /\ Settle(Rethrow("timeout"))
    /\ UNCHANGED <<req, attempt, redirects, aborted>>
    /\ UNCHANGED clocks
    /\ UNCHANGED ghosts

Timeout ==
    /\ phase \in Waiting
    /\ hopTime = TimeoutMs
    /\ Settle(Rethrow("timeout"))
    /\ UNCHANGED <<req, attempt, redirects, aborted>>
    /\ UNCHANGED clocks
    /\ UNCHANGED ghosts

CallerStops ==
    /\ phase \in Waiting
    /\ aborted
    /\ Settle(Rethrow("aborted"))
    /\ UNCHANGED <<req, attempt, redirects, aborted>>
    /\ UNCHANGED clocks
    /\ UNCHANGED ghosts

(* #backoff ends, whatever became of the caller's signal, and the loop goes on.*)
Backoff ==
    /\ phase = "backoff"
    /\ phase' = "dispatch"
    /\ attempt' = attempt + 1
    /\ redirects' = 0
    /\ answered' = FALSE
    /\ UNCHANGED <<req, aborted, outcome, received>>
    /\ UNCHANGED clocks

Abort ==
    /\ ~aborted
    /\ phase # "settled"
    /\ aborted' = TRUE
    /\ UNCHANGED <<req, phase, attempt, redirects, outcome>>
    /\ UNCHANGED clocks
    /\ UNCHANGED ghosts

(* Timers fire when they are due. *)
Tick ==
    /\ phase \in Waiting
    /\ ~aborted
    /\ hopTime < TimeoutMs
    /\ hopTime' = hopTime + 1
    /\ tryTime' = tryTime + 1
    /\ elapsed' = elapsed + 1
    /\ UNCHANGED <<req, phase, attempt, redirects, aborted, outcome>>
    /\ UNCHANGED ghosts

Next ==
    \/ Dispatch \/ DispatchAborted \/ Receive \/ Headers \/ Redirect
    \/ ReadBody \/ NetworkFails \/ Timeout \/ CallerStops
    \/ Backoff \/ Abort \/ Tick

Spec == Init /\ [][Next]_vars

(* The event loop runs its timers and continuations; the peer owes nothing. *)
FairSpec ==
    /\ Spec
    /\ WF_vars(Dispatch \/ DispatchAborted \/ Timeout \/ CallerStops \/ Backoff \/ Tick)

----------------------------------------------------------------------------
Hops == 1 + MaxRedirects

TypeOK ==
    /\ req \in HttpRequest
    /\ phase \in Waiting \union {"dispatch", "backoff", "settled"}
    /\ attempt \in 0 .. MaxRetries
    /\ redirects \in 0 .. MaxRedirects
    /\ hopTime \in 0 .. TimeoutMs
    /\ tryTime \in 0 .. TimeoutMs * Hops
    /\ outcome \in {"none", "ok", "429", "503", "tooLarge", "network", "timeout", "aborted"}

(* A write is executed more than once only when its caller allowed it, with a   *)
(* policy of its own or its scope's, or with an idempotency key: no timeout,     *)
(* broken connection or 503 makes the client send it again by itself.            *)
WriteTwiceNeedsConsent ==
    received > 1 /\ ~req.safe => req.keyed \/ req.retry # NoPolicy \/ req.scope # NoPolicy

(* However the timers, retries and redirects fall, a call takes at most one      *)
(* timeout for each hop of each attempt.                                         *)
CallIsBounded == elapsed <= (1 + MaxRetries) * Hops * TimeoutMs

(* Every call settles, even when the peer never answers. *)
CallSettles == <>(phase = "settled")

(* "Thrown when the overall request deadline elapses": a call that times out     *)
(* does so at its timeout.                                                       *)
TimeoutIsOverall == phase = "settled" /\ outcome = "timeout" => elapsed <= TimeoutMs

(* "Thrown when the peer cannot be reached": a network error means that the peer *)
(* has not answered.                                                             *)
NetworkErrorMeansUnreached == phase = "settled" /\ outcome = "network" => ~answered
=============================================================================
