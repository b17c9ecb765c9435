------------------------------ MODULE ApiEdge ------------------------------
(* The HTTP edge of the API: the requests of every route and the global        *)
(* interceptors in the order CommonModule registers them.  The parts           *)
(* an interceptor relies on are modelled elsewhere and enter here by what they *)
(* decide: RateLimiter, TenantScope, PermissionCache, Idempotency.             *)
EXTENDS ApiRoutes

CONSTANTS
    Route,      \* the routes of this instance
    Slot,       \* requests that may be open at once
    Tenant,
    NoTenant,   \* undefined
    MaxRequests,\* bound: requests
    MaxChanges, \* bound: changes of what the callers may do
    MaxFaults   \* bound: failures of Postgres or Redis

EdgeAssumption ==
    /\ Route \subseteq DOMAIN Routes
    /\ NoTenant \notin Tenant
    /\ {MaxRequests, MaxChanges, MaxFaults} \subseteq Nat

----------------------------------------------------------------------------
VARIABLES
    request,    \* [Slot -> request], see Request
    granted,    \* <<actor, tenant>> pairs that hold the permission a route asks for
    members,    \* tenants the user is an active member of
    stored,     \* scopes of completed idempotency rows
    requests, changes, faults   \* what is left of the bounds

bounds == <<requests, changes, faults>>
vars == <<request, granted, members, stored, bounds>>

Caller ==
    [actor : {"none", "invalid"}, tenant : {NoTenant}]
    \union [actor : {"user"}, tenant : Tenant \union {NoTenant}]
    \union [actor : {"apiKey"}, tenant : Tenant]

(* target is the tenant of the path or body; held, failed, effect and replayed *)
(* are history: the caller has had the right in its tenant since the request   *)
(* came, a failure met it, its use case ran to the end, a stored response was  *)
(* its answer.                                                                 *)
Idle == [pc |-> 0, route |-> "none", actor |-> "none", tenant |-> NoTenant, target |-> NoTenant, status |-> 0,
         claimed |-> FALSE, held |-> FALSE, failed |-> FALSE, effect |-> FALSE, replayed |-> FALSE]

Init ==
    /\ request = [i \in Slot |-> Idle]
    /\ granted \in SUBSET ({"user", "apiKey"} \X Tenant)
    /\ members \in SUBSET Tenant
    /\ stored = {}
    /\ requests = MaxRequests /\ changes = MaxChanges /\ faults = MaxFaults

R(i) == Routes[request[i].route]

At(i, stage) == request[i].pc \in DOMAIN Stages /\ Stages[request[i].pc] = stage

Holds(i, t) ==
    IF request[i].actor = "apiKey" THEN <<"apiKey", request[i].tenant>> \in granted
    ELSE <<request[i].actor, t>> \in granted

Advance(i) == request' = [request EXCEPT ![i].pc = @ + 1]

(* An exception leaves every interceptor, rolls the unit of work of the claim  *)
(* back and ends in the filter.                                                *)
Refuse(i, code) ==
    request' = [request EXCEPT ![i].pc = Answered, ![i].status = StatusOf(code), ![i].claimed = FALSE,
                               ![i].failed = code \in Failure]

Arrive(i, r, c, t) ==
    /\ request[i].pc = 0
    /\ requests > 0 /\ requests' = requests - 1
    /\ request' = [request EXCEPT ![i] =
        [Idle EXCEPT !.pc = 1, !.route = r, !.actor = c.actor, !.tenant = c.tenant, !.target = t,
                     !.held = <<c.actor, c.tenant>> \in granted]]
    /\ UNCHANGED <<granted, members, stored, changes, faults>>

(* RateLimitInterceptor: a refusal, or onwards; also when the limiter fails. *)
Limit(i) ==
    /\ At(i, "limit")
    /\ Advance(i) \/ (R(i).limited /\ Refuse(i, "RATE_LIMIT_EXCEEDED"))
    /\ UNCHANGED <<granted, members, stored, bounds>>

(* AuthPrincipalInterceptor: the code the caller is refused with, or "". *)
PrincipalRefusal(i) ==
    LET q == request[i] IN
    IF R(i).access = "public" \/ q.actor = "apiKey" THEN ""
    ELSE IF q.actor # "user" THEN "UNAUTHORIZED"
    ELSE IF q.tenant = NoTenant THEN IF R(i).access = "tenant" THEN "UNAUTHORIZED" ELSE ""
    ELSE IF q.tenant \in members THEN "" ELSE "FORBIDDEN"

Principal(i) ==
    /\ At(i, "principal")
    /\ IF PrincipalRefusal(i) = "" THEN Advance(i) ELSE Refuse(i, PrincipalRefusal(i))
    /\ UNCHANGED <<granted, members, stored, bounds>>

(* RequirePermissionInterceptor, for the tenant of the token. *)
Permission(i) ==
    /\ At(i, "permission")
    /\ IF R(i).permission => Holds(i, request[i].tenant) THEN Advance(i) ELSE Refuse(i, "INSUFFICIENT_PERMISSION")
    /\ UNCHANGED <<granted, members, stored, bounds>>

(* IdempotencyInterceptor: the scope is the tenant of the token, or the user.  *)
Scope(i) ==
    <<request[i].route, IF request[i].tenant = NoTenant THEN request[i].actor ELSE request[i].tenant>>

InFlight(i) == \E j \in Slot \ {i} : request[j].claimed /\ Scope(j) = Scope(i)

Claim(i) ==
    /\ At(i, "claim")
    /\ \/ ~R(i).idempotent /\ Advance(i)
       \/ R(i).idempotent /\ Refuse(i, "IDEMPOTENCY_KEY_REQUIRED")
       \/ R(i).idempotent /\ InFlight(i) /\ Refuse(i, "IDEMPOTENCY_IN_PROGRESS")
       \/ R(i).idempotent /\ Scope(i) \in stored /\ Refuse(i, "IDEMPOTENCY_KEY_REUSED")
       \/ R(i).idempotent /\ Scope(i) \in stored
            /\ request' = [request EXCEPT ![i].pc = Answered, ![i].status = R(i).ok, ![i].replayed = TRUE]
       \/ R(i).idempotent /\ Scope(i) \notin stored /\ ~InFlight(i)
            /\ request' = [request EXCEPT ![i].pc = @ + 1, ![i].claimed = TRUE]
    /\ UNCHANGED <<granted, members, stored, bounds>>

(* ApiValidationPipe, for routes with parameters or a body. *)
Validate(i) ==
    /\ At(i, "validate")
    /\ Advance(i) \/ (request[i].route \notin {"webRefresh", "webLogout", "getMe"} /\ Refuse(i, "VALIDATION_ERROR"))
    /\ UNCHANGED <<granted, members, stored, bounds>>

(* SelectTenantUseCase: the membership lookup compares with an ambient tenant. *)
SelectRefusals(i) ==
    IF request[i].tenant \notin {NoTenant, request[i].target} THEN {Mismatch}
    ELSE IF request[i].target \notin members THEN {"ACTIVE_MEMBERSHIP_REQUIRED"}
    ELSE {}

(* A use case that requires the permission in the tenant of the path: a user's *)
(* permissions there are cached or their lookup mismatches; then it meets the  *)
(* repositories.                                                               *)
PathRefusals(i) ==
    IF request[i].target = request[i].tenant
    THEN IF Holds(i, request[i].target) THEN {} ELSE {"INSUFFICIENT_PERMISSION"}
    ELSE (IF request[i].actor = "user" THEN {Mismatch} ELSE {})
         \union {IF Holds(i, request[i].target) THEN R(i).foreign ELSE "INSUFFICIENT_PERMISSION"}

(* The codes that end the call before its work; empty when it can succeed. *)
RefusalsTrustPath(i) ==
    IF R(i).userOnly /\ request[i].actor = "apiKey" THEN {"FORBIDDEN"}
    ELSE IF R(i).tenant = "body" THEN SelectRefusals(i)
    ELSE {}

Refusals(i) ==
    IF R(i).userOnly /\ request[i].actor = "apiKey" THEN {"FORBIDDEN"}
    ELSE IF R(i).tenant = "body" THEN SelectRefusals(i)
    ELSE IF R(i).tenant = "path" THEN PathRefusals(i)
    ELSE {}

Invoke(i) ==
    /\ At(i, "invoke")
    /\ \/ \E code \in Refusals(i) \union (IF Refusals(i) = {} THEN Errors[request[i].route] ELSE {}) :
            Refuse(i, code) /\ UNCHANGED stored
       \/ /\ Refusals(i) = {}
          /\ request' = [request EXCEPT ![i].pc = Answered, ![i].status = R(i).ok, ![i].claimed = FALSE,
                                        ![i].effect = TRUE]
          /\ stored' = IF R(i).idempotent THEN stored \union {Scope(i)} ELSE stored
    /\ UNCHANGED <<granted, members, bounds>>

(* Postgres or Redis fails under a stage that uses it. *)
Fail(i) ==
    /\ faults > 0 /\ faults' = faults - 1
    /\ \/ At(i, "principal") /\ R(i).access # "public"
       \/ At(i, "permission") /\ R(i).permission
       \/ At(i, "claim") /\ R(i).idempotent
       \/ At(i, "invoke")
    /\ \E code \in Failure : Refuse(i, code)
    /\ UNCHANGED <<granted, members, stored, requests, changes>>

(* Somebody changes what a member's roles or a key allow. *)
Regrant(pair) ==
    /\ changes > 0 /\ changes' = changes - 1
    /\ granted' = IF pair \in granted THEN granted \ {pair} ELSE granted \union {pair}
    /\ request' = [i \in Slot |-> [request[i] EXCEPT !.held = @ \/ <<request[i].actor, request[i].tenant>> \in granted']]
    /\ UNCHANGED <<members, stored, requests, faults>>

Leave(i) ==
    /\ request[i].pc = Answered
    /\ request' = [request EXCEPT ![i] = Idle]
    /\ UNCHANGED <<granted, members, stored, bounds>>

Next ==
    \/ \E i \in Slot :
        \/ \E r \in Route, c \in Caller, t \in Tenant : Arrive(i, r, c, t)
        \/ Limit(i) \/ Principal(i) \/ Permission(i) \/ Claim(i) \/ Validate(i) \/ Invoke(i) \/ Fail(i) \/ Leave(i)
    \/ \E pair \in {"user", "apiKey"} \X Tenant : Regrant(pair)

Spec == Init /\ [][Next]_vars

----------------------------------------------------------------------------
TypeOK ==
    /\ \A i \in Slot : request[i].pc \in 0 .. Answered /\ (request[i].pc # 0 => request[i].route \in Route)
    /\ \A i \in Slot : request[i].claimed => request[i].pc \in DOMAIN Stages /\ Scope(i) \notin stored
    /\ requests \in 0 .. MaxRequests /\ changes \in 0 .. MaxChanges /\ faults \in 0 .. MaxFaults

(* What the use case of a route with a permission did, it did for a caller who  *)
(* held the right in the token's tenant after the request came, as a member of  *)
(* it, and to that tenant: a right in another tenant never carries over, and    *)
(* roles that change while the request is under way change nothing in this.     *)
EffectNeedsRight ==
    \A i \in Slot : request[i].effect /\ R(i).access # "public" =>
        /\ request[i].actor \in {"user", "apiKey"}
        /\ R(i).userOnly => request[i].actor = "user"
        /\ request[i].actor = "user" => request[i].tenant \in members \union {NoTenant}
        /\ R(i).permission => request[i].held /\ request[i].target = request[i].tenant

(* A stored response is replayed only to a caller who would still be let in:    *)
(* the interceptors for principal and permission come before the claim.         *)
ReplayNeedsRight ==
    \A i \in Slot : request[i].replayed /\ R(i).permission => request[i].held

(* The answers outside a route's documented ones are these: a failure under the *)
(* request, another tenant's id than the token's, an API key or a lapsed        *)
(* membership on a route for users, and three codes of use cases.               *)
UndeclaredHasReason ==
    \A i \in Slot :
        \/ request[i].pc # Answered
        \/ request[i].status \in R(i).declared \union {R(i).ok}
        \/ request[i].failed
        \/ request[i].status = 409 /\ R(i).tenant # "none" /\ request[i].target # request[i].tenant
        \/ request[i].status = 403 /\ R(i).userOnly /\ (request[i].actor = "apiKey" \/ request[i].tenant \notin members)
        \/ <<request[i].route, request[i].status>> \in {<<"logout", 400>>, <<"inviteMember", 404>>, <<"updateApiKey", 409>>}

(* The OpenAPI document of a route lists the errors it answers with. *)
AnswerIsDeclared ==
    \A i \in Slot :
        request[i].pc = Answered => request[i].status \in R(i).declared \union {R(i).ok, 500}

(* A failure of the infrastructure is answered as one of the server. *)
FailureIsServerError == \A i \in Slot : request[i].failed => request[i].status >= 500

(* select-tenant issues a token to an active member of the tenant it names. *)
MemberSelectsTenant ==
    \A i \in Slot :
        /\ request[i].pc = Answered
        /\ request[i].route = "selectTenant"
        /\ request[i].actor = "user"
        /\ {request[i].target, request[i].tenant} \subseteq members \union {NoTenant}
        /\ ~request[i].failed
        => request[i].status \in {200, 400}
=============================================================================
