------------------------------ MODULE WebSession ------------------------------
(***************************************************************************)
(* The web client's session: tabs of one browser share the refresh cookie, *)
(* each has its own access token in memory and its own single-flight       *)
(* refresh.  A request answered 401 waits for a refresh and is sent once   *)
(* more.  The server rotates the presented token, or revokes its family if *)
(* the token was rotated before; the races inside the server are those of  *)
(* RefreshSessions.                                                        *)
(***************************************************************************)
EXTENDS Integers, FiniteSets

CONSTANTS
    Tab,
    Request,        \* requests a tab may have open at once
    MaxCalls,       \* bound: requests, restores and logins
    MaxFaults       \* bound: lost messages

TabAssumption == IsFiniteSet(Tab) /\ IsFiniteSet(Request)
BoundAssumption == MaxCalls \in Nat /\ MaxFaults \in Nat

Token == 1..MaxCalls        \* every call leads to one token at most
NoToken == 0
NoAccess == [present |-> FALSE, valid |-> FALSE, tenant |-> FALSE]
Access == [present : BOOLEAN, valid : BOOLEAN, tenant : BOOLEAN]

VARIABLES
    row,        \* [Token -> "none", "active" or "revoked"]: refresh_sessions
    family,     \* [Token -> first token of its family]
    cookie,     \* the refresh token the browser holds
    session,    \* [Tab -> the access token in its store]
    refresh,    \* [Tab -> [pc, token, next]], the refresh in flight
    request,    \* [Tab \X Request -> [pc, access, route]]
    calls, faults,
    executed,   \* history: [Tab \X Request -> executions of the current call]
    reused,     \* history: the server has seen a rotated token again
    crossed,    \* history: refreshes of two tabs were in flight at once
    futile      \* history: a retry after a successful refresh was refused

history == <<executed, reused, crossed, futile>>
server == <<row, family>>
vars == <<server, cookie, session, refresh, request, calls, faults, history>>

NoRefresh == [pc |-> "none", token |-> NoToken, next |-> NoToken]
Settled == [pc |-> "idle", access |-> NoAccess, route |-> "global"]

TypeOK ==
    /\ row \in [Token -> {"none", "active", "revoked"}]
    /\ family \in [Token -> {NoToken} \union Token]
    /\ cookie \in {NoToken} \union Token
    /\ session \in [Tab -> Access]
    /\ refresh \in [Tab -> [pc : {"none", "sent", "answered"}, token : {NoToken} \union Token,
                            next : {NoToken} \union Token]]
    /\ request \in [Tab \X Request -> [pc : {"idle", "sent", "refused", "waiting", "retried"},
                                       access : Access, route : {"global", "tenant"}]]
    /\ \A i \in Tab \X Request : request[i].pc = "waiting" => refresh[i[1]].pc # "none"
    /\ calls \in 0..MaxCalls /\ faults \in 0..MaxFaults
    /\ executed \in [Tab \X Request -> Nat]
    /\ {reused, crossed, futile} \subseteq BOOLEAN

Init ==
    /\ row = [t \in Token |-> "none"] /\ family = [t \in Token |-> NoToken]
    /\ cookie = NoToken
    /\ session = [b \in Tab |-> NoAccess]
    /\ refresh = [b \in Tab |-> NoRefresh]
    /\ request = [i \in Tab \X Request |-> Settled]
    /\ calls = 0 /\ faults = MaxFaults
    /\ executed = [i \in Tab \X Request |-> 0]
    /\ reused = FALSE /\ crossed = FALSE /\ futile = FALSE

Call == calls < MaxCalls /\ calls' = calls + 1
Fault == faults > 0 /\ faults' = faults - 1
Fresh == CHOOSE t \in Token : row[t] = "none" /\ \A s \in Token : s < t => row[s] # "none"

-----------------------------------------------------------------------------
(* Requests                                                                 *)

\* The login form: a new family, the cookie, and a token with the tenant claim
\* of a user with exactly one active membership.
Login(b) ==
    /\ ~session[b].present /\ Call
    /\ row' = [row EXCEPT ![Fresh] = "active"]
    /\ family' = [family EXCEPT ![Fresh] = Fresh]
    /\ cookie' = Fresh
    /\ session' = [session EXCEPT ![b] = [present |-> TRUE, valid |-> TRUE, tenant |-> TRUE]]
    /\ UNCHANGED <<refresh, request, faults, history>>

Send(b, r) ==
    /\ request[<<b, r>>].pc = "idle" /\ Call
    /\ \E route \in {"global", "tenant"} :
          request' = [request EXCEPT ![<<b, r>>] = [pc |-> "sent", access |-> session[b], route |-> route]]
    /\ executed' = [executed EXCEPT ![<<b, r>>] = 0]
    /\ UNCHANGED <<server, cookie, session, refresh, faults, reused, crossed, futile>>

\* AuthPrincipalInterceptor: a bearer token, and a tenant unless it is optional.
Authorized(q) == q.access.present /\ q.access.valid /\ (q.route = "tenant" => q.access.tenant)

\* The server answers; the second 401 is final.
Answer(b, r) ==
    LET q == request[<<b, r>>] IN
    /\ q.pc \in {"sent", "retried"}
    /\ request' = [request EXCEPT ![<<b, r>>] =
          IF ~Authorized(q) /\ q.pc = "sent" THEN [q EXCEPT !.pc = "refused"] ELSE Settled]
    /\ executed' = [executed EXCEPT ![<<b, r>>] = @ + (IF Authorized(q) THEN 1 ELSE 0)]
    /\ futile' = (futile \/ (q.pc = "retried" /\ q.access.valid /\ ~Authorized(q)))
    /\ UNCHANGED <<server, cookie, session, refresh, calls, faults, reused, crossed>>

\* The request or its response is lost: no 401, so an error for the caller.
Lost(q) == Settled

AnswerLost(b, r) ==
    LET q == request[<<b, r>>] IN
    /\ q.pc \in {"sent", "retried"} /\ Fault
    /\ request' = [request EXCEPT ![<<b, r>>] = Lost(q)]
    /\ \/ executed' = [executed EXCEPT ![<<b, r>>] = @ + (IF Authorized(q) THEN 1 ELSE 0)]
       \/ UNCHANGED executed
    /\ UNCHANGED <<server, cookie, session, refresh, calls, reused, crossed, futile>>

-----------------------------------------------------------------------------
(* Refreshes                                                                *)

\* WebAccessTokenRefresh.run: join the refresh in flight or start one, which
\* carries the cookie of this moment.
RunEveryTime(b) == [pc |-> "sent", token |-> cookie, next |-> NoToken]
Run(b) == IF refresh[b].pc # "none" THEN refresh[b]
          ELSE [pc |-> "sent", token |-> cookie, next |-> NoToken]

Refresh(b) ==
    /\ refresh' = [refresh EXCEPT ![b] = Run(b)]
    /\ crossed' = (crossed \/ \E c \in Tab \ {b} : refresh[c].pc # "none")

\* A 401 leads to restoreWebSession.
Refused(b, r) ==
    /\ request[<<b, r>>].pc = "refused"
    /\ request' = [request EXCEPT ![<<b, r>>].pc = "waiting"]
    /\ Refresh(b)
    /\ UNCHANGED <<server, cookie, session, calls, faults, executed, reused, futile>>

\* RequireSession restores the session of a page that has none.
Restore(b) ==
    /\ ~session[b].present /\ refresh[b].pc = "none" /\ Call
    /\ Refresh(b)
    /\ UNCHANGED <<server, cookie, session, request, faults, executed, reused, futile>>

\* RotateRefresh on the server.  A missing or unknown token changes nothing.
Rotate(b) ==
    LET t == refresh[b].token IN
    /\ refresh[b].pc = "sent"
    /\ IF t # NoToken /\ row[t] = "active"
       THEN /\ row' = [row EXCEPT ![t] = "revoked", ![Fresh] = "active"]
            /\ family' = [family EXCEPT ![Fresh] = family[t]]
            /\ refresh' = [refresh EXCEPT ![b].pc = "answered", ![b].next = Fresh]
            /\ UNCHANGED reused
       ELSE /\ row' = [s \in Token |-> IF t # NoToken /\ row[s] = "active" /\ family[s] = family[t]
                                       THEN "revoked" ELSE row[s]]
            /\ refresh' = [refresh EXCEPT ![b].pc = "answered"]
            /\ reused' = (reused \/ t # NoToken)
            /\ UNCHANGED family
    /\ UNCHANGED <<cookie, session, request, calls, faults, executed, crossed, futile>>

\* What the tab makes of a refresh: every waiting request sets the session and
\* is sent again with it, or clears the session and fails.  A refreshed token
\* has no tenant claim.
Outcome(b, access) ==
    /\ session' = [session EXCEPT ![b] = access]
    /\ request' = [i \in Tab \X Request |->
          IF i[1] # b \/ request[i].pc # "waiting" THEN request[i]
          ELSE IF access.present THEN [request[i] EXCEPT !.pc = "retried", !.access = access]
          ELSE Settled]
    /\ refresh' = [refresh EXCEPT ![b] = NoRefresh]

RefreshAnswered(b) ==
    LET next == refresh[b].next IN
    /\ refresh[b].pc = "answered"
    /\ cookie' = IF next = NoToken THEN cookie ELSE next
    /\ Outcome(b, IF next = NoToken THEN NoAccess
                  ELSE [present |-> TRUE, valid |-> TRUE, tenant |-> FALSE])
    /\ UNCHANGED <<server, calls, faults, history>>

\* The refresh or its response is lost: fetch rejects, the result is null.
RefreshLost(b) ==
    /\ refresh[b].pc # "none" /\ Fault
    /\ Outcome(b, NoAccess)
    /\ UNCHANGED <<server, cookie, calls, history>>

\* The access token of a tab expires.
Expire(b) ==
    /\ session[b].valid
    /\ session' = [session EXCEPT ![b].valid = FALSE]
    /\ UNCHANGED <<server, cookie, refresh, request, calls, faults, history>>

Next ==
    \E b \in Tab :
        \/ Login(b) \/ Restore(b) \/ Rotate(b) \/ RefreshAnswered(b) \/ RefreshLost(b) \/ Expire(b)
        \/ \E r \in Request : Send(b, r) \/ Answer(b, r) \/ AnswerLost(b, r) \/ Refused(b, r)

Spec == Init /\ [][Next]_vars

\* A fetch is answered or fails, and the event loop runs what it resumes.
Fairness ==
    \A b \in Tab :
        /\ WF_vars(Rotate(b)) /\ WF_vars(RefreshAnswered(b))
        /\ \A r \in Request : WF_vars(Answer(b, r)) /\ WF_vars(Refused(b, r))

FairSpec == Spec /\ Fairness

-----------------------------------------------------------------------------
(* Properties.                                                              *)

\* A call is executed once at most, whatever expires, is refused, refreshed,
\* retried or lost: only a 401, which executes nothing, leads to a retry.
ExecutedAtMostOnce == \A i \in Tab \X Request : executed[i] <= 1

\* "refreshes once for concurrent 401s": the family is revoked for reuse only
\* if two tabs refreshed at once or a message was lost, never because requests
\* of one tab were refused together or one after the other.
ReuseNeedsTabsOrLoss == reused => crossed \/ faults < MaxFaults

\* Every call settles: a refusal leads to one refresh and one retry.
CallsSettle == \A i \in Tab \X Request : request[i].pc # "idle" ~> request[i].pc = "idle"

\* "the resulting token carries the tenant claim": a request that is retried
\* with a valid access token after a refresh is not refused again.
RetryIsAuthorized == ~futile
=============================================================================
