----------------------------- MODULE Idempotency -----------------------------
(***************************************************************************)
(* Idempotent routes: IdempotencyInterceptor.handleMarkedRoute claims the  *)
(* key, runs the handler and completes the claim in one transaction, over  *)
(* PostgresIdempotencyStore and the unique index on (scope, endpoint,      *)
(* idempotency_key) at READ COMMITTED.  One actor sends requests, some of  *)
(* them at the same time or again, while its access token may change.      *)
(***************************************************************************)
EXTENDS Integers, FiniteSets

CONSTANTS
    Request,        \* HTTP requests to marked routes
    Key,            \* endpoint and Idempotency-Key, as one value
    Body,           \* request bodies; the fingerprint tells them apart
    KeyOf,          \* [Request -> Key]
    BodyOf,         \* [Request -> Body]
    NoRequest,      \* no handler result
    MaxFaults,      \* bound: errors and crashes in a behaviour
    MaxSwitches     \* bound: changes of the access token's tenant claim

Scope == {"u:actor", "t:tenant"}
Slot == Scope \X Key

ASSUME RequestAssumption ==
    /\ NoRequest \notin Request
    /\ KeyOf \in [Request -> Key]
    /\ BodyOf \in [Request -> Body]
ASSUME BoundAssumption == MaxFaults \in Nat /\ MaxSwitches \in Nat

VARIABLES
    scope,      \* the scope the actor's current access token leads to
    switches,   \* changes of the token still to come
    table,      \* [Slot -> committed row of idempotency_keys]
    tx,         \* [Request -> [pc, scope, claim]]: the request's transaction
    effects,    \* requests whose handler's writes are committed
    answer,     \* [Request -> [kind, from]]: the HTTP response
    faults      \* faults still to come

vars == <<scope, switches, table, tx, effects, answer, faults>>
session == <<scope, switches>>

NoRow == [status |-> "none", request |-> NoRequest]
NoAnswer == [kind |-> "none", from |-> NoRequest]
NoTx == [pc |-> "idle", scope |-> "u:actor", from |-> NoRequest]

\* request: whose fingerprint and response the row holds.
Row == [status : {"none", "processing", "completed"}, request : Request \union {NoRequest}]
Transaction ==
    [pc : {"idle", "claiming", "finding", "replaying", "handling", "completing",
           "committing", "done"},
     scope : Scope,
     from : Request \union {NoRequest}]
Answer == [kind : {"none", "result", "inProgress", "reused", "error"},
           from : Request \union {NoRequest}]

TypeOK ==
    /\ scope \in Scope
    /\ switches \in 0..MaxSwitches
    /\ table \in [Slot -> Row]
    /\ tx \in [Request -> Transaction]
    /\ effects \subseteq Request
    /\ answer \in [Request -> Answer]
    /\ faults \in 0..MaxFaults

Init ==
    /\ scope = "u:actor"
    /\ switches = MaxSwitches
    /\ table = [s \in Slot |-> NoRow]
    /\ tx = [r \in Request |-> NoTx]
    /\ effects = {}
    /\ answer = [r \in Request |-> NoAnswer]
    /\ faults = MaxFaults

Fault == faults > 0 /\ faults' = faults - 1

SlotOf(r) == <<tx[r].scope, KeyOf[r]>>
Goto(r, pc) == tx' = [tx EXCEPT ![r].pc = pc]
Respond(r, kind, from) == answer' = [answer EXCEPT ![r] = [kind |-> kind, from |-> from]]

-----------------------------------------------------------------------------
\* The actor selects a tenant, or refreshes to a token without a tenant claim.
\* Only POST /v1/tenants is both marked and open to either kind of token.
SwitchToken ==
    /\ switches > 0
    /\ switches' = switches - 1
    /\ scope' \in Scope \ {scope}
    /\ UNCHANGED <<table, tx, effects, answer, faults>>

\* The key is read and checked, the scope taken from the request context.
Start(r) ==
    /\ tx[r].pc = "idle"
    /\ tx' = [tx EXCEPT ![r] = [pc |-> "claiming", scope |-> scope, from |-> NoRequest]]
    /\ UNCHANGED <<session, table, effects, answer, faults>>

\* Transactions with an uncommitted row for the slot: the unique index makes
\* everyone else's INSERT wait for them.
HoldersWithWaiters(s) ==
    {q \in Request : /\ tx[q].pc \in {"claiming", "handling", "completing", "committing"}
                     /\ SlotOf(q) = s}

Holders(s) ==
    {q \in Request : /\ tx[q].pc \in {"handling", "completing", "committing"}
                     /\ SlotOf(q) = s}

BlockedNever(r) == FALSE
Blocked(r) == Holders(SlotOf(r)) \ {r} # {}

\* INSERT ... ON CONFLICT DO NOTHING RETURNING: a row came back, Acquired.
ClaimAcquired(r) ==
    /\ tx[r].pc = "claiming"
    /\ ~Blocked(r)
    /\ table[SlotOf(r)].status = "none"
    /\ Goto(r, "handling")
    /\ UNCHANGED <<session, table, effects, answer, faults>>

\* The conflicting row is committed: nothing was inserted.
ClaimConflicts(r) ==
    /\ tx[r].pc = "claiming"
    /\ ~Blocked(r)
    /\ table[SlotOf(r)].status # "none"
    /\ Goto(r, "finding")
    /\ UNCHANGED <<session, table, effects, answer, faults>>

\* lock_timeout (55P03): InFlight, IdempotencyInProgressError.
ClaimTimesOut(r) ==
    /\ tx[r].pc = "claiming"
    /\ Blocked(r)
    /\ Goto(r, "done")
    /\ Respond(r, "inProgress", NoRequest)
    /\ UNCHANGED <<session, table, effects, faults>>

\* existingClaim: the answer read from the committed row.
ExistingClaimUnmapped(r) ==
    LET row == table[SlotOf(r)] IN
    IF row.status = "none" THEN "inProgress" ELSE row.status

ExistingClaimIgnoringFingerprint(r) ==
    LET row == table[SlotOf(r)] IN
    IF row.status # "completed" THEN "inProgress" ELSE "replay"

ExistingClaim(r) ==
    LET row == table[SlotOf(r)] IN
    CASE row.status = "none" -> "inProgress"
      [] row.status # "none" /\ BodyOf[row.request] # BodyOf[r] -> "reused"
      [] row.status = "processing" /\ BodyOf[row.request] = BodyOf[r] -> "inProgress"
      [] OTHER -> "replay"

FindExisting(r) ==
    /\ tx[r].pc = "finding"
    /\ IF ExistingClaim(r) = "replay"
       THEN /\ tx' = [tx EXCEPT ![r].pc = "replaying", ![r].from = table[SlotOf(r)].request]
            /\ UNCHANGED answer
       ELSE /\ Goto(r, "done")
            /\ Respond(r, ExistingClaim(r), NoRequest)
    /\ UNCHANGED <<session, table, effects, faults>>

\* The stored status and body are returned after the (empty) commit.
FinishReplay(r) ==
    /\ tx[r].pc = "replaying"
    /\ Goto(r, "done")
    /\ Respond(r, "result", tx[r].from)
    /\ UNCHANGED <<session, table, effects, faults>>

Handle(r) ==
    /\ tx[r].pc = "handling"
    /\ Goto(r, "completing")
    /\ UNCHANGED <<session, table, effects, answer, faults>>

Complete(r) ==
    /\ tx[r].pc = "completing"
    /\ Goto(r, "committing")
    /\ UNCHANGED <<session, table, effects, answer, faults>>

\* The transaction rolls back: the claim goes with the handler's writes.
UndoKeepsClaim(r) ==
    /\ Goto(r, "done")
    /\ table' = IF r \in Holders(SlotOf(r))
                THEN [table EXCEPT ![SlotOf(r)] = [status |-> "processing", request |-> r]]
                ELSE table
    /\ UNCHANGED effects

Undo(r) ==
    /\ Goto(r, "done")
    /\ UNCHANGED <<table, effects>>

\* The handler rejects: "thrown handler errors roll back the claim".
HandlerThrows(r) ==
    /\ tx[r].pc = "handling"
    /\ Undo(r)
    /\ Respond(r, "error", NoRequest)
    /\ UNCHANGED <<session, faults>>

\* A statement or the COMMIT fails, or the process dies, anywhere else.
Fails(r) ==
    /\ tx[r].pc \notin {"idle", "done"}
    /\ Fault
    /\ Undo(r)
    /\ Respond(r, "error", NoRequest)
    /\ UNCHANGED session

\* The row becomes visible, completed, together with the handler's writes.
Durable(r) ==
    /\ Goto(r, "done")
    /\ table' = [table EXCEPT ![SlotOf(r)] = [status |-> "completed", request |-> r]]
    /\ effects' = effects \union {r}

Commit(r) ==
    /\ tx[r].pc = "committing"
    /\ Durable(r)
    /\ Respond(r, "result", r)
    /\ UNCHANGED <<session, faults>>

\* COMMIT takes effect, but the response never reaches the client.
CommitUnanswered(r) ==
    /\ tx[r].pc = "committing"
    /\ Fault
    /\ Durable(r)
    /\ Respond(r, "error", NoRequest)
    /\ UNCHANGED session

Step(r) ==
    \/ ClaimAcquired(r) \/ ClaimConflicts(r) \/ FindExisting(r) \/ FinishReplay(r)
    \/ Handle(r) \/ Complete(r) \/ Commit(r)

Next ==
    \/ SwitchToken
    \/ \E r \in Request :
          \/ Start(r) \/ Step(r) \/ ClaimTimesOut(r)
          \/ HandlerThrows(r) \/ Fails(r) \/ CommitUnanswered(r)

Spec == Init /\ [][Next]_vars

\* A request that has started goes on; nothing forces a timeout or an error.
FairSpec == Spec /\ \A r \in Request : WF_vars(Step(r))

-----------------------------------------------------------------------------
(* Properties.                                                              *)

\* However requests of one scope and key overlap, time out, fail or retry,
\* the writes of at most one of them are ever committed.
ExecutedOnce ==
    \A q, r \in effects : SlotOf(q) = SlotOf(r) => q = r

\* A request gets a result only from a committed execution of its own scope,
\* key and body: never another payload's, never one that was rolled back.
ResultIsOfItsOwnRequest ==
    \A r \in Request : answer[r].kind = "result" =>
        LET q == answer[r].from IN
        /\ q \in effects
        /\ SlotOf(q) = SlotOf(r)
        /\ BodyOf[q] = BodyOf[r]

\* A failed or crashed request leaves no claim behind: whoever comes next for
\* the key finds the result of a committed execution or a free key.
NoStuckKey ==
    \A s \in Slot :
        /\ table[s].status # "processing"
        /\ table[s].status = "completed" =>
             table[s].request \in effects /\ SlotOf(table[s].request) = s

\* Requests that wait for each other's key never wait forever, even if no
\* lock timeout fires.
EveryRequestAnswered ==
    \A r \in Request : tx[r].pc = "claiming" ~> answer[r].kind # "none"

\* "A retried mutation replays the original response": requests of one actor
\* with the same endpoint, key and body are executed at most once.
RetryReplays ==
    \A q, r \in effects : KeyOf[q] = KeyOf[r] /\ BodyOf[q] = BodyOf[r] => q = r

(* The claim, wait, replay protocol implements SingleExecution.             *)
ReplyTo(r) ==
    CASE answer[r].kind = "none" -> NoRequest
      [] answer[r].kind = "result" -> answer[r].from
      [] OTHER -> "refused"

Single == INSTANCE SingleExecution WITH
    NoResult <- NoRequest,
    result   <- [s \in Slot |-> table[s].request],
    reply    <- [r \in Request |-> ReplyTo(r)]

\* Waiting, time-outs, crashes and retries are invisible but for refusals.
ImplementsSingleExecution == Single!Spec
=============================================================================
