--------------------------- MODULE SingleExecution ---------------------------
(***************************************************************************)
(* What idempotency keys promise to the callers of a marked route: of all  *)
(* the requests that arrive for one key at most one is executed, and every *)
(* successful reply for the key is the reply of that execution, given only *)
(* after it became durable.                                                *)
(***************************************************************************)
CONSTANTS
    Slot,               \* what a key identifies: scope, endpoint and key
    Request,            \* the requests that arrive
    NoResult            \* no request has been executed / no reply yet

VARIABLES
    result,             \* [Slot -> the request executed for it]
    reply               \* [Request -> the execution it was answered from]

replyVars == <<result, reply>>

\* A reply is the executed request, or a refusal.
Reply == Request \union {NoResult, "refused"}

ReplyTypeOK ==
    /\ result \in [Slot -> Request \union {NoResult}]
    /\ reply \in [Request -> Reply]

Init ==
    /\ result = [s \in Slot |-> NoResult]
    /\ reply = [r \in Request |-> NoResult]

\* r is executed for s.  Its own reply may get lost on the way.
Execute(s, r) ==
    /\ result[s] = NoResult
    /\ reply[r] = NoResult
    /\ result' = [result EXCEPT ![s] = r]
    /\ \/ reply' = [reply EXCEPT ![r] = r]
       \/ reply' = [reply EXCEPT ![r] = "refused"]

Replay(s, r) ==
    /\ result[s] # NoResult
    /\ reply[r] = NoResult
    /\ reply' = [reply EXCEPT ![r] = result[s]]
    /\ UNCHANGED result

\* In progress, reused for another payload, or failed: without a trace.
Refuse(r) ==
    /\ reply[r] = NoResult
    /\ reply' = [reply EXCEPT ![r] = "refused"]
    /\ UNCHANGED result

Next ==
    \E r \in Request :
        \/ Refuse(r)
        \/ \E s \in Slot : Execute(s, r) \/ Replay(s, r)

Spec == Init /\ [][Next]_replyVars
==============================================================================
