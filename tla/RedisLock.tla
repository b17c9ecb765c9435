----------------------------- MODULE RedisLock -----------------------------
(* The distributed lock of packages/infrastructure/redis/src/lock: one key,    *)
(* taken with SET key token EX ttl NX and given back with a script that        *)
(* deletes the key only while it holds the caller's token.  A command is sent, *)
(* evaluated by Redis and answered in three steps, so a lease can end while    *)
(* its holder works, or before it even learns that it holds the lock.  The     *)
(* command client resends an unanswered command once (maxRetriesPerRequest 1). *)
EXTENDS Naturals

CONSTANTS
    Client,        \* processes that use one lock key
    Ttl,           \* ttlSeconds of a lease, in ticks of Redis's clock
    MaxAcquires,   \* bound: acquisitions a client starts
    MaxFaults      \* bound: lost answers, resent commands, losses of Redis

ASSUME RedisLockAssumption ==
    /\ Ttl \in Nat \ {0}
    /\ MaxAcquires \in Nat
    /\ MaxFaults \in Nat

(* randomUUID: the token of a client's n-th acquisition. *)
Token == Client \X (1 .. MaxAcquires)

Free == <<>>

VARIABLES
    slot,      \* value of the key: a token, or Free
    ttl,       \* ticks the key has left
    phase,     \* client -> "idle" | "acquiring" | "granted" | "refused" | "holding" | "releasing" | "released"
    round,     \* client -> acquisitions started
    faults,    \* faults left
    lapsed     \* history: tokens whose key ended by expiry or with Redis's data

vars == <<slot, ttl, phase, round, faults, lapsed>>

Init ==
    /\ slot = Free
    /\ ttl = 0
    /\ phase = [c \in Client |-> "idle"]
    /\ round = [c \in Client |-> 0]
    /\ faults = MaxFaults
    /\ lapsed = {}

TokenOf(c) == <<c, round[c]>>

Moves(c, from, to) ==
    /\ phase[c] = from
    /\ phase' = [phase EXCEPT ![c] = to]

Fault ==
    /\ faults > 0
    /\ faults' = faults - 1

----------------------------------------------------------------------------
(* acquire makes a new token and sends SET key token EX ttl NX. *)
Acquire(c) ==
    /\ Moves(c, "idle", "acquiring")
    /\ round[c] < MaxAcquires
    /\ round' = [round EXCEPT ![c] = @ + 1]
    /\ UNCHANGED <<slot, ttl, faults, lapsed>>

(* What SET key token EX ttl NX does to the key. *)
SetNx(t) ==
    /\ slot' = IF slot = Free THEN t ELSE slot
    /\ ttl' = IF slot = Free THEN Ttl ELSE ttl

(* Redis evaluates the SET: OK, or nil when the key exists. *)
EvalAcquire(c) ==
    /\ Moves(c, "acquiring", IF slot = Free THEN "granted" ELSE "refused")
    /\ SetNx(TokenOf(c))
    /\ UNCHANGED <<round, faults, lapsed>>

(* The answer arrives: a lease, or null. *)
Granted(c) ==
    /\ Moves(c, "granted", "holding")
    /\ UNCHANGED <<slot, ttl, round, faults, lapsed>>

Refused(c) ==
    /\ Moves(c, "refused", "idle")
    /\ UNCHANGED <<slot, ttl, round, faults, lapsed>>

(* The holder is done and calls release. *)
Release(c) ==
    /\ Moves(c, "holding", "releasing")
    /\ UNCHANGED <<slot, ttl, round, faults, lapsed>>

(* The release script: get, compare with the lease's token, del. *)
ScriptWithoutCompare(t) ==
    /\ slot' = Free
    /\ ttl' = 0

ReleaseScript(t) ==
    /\ slot' = IF slot = t THEN Free ELSE slot
    /\ ttl' = IF slot = t THEN 0 ELSE ttl

EvalRelease(c) ==
    /\ Moves(c, "releasing", "released")
    /\ ReleaseScript(TokenOf(c))
    /\ UNCHANGED <<round, faults, lapsed>>

Released(c) ==
    /\ Moves(c, "released", "idle")
    /\ UNCHANGED <<slot, ttl, round, faults, lapsed>>

----------------------------------------------------------------------------
(* The connection drops before an answer and the command client sends the     *)
(* command again, with the same token.                                         *)
Resend(c) ==
    /\ Fault
    /\ \/ Moves(c, "granted", "acquiring")
       \/ Moves(c, "released", "releasing")
    /\ UNCHANGED <<slot, ttl, round, lapsed>>

(* No answer at all: acquire or release throws. *)
AnswerLost(c) ==
    /\ Fault
    /\ \/ Moves(c, "granted", "idle")
       \/ Moves(c, "releasing", "idle")
    /\ UNCHANGED <<slot, ttl, round, lapsed>>

(* The holder's process dies: nobody releases its lease. *)
Crash(c) ==
    /\ Fault
    /\ Moves(c, "holding", "idle")
    /\ UNCHANGED <<slot, ttl, round, lapsed>>

(* A tick of Redis's clock; the key with no time left is gone.  A key set      *)
(* without EX has more than Ttl ticks and keeps them.                          *)
Tick ==
    /\ slot # Free
    /\ slot' = IF ttl = 1 THEN Free ELSE slot
    /\ ttl' = IF ttl > Ttl THEN ttl ELSE ttl - 1
    /\ lapsed' = IF ttl = 1 THEN lapsed \union {slot} ELSE lapsed
    /\ UNCHANGED <<phase, round, faults>>

(* Redis restarts without its data. *)
LoseData ==
    /\ Fault
    /\ slot # Free
    /\ slot' = Free
    /\ ttl' = 0
    /\ lapsed' = lapsed \union {slot}
    /\ UNCHANGED <<phase, round>>

Next ==
    \/ \E c \in Client :
        \/ Acquire(c) \/ EvalAcquire(c) \/ Granted(c) \/ Refused(c)
        \/ Release(c) \/ EvalRelease(c) \/ Released(c)
        \/ Resend(c) \/ AnswerLost(c) \/ Crash(c)
    \/ Tick
    \/ LoseData

Spec == Init /\ [][Next]_vars

(* Redis's clock runs. *)
FairSpec == Spec /\ WF_vars(Tick)

----------------------------------------------------------------------------
(* acquire returned a lease and release has not been called. *)
Holds(c) == phase[c] = "holding"

TypeOK ==
    /\ slot \in Token \union {Free}
    /\ ttl \in 0 .. Ttl
    /\ (ttl = 0) <=> (slot = Free)
    /\ phase \in [Client -> {"idle", "acquiring", "granted", "refused", "holding", "releasing", "released"}]
    /\ round \in [Client -> 0 .. MaxAcquires]
    /\ faults \in 0 .. MaxFaults
    /\ lapsed \subseteq Token

(* A holder whose lease has not lapsed has the key: no release of another      *)
(* client, delayed, resent or sent after its own lease ended, takes the lock    *)
(* away ("a timed-out holder cannot unlock a later owner", lock.port.ts).       *)
LeaseIsKept == \A c \in Client : Holds(c) => slot = TokenOf(c) \/ TokenOf(c) \in lapsed

(* Two clients work under the lock at once only when a lease ended under one    *)
(* of them: SET NX never grants a key that is taken.                            *)
OverlapNeedsLapse ==
    \A c, d \in Client :
        Holds(c) /\ Holds(d) /\ c # d => {TokenOf(c), TokenOf(d)} \intersect lapsed # {}

(* A key nobody holds or is about to learn of or give back is the trace of a    *)
(* fault: a lost or resent SET, a lost release or a crash orphans a lease.      *)
OrphanNeedsFault ==
    slot # Free /\ faults = MaxFaults =>
        \E c \in Client : slot = TokenOf(c) /\ phase[c] \in {"granted", "holding", "releasing"}

(* Whatever became of its holder, a lease ends: EX bounds how long a crashed    *)
(* holder or an orphaned lease can keep everyone else out.                      *)
LeaseEnds == \A t \in Token : (slot = t) ~> (slot # t)
=============================================================================
