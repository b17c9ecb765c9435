------------------------------- MODULE ApiKeys -------------------------------
(***************************************************************************)
(* One API key of a tenant: units of work rename it, replace its           *)
(* permissions or revoke it, and requests that present it resolve it and   *)
(* record its last use outside any unit of work.  A unit of work saves the *)
(* whole aggregate it loaded; TypeORM reads the row again and writes the   *)
(* columns in which the two differ.                                        *)
(***************************************************************************)
EXTENDS Integers

CONSTANTS
    Permission,     \* what a key may be given
    Unit,           \* units of work that change the key
    Request,        \* requests that present it
    TouchWindow,    \* API_KEY_LAST_USED_TOUCH_MS, in ticks
    MaxNow,         \* bound: the last tick
    MaxUnits        \* bound: units of work in a behaviour

TimeAssumption == TouchWindow \in Nat \ {0} /\ MaxNow \in Nat \ {0} /\ MaxUnits \in Nat

VARIABLES
    key,        \* the committed row: [perms, revokedAt, lastUsedAt], 0 = NULL
    expiresAt,  \* 0 = never, else the last tick of the model
    unit,       \* [Unit -> [pc, op, perms, at, loaded, changed]]
    request,    \* [Request -> [pc, at]]
    now, started,
    revocations,    \* history: ApiKeyRevoked events published
    revived,        \* history: a revoked key was usable again
    lost,           \* history: a replacement of permissions was undone by a
                    \* unit of work that was not asked to replace them
    lastTouch,      \* history: the latest last use a request wrote
    retouched,      \* history: two such writes within one TouchWindow
    overlapped,     \* history: two units of work were open at once
    usedMeanwhile   \* history: a last use was written while one was open

history == <<revocations, revived, lost, lastTouch, retouched, overlapped, usedMeanwhile>>
vars == <<key, expiresAt, unit, request, now, started, history>>

Time == 0..MaxNow
Row == [perms : SUBSET Permission, revokedAt : Time, lastUsedAt : Time]
NoKey == [perms |-> {}, revokedAt |-> 0, lastUsedAt |-> 0]
Idle == [pc |-> "idle", op |-> "rename", perms |-> {}, at |-> 0,
         loaded |-> NoKey, changed |-> {}]
Waiting == [pc |-> "idle", at |-> 0]

TypeOK ==
    /\ key \in Row /\ (key.perms = {} => key = NoKey)
    /\ expiresAt \in Time
    /\ unit \in [Unit -> [pc : {"idle", "load", "save", "write", "commit"},
                          op : {"rename", "replace", "revoke"}, perms : SUBSET Permission,
                          at : Time, loaded : Row, changed : SUBSET {"perms", "revokedAt", "lastUsedAt"}]]
    /\ request \in [Request -> [pc : {"idle", "touch"}, at : Time]]
    /\ now \in 1..MaxNow /\ started \in 0..MaxUnits
    /\ revocations \in 0..MaxUnits
    /\ lastTouch \in Time
    /\ {revived, lost, retouched, overlapped, usedMeanwhile} \subseteq BOOLEAN

Init ==
    /\ key = NoKey /\ expiresAt = 0
    /\ unit = [p \in Unit |-> Idle]
    /\ request = [r \in Request |-> Waiting]
    /\ now = 1 /\ started = 0
    /\ revocations = 0 /\ lastTouch = 0
    /\ revived = FALSE /\ lost = FALSE /\ retouched = FALSE
    /\ overlapped = FALSE /\ usedMeanwhile = FALSE

Exists == key.perms # {}
Open == {p \in Unit : unit[p].pc # "idle"}

CreateApiKey ==
    /\ ~Exists
    /\ \E perms \in (SUBSET Permission) \ {{}} : key' = [NoKey EXCEPT !.perms = perms]
    /\ expiresAt' \in {0, MaxNow}
    /\ UNCHANGED <<unit, request, now, started, history>>

\* UpdateApiKey or RevokeApiKey is called by someone who may manage keys.
Begin(p) ==
    /\ Exists /\ unit[p].pc = "idle" /\ started < MaxUnits
    /\ started' = started + 1
    /\ overlapped' = (overlapped \/ Open # {})
    /\ \E op \in {"rename", "replace", "revoke"}, perms \in SUBSET Permission :
          /\ (op = "replace") = (perms # {})
          /\ unit' = [unit EXCEPT ![p] = [Idle EXCEPT !.pc = "load", !.op = op, !.perms = perms]]
    /\ UNCHANGED <<key, expiresAt, request, now, revocations, revived, lost,
                   lastTouch, retouched, usedMeanwhile>>

\* ApiKeyAlreadyRevokedError.
Active(row) == row.revokedAt = 0

\* findById, then rename, replacePermissions or revoke.
Load(p) ==
    /\ unit[p].pc = "load"
    /\ unit' = [unit EXCEPT ![p] =
          IF Active(key) THEN [@ EXCEPT !.pc = "save", !.loaded = key, !.at = now] ELSE Idle]
    /\ UNCHANGED <<key, expiresAt, request, now, started, history>>

\* The row of the aggregate as the unit of work changed it.
ToEntity(c) ==
    [c.loaded EXCEPT !.perms = IF c.op = "replace" THEN c.perms ELSE @,
                     !.revokedAt = IF c.op = "revoke" THEN c.at ELSE @]

\* manager.save reads the row and compares it with the entity.
Compare(p) ==
    /\ unit[p].pc = "save"
    /\ unit' = [unit EXCEPT ![p].pc = "write",
                            ![p].changed = {f \in DOMAIN key : ToEntity(unit[p])[f] # key[f]}]
    /\ UNCHANGED <<key, expiresAt, request, now, started, history>>

\* The UPDATE locks the row until COMMIT; without a changed column there is none.
RowLocked == \E q \in Unit : unit[q].pc = "commit" /\ unit[q].changed # {}

Write(p) ==
    /\ unit[p].pc = "write"
    /\ unit[p].changed = {} \/ ~RowLocked
    /\ unit' = [unit EXCEPT ![p].pc = "commit"]
    /\ UNCHANGED <<key, expiresAt, request, now, started, history>>

Commit(p) ==
    LET c == unit[p] IN
    /\ c.pc = "commit"
    /\ key' = [f \in DOMAIN key |-> IF f \in c.changed THEN ToEntity(c)[f] ELSE key[f]]
    /\ unit' = [unit EXCEPT ![p] = Idle]
    /\ revocations' = revocations + (IF c.op = "revoke" THEN 1 ELSE 0)
    /\ revived' = (revived \/ (key.revokedAt # 0 /\ key'.revokedAt = 0))
    /\ lost' = (lost \/ (c.op # "replace" /\ key'.perms # key.perms))
    /\ UNCHANGED <<expiresAt, request, now, started, lastTouch, retouched, overlapped, usedMeanwhile>>

Rollback(p) ==
    /\ unit[p].pc \in {"load", "save", "write", "commit"}
    /\ unit' = [unit EXCEPT ![p] = Idle]
    /\ UNCHANGED <<key, expiresAt, request, now, started, history>>

-----------------------------------------------------------------------------
IsUsable == Exists /\ key.revokedAt = 0 /\ (expiresAt = 0 \/ expiresAt > now)

\* ResolveApiKeyQuery accepts the token; the touch that follows carries the
\* clock of this moment.  A refused token changes nothing.
Resolve(r) ==
    /\ request[r].pc = "idle" /\ IsUsable
    /\ request' = [request EXCEPT ![r] = [pc |-> "touch", at |-> now]]
    /\ UNCHANGED <<key, expiresAt, unit, now, started, history>>

DueAlways(at) == TRUE
Due(at) == key.lastUsedAt = 0 \/ key.lastUsedAt < at - TouchWindow

\* UPDATE ... WHERE last_used_at IS NULL OR last_used_at < threshold, in a
\* transaction of its own; the condition is evaluated under the row lock.
TouchLastUsed(r) ==
    LET at == request[r].at IN
    /\ request[r].pc = "touch" /\ ~RowLocked
    /\ request' = [request EXCEPT ![r] = Waiting]
    /\ IF Due(at)
       THEN /\ key' = [key EXCEPT !.lastUsedAt = at]
            /\ lastTouch' = (IF at > lastTouch THEN at ELSE lastTouch)
            /\ retouched' = (retouched \/ (lastTouch # 0 /\ at <= lastTouch + TouchWindow))
            /\ usedMeanwhile' = (usedMeanwhile \/ Open # {})
       ELSE UNCHANGED <<key, lastTouch, retouched, usedMeanwhile>>
    /\ UNCHANGED <<expiresAt, unit, now, started, revocations, revived, lost, overlapped>>

Tick ==
    /\ now < MaxNow
    /\ now' = now + 1
    /\ UNCHANGED <<key, expiresAt, unit, request, started, history>>

Next ==
    \/ CreateApiKey \/ Tick
    \/ \E p \in Unit : \/ Begin(p) \/ Load(p) \/ Compare(p) \/ Write(p)
                       \/ Commit(p) \/ Rollback(p)
    \/ \E r \in Request : Resolve(r) \/ TouchLastUsed(r)

Spec == Init /\ [][Next]_vars

-----------------------------------------------------------------------------
(* Properties.                                                              *)

\* A revoked key is never usable again, is revoked once, and keeps the
\* permissions it was last given, as long as no two units of work overlap.
DamageNeedsOverlap == revived \/ lost \/ revocations > 1 => overlapped

\* "a 60s write-amp guard": requests write lastUsedAt at most once per window,
\* unless a unit of work wrote back the date it had loaded before.
WriteAmplificationBounded == retouched => usedMeanwhile

\* Last uses, recorded with the clock of their request, are never recorded
\* backwards by the requests themselves, however late a statement arrives.
LastUseIsLatest == ~usedMeanwhile => key.lastUsedAt = lastTouch

\* "revoke records ApiKeyRevoked and is not usable": a key whose revocation
\* has committed never becomes usable again.
RevokedStaysRevoked == ~revived
=============================================================================
