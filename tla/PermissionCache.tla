--------------------------- MODULE PermissionCache ---------------------------
(***************************************************************************)
(* AuthorizationService: the permissions of a user (the union over the     *)
(* roles of the membership) or of an API key, resolved from PostgreSQL     *)
(* outside any transaction and cached in Redis for TTL.  The writers       *)
(* delete the cached entries inside their unit of work, before its COMMIT. *)
(* A cache hit changes nothing and has no action: what a check grants is   *)
(* what the entry of its subject holds.                                    *)
(***************************************************************************)
EXTENDS Integers

CONSTANTS
    User,           \* users of one tenant
    ApiKey,         \* API keys of the tenant
    Role,           \* its custom roles
    Permission,
    Writer,         \* units of work that change memberships, roles or keys
    Reader,         \* permission checks that run at the same time
    TTL,            \* EFFECTIVE_PERMISSIONS_TTL_SECONDS, in ticks
    MaxFill,        \* bound: ticks between a cache miss and its cache.set
    MaxWrites,      \* bound: units of work in a behaviour
    MaxFaults       \* bound: failures in a behaviour

Subject == User \union ApiKey
Bound == TTL + MaxFill

ASSUME SubjectAssumption ==
    /\ User \cap ApiKey = {} /\ Role \cap Subject = {}
    /\ Subject # {}
ASSUME TimeAssumption == TTL \in Nat \ {0} /\ MaxFill \in Nat
ASSUME BoundAssumption == MaxWrites \in Nat /\ MaxFaults \in Nat

VARIABLES
    roleIds,    \* [User -> roles of the active membership, {} without one]
    grants,     \* [Role -> its permissions, {} once deleted]
    minted,     \* [ApiKey -> its permissions, {} once revoked]
    expired,    \* API keys whose expiresAt has passed
    cache,      \* [Subject -> [perms, left]], left = 0: no entry
    tx,         \* [Writer -> [pc, target, value, todo]]
    fill,       \* [Reader -> [pc, subject, roles, perms, age]]
    gone,       \* history: ticks since a fact of the tables last held
    effective,  \* history: the <<subject, permission>> that ever held
    raced,      \* history: a check and a unit of work overlapped
    writes, faults

tables == <<roleIds, grants, minted, expired>>
stale == <<gone, effective>>
history == <<stale, raced>>
vars == <<tables, cache, tx, fill, history, writes, faults>>

\* What the tables say, as facts: a role of a user, a permission of a role or key.
Fact == (User \X Role) \union (Role \X Permission) \union (ApiKey \X Permission)
Facts(ids, perms, keys) ==
    {f \in Fact : \/ f[1] \in User /\ f[2] \in ids[f[1]]
                  \/ f[1] \in Role /\ f[2] \in perms[f[1]]
                  \/ f[1] \in ApiKey /\ f[2] \in keys[f[1]]}
Usable(keys, over) == [k \in ApiKey |-> IF k \in over THEN {} ELSE keys[k]]
CurrentFacts == Facts(roleIds, grants, Usable(minted, expired))
Effective(s) == IF s \in User THEN UNION {grants[r] : r \in roleIds[s]}
                ELSE Usable(minted, expired)[s]

NoEntry == [perms |-> {}, left |-> 0]
NoTx(target) == [pc |-> "idle", target |-> target, value |-> {}, todo |-> {}]
NoFill(s) == [pc |-> "idle", subject |-> s, roles |-> {}, perms |-> {}, age |-> 0]
Target == User \union Role \union ApiKey

TypeOK ==
    /\ roleIds \in [User -> SUBSET Role]
    /\ grants \in [Role -> SUBSET Permission]
    /\ minted \in [ApiKey -> SUBSET Permission] /\ expired \subseteq ApiKey
    /\ cache \in [Subject -> [perms : SUBSET Permission, left : 0..TTL]]
    /\ tx \in [Writer -> [pc : {"idle", "written", "deleting"}, target : Target,
                          value : (SUBSET Role) \union (SUBSET Permission),
                          todo : SUBSET Subject]]
    /\ fill \in [Reader -> [pc : {"idle", "roleIds", "grants", "key", "set"},
                            subject : Subject, roles : SUBSET Role,
                            perms : SUBSET Permission, age : 0..MaxFill]]
    /\ gone \in [Fact -> 0..(Bound + 1)]
    /\ effective \subseteq Subject \X Permission /\ raced \in BOOLEAN
    /\ writes \in 0..MaxWrites /\ faults \in 0..MaxFaults

Init ==
    /\ roleIds \in [User -> SUBSET Role]
    /\ grants \in [Role -> SUBSET Permission]
    /\ minted \in [ApiKey -> SUBSET Permission] /\ expired = {}
    /\ cache = [s \in Subject |-> NoEntry]
    /\ tx = [w \in Writer |-> NoTx(CHOOSE t \in Target : TRUE)]
    /\ fill = [r \in Reader |-> NoFill(CHOOSE s \in Subject : TRUE)]
    /\ gone = [f \in Fact |-> IF f \in CurrentFacts THEN 0 ELSE Bound + 1]
    /\ effective = {e \in Subject \X Permission : e[2] \in Effective(e[1])}
    /\ raced = FALSE /\ writes = MaxWrites /\ faults = MaxFaults

Writing == \E w \in Writer : tx[w].pc # "idle"
Filling == \E r \in Reader : fill[r].pc # "idle"
Fault == faults > 0 /\ faults' = faults - 1

-----------------------------------------------------------------------------
(* A check that misses.                                                     *)

\* cache.get found nothing.
Miss(r, s) ==
    /\ fill[r].pc = "idle"
    /\ cache[s].left = 0
    /\ fill' = [fill EXCEPT ![r] = [NoFill(s) EXCEPT !.pc = IF s \in User THEN "roleIds" ELSE "key"]]
    /\ raced' = (raced \/ Writing)
    /\ UNCHANGED <<tables, cache, tx, stale, writes, faults>>

\* MembershipRolesService.roleIdsFor, a statement of its own.
ReadRoleIds(r) ==
    /\ fill[r].pc = "roleIds"
    /\ fill' = [fill EXCEPT ![r].pc = "grants", ![r].roles = roleIds[fill[r].subject]]
    /\ UNCHANGED <<tables, cache, tx, history, writes, faults>>

\* RoleRepository.findByIds, another one; deleted roles are not found.
ReadGrants(r) ==
    /\ fill[r].pc = "grants"
    /\ fill' = [fill EXCEPT ![r].pc = "set",
                            ![r].perms = UNION {grants[role] : role \in fill[r].roles}]
    /\ UNCHANGED <<tables, cache, tx, history, writes, faults>>

\* ApiKeyPermissionsService.permissionsFor: nothing for an unusable key.
ReadKey(r) ==
    /\ fill[r].pc = "key"
    /\ fill' = [fill EXCEPT ![r].pc = "set", ![r].perms = Effective(fill[r].subject)]
    /\ UNCHANGED <<tables, cache, tx, history, writes, faults>>

\* cache.set(key, permissions, TTL): whatever happened since the reads.
Set(r) ==
    /\ fill[r].pc = "set"
    /\ cache' = [cache EXCEPT ![fill[r].subject] =
                                [perms |-> fill[r].perms, left |-> TTL]]
    /\ fill' = [fill EXCEPT ![r] = NoFill(fill[r].subject)]
    /\ UNCHANGED <<tables, tx, history, writes, faults>>

\* PostgreSQL or Redis fails under the check: nothing is granted or cached.
FillFails(r) ==
    /\ fill[r].pc # "idle"
    /\ Fault
    /\ fill' = [fill EXCEPT ![r] = NoFill(fill[r].subject)]
    /\ UNCHANGED <<tables, cache, tx, history, writes>>

-----------------------------------------------------------------------------
(* A unit of work that changes a membership, a role or a key.               *)

Locked(t) == \E w \in Writer : tx[w].pc # "idle" /\ tx[w].target = t

\* The row is written, uncommitted, and locked against other writers.  A role
\* is deleted only while nobody is seen to hold it.
Write(w, t) ==
    /\ tx[w].pc = "idle"
    /\ ~Locked(t)
    /\ writes > 0
    /\ writes' = writes - 1
    /\ \E value \in IF t \in User THEN (SUBSET Role) \ {{}} ELSE SUBSET Permission :
          /\ t \in Role /\ value = {} => \A u \in User : t \notin roleIds[u]
          /\ tx' = [tx EXCEPT ![w] = [pc |-> "written", target |-> t,
                                      value |-> value, todo |-> {}]]
    /\ raced' = (raced \/ Filling)
    /\ UNCHANGED <<tables, cache, fill, stale, faults>>

\* The keys to delete: the subject's own, or those of the role's holders as
\* the transaction sees them.
Affected(t) == IF t \in Role THEN {u \in User : t \in roleIds[u]} ELSE {t}

Invalidate(w) ==
    /\ tx[w].pc = "written"
    /\ tx' = [tx EXCEPT ![w].pc = "deleting", ![w].todo = Affected(tx[w].target)]
    /\ UNCHANGED <<tables, cache, fill, history, writes, faults>>

\* The deletions of Promise.all reach Redis one by one, in any order.
DeleteEntry(w, s) ==
    /\ tx[w].pc = "deleting" /\ s \in tx[w].todo
    /\ cache' = [cache EXCEPT ![s] = NoEntry]
    /\ tx' = [tx EXCEPT ![w].todo = @ \ {s}]
    /\ UNCHANGED <<tables, fill, history, writes, faults>>

Commit(w) ==
    LET t == tx[w].target IN
    /\ tx[w].pc = "deleting" /\ tx[w].todo = {}
    /\ UNCHANGED <<expired, cache, fill, raced, writes, faults>>
    /\ roleIds' = IF t \in User THEN [roleIds EXCEPT ![t] = tx[w].value] ELSE roleIds
    /\ grants' = IF t \in Role THEN [grants EXCEPT ![t] = tx[w].value] ELSE grants
    /\ minted' = IF t \in ApiKey THEN [minted EXCEPT ![t] = tx[w].value] ELSE minted
    /\ gone' = [f \in Fact |-> IF f \in CurrentFacts' THEN 0 ELSE gone[f]]
    /\ effective' = effective \union {e \in Subject \X Permission : e[2] \in Effective(e[1])'}
    /\ tx' = [tx EXCEPT ![w] = NoTx(t)]

\* cache.del, a statement or the COMMIT fails: the tables keep their rows.
Rollback(w) ==
    /\ tx[w].pc # "idle"
    /\ Fault
    /\ tx' = [tx EXCEPT ![w] = NoTx(tx[w].target)]
    /\ UNCHANGED <<tables, cache, fill, history, writes>>

-----------------------------------------------------------------------------
\* expiresAt passes: no unit of work runs, no entry is deleted.
Expire(k) ==
    /\ k \notin expired
    /\ expired' = expired \union {k}
    /\ UNCHANGED <<roleIds, grants, minted, cache, tx, fill, history, writes, faults>>

\* Redis restarts empty: it is not persisted.
CacheLost ==
    /\ Fault
    /\ cache' = [s \in Subject |-> NoEntry]
    /\ UNCHANGED <<tables, tx, fill, history, writes>>

\* Redis counts the entry's TTL down and drops it at zero.
AgedForever(e) == e
Aged(e) == IF e.left <= 1 THEN NoEntry ELSE [e EXCEPT !.left = @ - 1]

\* Time passes: entries expire, no check takes longer than MaxFill.
Tick ==
    /\ \A r \in Reader : fill[r].pc # "idle" => fill[r].age < MaxFill
    /\ cache' = [s \in Subject |-> Aged(cache[s])]
    /\ fill' = [r \in Reader |-> IF fill[r].pc = "idle" THEN fill[r]
                                 ELSE [fill[r] EXCEPT !.age = @ + 1]]
    /\ gone' = [f \in Fact |-> IF f \in CurrentFacts THEN 0
                               ELSE IF gone[f] > Bound THEN gone[f] ELSE gone[f] + 1]
    /\ UNCHANGED <<tables, tx, effective, raced, writes, faults>>

FillStep(r) == ReadRoleIds(r) \/ ReadGrants(r) \/ ReadKey(r) \/ Set(r)
WriteStep(w) == Invalidate(w) \/ (\E s \in Subject : DeleteEntry(w, s)) \/ Commit(w)

Next ==
    \/ \E r \in Reader : FillStep(r) \/ FillFails(r) \/ \E s \in Subject : Miss(r, s)
    \/ \E w \in Writer : WriteStep(w) \/ Rollback(w) \/ \E t \in Target : Write(w, t)
    \/ \E k \in ApiKey : Expire(k)
    \/ CacheLost \/ Tick

Spec == Init /\ [][Next]_vars

\* The clock runs, checks and units of work that have begun go on.
FairSpec ==
    /\ Spec
    /\ WF_vars(Tick)
    /\ \A r \in Reader : WF_vars(FillStep(r))
    /\ \A w \in Writer : WF_vars(WriteStep(w))

-----------------------------------------------------------------------------
(* Properties.                                                              *)

HeldLately(s, p) ==
    IF s \in ApiKey THEN gone[<<s, p>>] <= Bound
    ELSE \E r \in Role : gone[<<s, r>>] <= Bound /\ gone[<<r, p>>] <= Bound

\* However fills, invalidations before COMMIT and commits interleave, and
\* whatever fails: a check never grants a permission that the key, or a role of
\* the user, lost more than a TTL and a fill ago.
StaleGrantBounded ==
    \A s \in Subject : \A p \in cache[s].perms : HeldLately(s, p)

\* While no check overlaps a unit of work, revocation is immediate: the deleted
\* entries are those of everyone the change affects.  Expiry deletes nothing.
ImmediateUnlessRaced ==
    ~raced /\ ~Writing =>
        \A s \in Subject \ expired : cache[s].left > 0 => cache[s].perms = Effective(s)

\* "Effective permissions = union of permissions across their roles in that
\* membership": no permission is cached that was not effective at some moment.
OnlyEverEffective ==
    \A s \in Subject : \A p \in cache[s].perms : <<s, p>> \in effective

Stale(s) == cache[s].perms \ Effective(s) # {}

\* A permission taken away does not stay granted: the stale entry is deleted or
\* expires, if no more units of work follow.
RevocationTakesEffect == \A s \in Subject : Stale(s) ~> ~Stale(s)
=============================================================================
