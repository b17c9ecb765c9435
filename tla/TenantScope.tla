---------------------------- MODULE TenantScope ----------------------------
(* Ambient tenant isolation: AuthPrincipalInterceptor (or the worker) binds a  *)
(* tenant to an asynchronous chain, AlsTenantContext keeps it per branch of    *)
(* the chain, and TenantAwareRepository filters and stamps by it unless the    *)
(* branch is inside withoutTenantScope.  Branches of one request and several   *)
(* requests interleave.                                                        *)
EXTENDS Naturals, Sequences, SequencesExt

CONSTANTS
    Tenant,
    Chain,      \* asynchronous branches: of requests and jobs
    NoTenant,   \* undefined
    MaxDepth,   \* bound: nested ALS scopes
    MaxRows     \* bound: rows written

ASSUME TenantScopeAssumption ==
    /\ NoTenant \notin Tenant
    /\ MaxDepth \in Nat \ {0}
    /\ MaxRows \in Nat \ {0}

(* What a request brings: a public route or the kind of its principal, whether *)
(* its credential is there and verifies, the tenant it names, whether the user *)
(* is an active member of it, and the route's metadata.  A user comes with a   *)
(* token or, in development, with headers.                                     *)
Request == [kind : {"public", "user", "apiKey"}, valid : BOOLEAN, tenant : Tenant \union {NoTenant},
            member : BOOLEAN, tenantOptional : BOOLEAN, permission : BOOLEAN]

VARIABLES
    phase,      \* chain -> "idle" | "handling"
    stack,      \* chain -> ALS stores [scope, skip], innermost last
    base,       \* chain -> the stores it began with: it leaves only later ones
    rows,       \* tenant -> rows of it
    bound,      \* history: chain -> the tenant the edge established for it
    hatches,    \* history: chain -> withoutTenantScope calls it is inside of
    touched     \* history: [chain, tenant] of rows read or written outside every hatch

vars == <<phase, stack, base, rows, bound, hatches, touched>>

Init ==
    /\ phase = [c \in Chain |-> "idle"]
    /\ stack = [c \in Chain |-> <<>>]
    /\ base = [c \in Chain |-> 0]
    /\ rows = [t \in Tenant |-> 1]
    /\ bound = [c \in Chain |-> NoTenant]
    /\ hatches = [c \in Chain |-> 0]
    /\ touched = {}

----------------------------------------------------------------------------
(* AlsTenantContext *)
Scope(c) == IF stack[c] = <<>> THEN NoTenant ELSE Last(stack[c]).scope

Skipped(c) == stack[c] # <<>> /\ Last(stack[c]).skip

Push(c, scope, skip) == stack' = [stack EXCEPT ![c] = Append(@, [scope |-> scope, skip |-> skip])]

(* AssertActiveMembership.findActive and the checks of bindUserPrincipal; an   *)
(* API key names its tenant itself.                                            *)
Admits(r) ==
    \/ r.kind = "public"
    \/ r.kind = "apiKey" /\ r.valid /\ r.tenant # NoTenant
    \/ r.kind = "user" /\ r.valid /\ (IF r.tenant = NoTenant THEN r.tenantOptional ELSE r.member)

(* The tenant the edge runs the handler under. *)
TenantOf(r) == IF r.kind = "public" THEN NoTenant ELSE r.tenant

(* RequirePermissionInterceptor asks for the ambient actor and tenant first. *)
HasPermissionScope(r) == r.kind # "public" /\ r.permission => r.tenant # NoTenant

Run(c, t) == IF t = NoTenant THEN UNCHANGED stack ELSE Push(c, t, FALSE)

(* A request arrives: the edge binds its tenant to the handler or refuses it.  *)
(* `bound' records the tenant the caller has a right to.                       *)
Handle(c, r) ==
    /\ phase[c] = "idle"
    /\ Admits(r) /\ HasPermissionScope(r)
    /\ phase' = [phase EXCEPT ![c] = "handling"]
    /\ Run(c, TenantOf(r))
    /\ bound' = [bound EXCEPT ![c] =
        IF r.kind = "apiKey" \/ (r.kind = "user" /\ r.member) THEN r.tenant ELSE NoTenant]
    /\ base' = [base EXCEPT ![c] = Len(stack'[c])]
    /\ UNCHANGED <<rows, hatches, touched>>

(* The outbox processor: an event runs under its row's tenant, or under none. *)
DispatchEvent(c, t) ==
    /\ phase[c] = "idle"
    /\ phase' = [phase EXCEPT ![c] = "handling"]
    /\ Run(c, t)
    /\ bound' = [bound EXCEPT ![c] = t]
    /\ base' = [base EXCEPT ![c] = Len(stack'[c])]
    /\ UNCHANGED <<rows, hatches, touched>>

(* A handler starts concurrent work (Promise.all): the branch sees the stores  *)
(* that were current when it began.                                            *)
Branch(c, d) ==
    /\ phase[c] = "handling"
    /\ phase[d] = "idle"
    /\ phase' = [phase EXCEPT ![d] = "handling"]
    /\ stack' = [stack EXCEPT ![d] = stack[c]]
    /\ base' = [base EXCEPT ![d] = Len(stack[c])]
    /\ bound' = [bound EXCEPT ![d] = bound[c]]
    /\ hatches' = [hatches EXCEPT ![d] = hatches[c]]
    /\ UNCHANGED <<rows, touched>>

(* withoutTenantScope: a new store for the work, with the scope it is in. *)
Hatch(c) ==
    /\ phase[c] = "handling"
    /\ Len(stack[c]) < MaxDepth
    /\ Push(c, Scope(c), TRUE)
    /\ hatches' = [hatches EXCEPT ![c] = @ + 1]
    /\ UNCHANGED <<phase, base, rows, bound, touched>>

(* The work of a hatch settles: the outer store is current again. *)
LeaveHatch(c) ==
    /\ phase[c] = "handling"
    /\ Len(stack[c]) > base[c]
    /\ stack' = [stack EXCEPT ![c] = Front(@)]
    /\ hatches' = [hatches EXCEPT ![c] = @ - 1]
    /\ UNCHANGED <<phase, base, rows, bound, touched>>

----------------------------------------------------------------------------
(* TenantAwareRepository *)
Touch(c, tenants) ==
    touched' = IF hatches[c] > 0 THEN touched ELSE touched \union {<<bound[c], t>> : t \in tenants}

(* scoped: a query sees the ambient tenant's rows, all of them in a hatch, and *)
(* throws without a tenant.                                                    *)
Visible(c) == IF Skipped(c) THEN Tenant ELSE {Scope(c)}

Find(c) ==
    /\ phase[c] = "handling"
    /\ Skipped(c) \/ Scope(c) # NoTenant
    /\ Touch(c, {t \in Visible(c) : rows[t] > 0})
    /\ UNCHANGED <<phase, stack, base, rows, bound, hatches>>

(* stampTenantId: the tenant a row of tenant t is written for; NoTenant throws. *)
StampTrustsRow(c, t) == t

StampTenantId(c, t) ==
    IF Skipped(c) THEN t
    ELSE IF t \notin {NoTenant, Scope(c)} THEN NoTenant
    ELSE Scope(c)

Save(c, t) ==
    /\ phase[c] = "handling"
    /\ StampTenantId(c, t) # NoTenant
    /\ rows[StampTenantId(c, t)] < MaxRows
    /\ rows' = [rows EXCEPT ![StampTenantId(c, t)] = @ + 1]
    /\ Touch(c, {StampTenantId(c, t)})
    /\ UNCHANGED <<phase, stack, base, bound, hatches>>

(* findByUserAndTenant: with an established scope its tenant must match; the   *)
(* query itself runs in a hatch.  Without a scope it is how a principal is     *)
(* resolved, before any tenant is bound.                                       *)
LookupAllowed(c, t) == Scope(c) # NoTenant /\ ~Skipped(c) => t = Scope(c)

FindByUserAndTenant(c, t) ==
    /\ phase[c] = "handling"
    /\ bound[c] # NoTenant
    /\ LookupAllowed(c, t)
    /\ Touch(c, {t})
    /\ UNCHANGED <<phase, stack, base, rows, bound, hatches>>

(* The handler settles, after everything it opened. *)
Settle(c) ==
    /\ phase[c] = "handling"
    /\ Len(stack[c]) = base[c]
    /\ phase' = [phase EXCEPT ![c] = "idle"]
    /\ stack' = [stack EXCEPT ![c] = <<>>]
    /\ base' = [base EXCEPT ![c] = 0]
    /\ bound' = [bound EXCEPT ![c] = NoTenant]
    /\ hatches' = [hatches EXCEPT ![c] = 0]
    /\ UNCHANGED <<rows, touched>>

Next ==
    \E c \in Chain :
        \/ \E r \in Request : Handle(c, r)
        \/ \E t \in Tenant \union {NoTenant} : DispatchEvent(c, t) \/ Save(c, t)
        \/ \E t \in Tenant : FindByUserAndTenant(c, t)
        \/ \E d \in Chain : Branch(c, d)
        \/ Hatch(c) \/ LeaveHatch(c) \/ Find(c) \/ Settle(c)

Spec == Init /\ [][Next]_vars

----------------------------------------------------------------------------
TypeOK ==
    /\ phase \in [Chain -> {"idle", "handling"}]
    /\ \A c \in Chain : Len(stack[c]) <= MaxDepth
    /\ rows \in [Tenant -> 1 .. MaxRows]
    /\ bound \in [Chain -> Tenant \union {NoTenant}]
    /\ hatches \in [Chain -> 0 .. MaxDepth]
    /\ \A c \in Chain : base[c] \in 0 .. Len(stack[c])

(* Outside withoutTenantScope a branch reads and writes only rows of the tenant  *)
(* its request or job was admitted to, and none without one: no concurrent       *)
(* request, sibling branch or hatch that was left leaks its scope.               *)
TenantIsolation == \A pair \in touched : pair[1] # NoTenant /\ pair[1] = pair[2]

(* The ambient scope is the admitted tenant in every nesting, and the filter is  *)
(* off exactly inside a hatch.                                                   *)
ScopeMatchesNesting ==
    \A c \in Chain : phase[c] = "handling" => Scope(c) = bound[c] /\ (Skipped(c) <=> hatches[c] > 0)
=============================================================================
