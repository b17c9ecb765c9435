-------------------------------- MODULE EdgeProofs --------------------------------
(***************************************************************************)
(* The components of MCEdge proved side by side.                           *)
(***************************************************************************)
EXTENDS MCEdge, FiniteSetTheorems, WellFoundedInduction, TLAPS

-----------------------------------------------------------------------------
(* TenantScope: the stores of a chain are one for its tenant, if it has     *)
(* one, and one for every hatch it is inside of; a chain leaves only those  *)
(* it opened itself.                                                        *)

Store == [scope : Tenant \union {NoTenant}, skip : BOOLEAN]

\* Stores that a chain with this tenant begins with.
Outer(tenant) == IF tenant = NoTenant THEN 0 ELSE 1

Nested(stores, tenant, depth, inherited) ==
    /\ Len(stores) = Outer(tenant) + depth /\ Len(stores) <= MaxDepth
    /\ \A i \in 1 .. Len(stores) :
          stores[i].scope = tenant /\ (stores[i].skip <=> i > Outer(tenant))
    /\ inherited \in Outer(tenant) .. Len(stores)

Resting(c) ==
    stack[c] = <<>> /\ bound[c] = NoTenant /\ hatches[c] = 0 /\ base[c] = 0

ScopeInv ==
    /\ phase \in [Chain -> {"idle", "handling"}]
    /\ stack \in [Chain -> Seq(Store)]
    /\ base \in [Chain -> Nat]
    /\ rows \in [Tenant -> 1 .. MaxRows]
    /\ bound \in [Chain -> Tenant \union {NoTenant}]
    /\ hatches \in [Chain -> Nat]
    /\ \A c \in Chain : Nested(stack[c], bound[c], hatches[c], base[c])
    /\ \A c \in Chain : phase[c] = "idle" => Resting(c)
    /\ TenantIsolation

\* At first nobody is at work.
LEMMA InitScopeInv == Init => ScopeInv
<1> SUFFICES ASSUME Init PROVE ScopeInv
  OBVIOUS
<1>1. <<>> \in Seq(Store) /\ Len(<<>>) = 0
  OBVIOUS
<1>2. Nested(<<>>, NoTenant, 0, 0)
  BY TenantScopeAssumption DEF Nested, Outer
<1> QED
  BY <1>1, <1>2, TenantScopeAssumption DEF Init, ScopeInv, Resting, TenantIsolation

\* What the stores say: the scope is the tenant's, and filters are off in a hatch.
LEMMA ScopeOf ==
  ASSUME ScopeInv, NEW c \in Chain
  PROVE  /\ Scope(c) = bound[c] /\ (Skipped(c) <=> hatches[c] > 0)
         /\ bound[c] \in Tenant \union {NoTenant} /\ hatches[c] \in Nat
<1>1. /\ stack[c] \in Seq(Store) /\ Nested(stack[c], bound[c], hatches[c], base[c])
      /\ bound[c] \in Tenant \union {NoTenant} /\ hatches[c] \in Nat
  BY DEF ScopeInv
<1>2. Len(stack[c]) \in Nat /\ Len(stack[c]) = Outer(bound[c]) + hatches[c]
  BY <1>1 DEF Nested
<1>3. CASE stack[c] = <<>>
  <2>1. Len(stack[c]) = 0
    BY <1>3
  <2>2. Outer(bound[c]) = 0 /\ hatches[c] = 0
    BY <1>1, <1>2, <2>1 DEF Outer
  <2> QED
    BY <1>1, <1>3, <2>2 DEF Outer, Scope, Skipped
<1>4. CASE stack[c] # <<>>
  <2>1. Len(stack[c]) \in 1 .. Len(stack[c])
    BY <1>1, <1>4
  <2>2. /\ Last(stack[c]).scope = bound[c]
        /\ Last(stack[c]).skip <=> Len(stack[c]) > Outer(bound[c])
    BY <1>1, <2>1 DEF Nested, Last
  <2> QED
    BY <1>1, <1>2, <1>4, <2>2 DEF Scope, Skipped, Outer
<1> QED
  BY <1>3, <1>4

\* A chain's own state changes, and what it touches is its tenant's.
LEMMA ChainKeeps ==
  ASSUME ScopeInv, NEW c \in Chain,
         NEW p \in {"idle", "handling"}, NEW s \in Seq(Store), NEW b \in Nat,
         NEW t \in Tenant \union {NoTenant}, NEW h \in Nat,
         phase' = [phase EXCEPT ![c] = p], stack' = [stack EXCEPT ![c] = s],
         base' = [base EXCEPT ![c] = b], bound' = [bound EXCEPT ![c] = t],
         hatches' = [hatches EXCEPT ![c] = h],
         Nested(s, t, h, b),
         p = "idle" => s = <<>> /\ t = NoTenant /\ h = 0 /\ b = 0,
         rows' \in [Tenant -> 1 .. MaxRows], TenantIsolation'
  PROVE  ScopeInv'
<1>1. /\ phase' \in [Chain -> {"idle", "handling"}] /\ stack' \in [Chain -> Seq(Store)]
      /\ base' \in [Chain -> Nat] /\ bound' \in [Chain -> Tenant \union {NoTenant}]
      /\ hatches' \in [Chain -> Nat]
  BY DEF ScopeInv
<1>2. ASSUME NEW d \in Chain
      PROVE  /\ Nested(stack'[d], bound'[d], hatches'[d], base'[d])
             /\ phase'[d] = "idle" => Resting(d)'
  <2>1. CASE d = c
    <3>1. phase'[c] = p /\ stack'[c] = s /\ base'[c] = b /\ bound'[c] = t /\ hatches'[c] = h
      BY DEF ScopeInv
    <3> QED
      BY <2>1, <3>1 DEF Resting
  <2>2. CASE d # c
    <3>1. /\ phase'[d] = phase[d] /\ stack'[d] = stack[d] /\ base'[d] = base[d]
          /\ bound'[d] = bound[d] /\ hatches'[d] = hatches[d]
      BY <2>2 DEF ScopeInv
    <3> QED
      BY <3>1 DEF ScopeInv, Resting
  <2> QED
    BY <2>1, <2>2
<1> QED
  BY <1>1, <1>2 DEF ScopeInv

\* A request or an event begins: with a store of its tenant, or without any.
LEMMA BeginKeeps ==
  ASSUME ScopeInv, NEW c \in Chain, NEW t \in Tenant \union {NoTenant},
         phase[c] = "idle", phase' = [phase EXCEPT ![c] = "handling"],
         Run(c, t), bound' = [bound EXCEPT ![c] = t],
         base' = [base EXCEPT ![c] = Len(stack'[c])], UNCHANGED <<rows, hatches, touched>>
  PROVE  ScopeInv'
<1> DEFINE s == IF t = NoTenant THEN <<>> ELSE <<[scope |-> t, skip |-> FALSE]>>
<1>1. /\ stack \in [Chain -> Seq(Store)] /\ stack[c] = <<>> /\ hatches[c] = 0
      /\ hatches \in [Chain -> Nat]
  BY DEF ScopeInv, Resting
<1>2. s \in Seq(Store) /\ Len(s) = Outer(t) /\ Len(s) \in Nat
  <2>1. CASE t = NoTenant
    BY <2>1 DEF Outer
  <2>2. CASE t # NoTenant
    <3>1. [scope |-> t, skip |-> FALSE] \in Store
      BY DEF Store
    <3>2. s = <<[scope |-> t, skip |-> FALSE]>> /\ Outer(t) = 1
      BY <2>2 DEF Outer
    <3> QED
      BY <3>1, <3>2
  <2> QED
    BY <2>1, <2>2
<1>3. stack' = [stack EXCEPT ![c] = s]
  BY <1>1 DEF Run, Push
<1>4. base' = [base EXCEPT ![c] = Len(s)]
  BY <1>1, <1>3
<1>5. Nested(s, t, 0, Len(s))
  <2>1. \A i \in 1 .. Len(s) : s[i].scope = t /\ s[i].skip = FALSE /\ i <= Outer(t)
    BY <1>2 DEF Outer
  <2>2. Outer(t) \in {0, 1}
    BY DEF Outer
  <2> QED
    BY <1>2, <2>1, <2>2, TenantScopeAssumption DEF Nested
<1>6. hatches' = [hatches EXCEPT ![c] = 0]
  BY <1>1
<1>7. rows' \in [Tenant -> 1 .. MaxRows] /\ TenantIsolation'
  BY DEF ScopeInv, TenantIsolation
<1> HIDE DEF s
<1> QED
  BY <1>2, <1>3, <1>4, <1>5, <1>6, <1>7, ChainKeeps

\* The edge binds the tenant it admitted the caller to.
LEMMA HandleKeeps ==
  ASSUME ScopeInv, NEW c \in Chain, NEW r \in Request, Handle(c, r)
  PROVE  ScopeInv'
<1>1. r.tenant \in Tenant \union {NoTenant} /\ r.kind \in {"public", "user", "apiKey"}
  BY DEF Request
<1>2. TenantOf(r) \in Tenant \union {NoTenant}
  BY <1>1 DEF TenantOf
<1>3. (IF r.kind = "apiKey" \/ (r.kind = "user" /\ r.member) THEN r.tenant ELSE NoTenant)
        = TenantOf(r)
  BY <1>1 DEF Handle, Admits, TenantOf
<1> QED
  BY <1>2, <1>3, BeginKeeps DEF Handle

\* A branch has the stores of the chain it starts in, and leaves none of them.
LEMMA BranchKeeps ==
  ASSUME ScopeInv, NEW c \in Chain, NEW d \in Chain, Branch(c, d)
  PROVE  ScopeInv'
<1>1. /\ stack[c] \in Seq(Store) /\ Len(stack[c]) \in Nat /\ hatches[c] \in Nat
      /\ bound[c] \in Tenant \union {NoTenant}
      /\ Nested(stack[c], bound[c], hatches[c], base[c])
  BY DEF ScopeInv
<1>2. Nested(stack[c], bound[c], hatches[c], Len(stack[c]))
  BY <1>1 DEF Nested, Outer
<1>3. rows' \in [Tenant -> 1 .. MaxRows] /\ TenantIsolation'
  BY DEF Branch, ScopeInv, TenantIsolation
<1> QED
  BY <1>1, <1>2, <1>3, ChainKeeps DEF Branch

\* withoutTenantScope opens a store in which filters are off, and leaves it.
LEMMA HatchKeeps ==
  ASSUME ScopeInv, NEW c \in Chain, Hatch(c) \/ LeaveHatch(c)
  PROVE  ScopeInv'
<1>1. /\ stack[c] \in Seq(Store) /\ Len(stack[c]) \in Nat /\ hatches[c] \in Nat
      /\ bound[c] \in Tenant \union {NoTenant} /\ base[c] \in Nat
      /\ Nested(stack[c], bound[c], hatches[c], base[c])
      /\ phase[c] = "handling" /\ Scope(c) = bound[c]
  <2>1. phase[c] = "handling"
    BY DEF Hatch, LeaveHatch
  <2>2. stack[c] \in Seq(Store) /\ Nested(stack[c], bound[c], hatches[c], base[c])
    BY DEF ScopeInv
  <2>3. base[c] \in Nat /\ Len(stack[c]) \in Nat
    BY <2>2 DEF ScopeInv
  <2> QED
    BY <2>1, <2>2, <2>3, ScopeOf
<1>2. /\ phase' = [phase EXCEPT ![c] = "handling"] /\ base' = [base EXCEPT ![c] = base[c]]
      /\ bound' = [bound EXCEPT ![c] = bound[c]]
  BY <1>1 DEF ScopeInv, Hatch, LeaveHatch
<1>3. rows' \in [Tenant -> 1 .. MaxRows] /\ TenantIsolation'
  BY DEF Hatch, LeaveHatch, ScopeInv, TenantIsolation
<1>4. CASE Hatch(c)
  <2> DEFINE e == [scope |-> bound[c], skip |-> TRUE]
             s == Append(stack[c], e)
  <2>1. e \in Store /\ e.scope = bound[c] /\ e.skip = TRUE
    BY <1>1 DEF Store
  <2>2. /\ stack' = [stack EXCEPT ![c] = s] /\ Len(stack[c]) < MaxDepth
        /\ hatches' = [hatches EXCEPT ![c] = hatches[c] + 1]
    BY <1>1, <1>4 DEF Hatch, Push
  <2> HIDE DEF e
  <2>3. /\ s \in Seq(Store) /\ Len(s) = Len(stack[c]) + 1 /\ s[Len(stack[c]) + 1] = e
        /\ \A i \in 1 .. Len(stack[c]) : s[i] = stack[c][i]
    BY <1>1, <2>1
  <2> HIDE DEF s
  <2>4. Nested(s, bound[c], hatches[c] + 1, base[c])
    <3>1. Len(s) = Outer(bound[c]) + (hatches[c] + 1) /\ Len(s) <= MaxDepth
      BY <1>1, <2>2, <2>3, TenantScopeAssumption DEF Nested, Outer
    <3>2. ASSUME NEW i \in 1 .. Len(s)
          PROVE  s[i].scope = bound[c] /\ (s[i].skip <=> i > Outer(bound[c]))
      <4>1. CASE i \in 1 .. Len(stack[c])
        BY <1>1, <2>3, <4>1 DEF Nested
      <4>2. CASE i = Len(stack[c]) + 1
        BY <1>1, <2>1, <2>3, <4>2 DEF Nested, Outer
      <4> QED
        BY <1>1, <2>3, <4>1, <4>2
    <3>3. base[c] \in Outer(bound[c]) .. Len(s)
      BY <1>1, <2>3 DEF Nested, Outer
    <3> QED
      BY <3>1, <3>2, <3>3 DEF Nested
  <2>5. hatches[c] + 1 \in Nat
    BY <1>1
  <2> QED
    BY <1>1, <1>2, <1>3, <2>2, <2>3, <2>4, <2>5, ChainKeeps
<1>5. CASE LeaveHatch(c)
  <2> DEFINE s == SubSeq(stack[c], 1, Len(stack[c]) - 1)
  <2>1. /\ stack' = [stack EXCEPT ![c] = s] /\ Len(stack[c]) > base[c]
        /\ hatches' = [hatches EXCEPT ![c] = hatches[c] - 1]
    BY <1>5 DEF LeaveHatch, Front
  <2>2. /\ s \in Seq(Store) /\ Len(s) = Len(stack[c]) - 1
        /\ \A i \in 1 .. Len(s) : s[i] = stack[c][i]
    BY <1>1, <2>1
  <2> HIDE DEF s
  <2>3. hatches[c] - 1 \in Nat
    BY <1>1, <2>1 DEF Nested, Outer
  <2>4. Nested(s, bound[c], hatches[c] - 1, base[c])
    BY <1>1, <2>1, <2>2, TenantScopeAssumption DEF Nested, Outer
  <2> QED
    BY <1>1, <1>2, <1>3, <2>1, <2>2, <2>3, <2>4, ChainKeeps
<1> QED
  BY <1>4, <1>5

\* TenantAwareRepository: a filtered query and a stamped row are of the tenant.
LEMMA RepositoryKeeps ==
  ASSUME ScopeInv, NEW c \in Chain,
         \/ Find(c)
         \/ \E t \in Tenant \union {NoTenant} : Save(c, t)
         \/ \E t \in Tenant : FindByUserAndTenant(c, t)
  PROVE  ScopeInv'
<1>1. UNCHANGED <<phase, stack, base, bound, hatches>>
  BY DEF Find, Save, FindByUserAndTenant
<1>2. /\ Scope(c) = bound[c] /\ (Skipped(c) <=> hatches[c] > 0)
      /\ bound[c] \in Tenant \union {NoTenant} /\ hatches[c] \in Nat
      /\ rows \in [Tenant -> 1 .. MaxRows] /\ TenantIsolation
  BY ScopeOf DEF ScopeInv
<1>3. rows' \in [Tenant -> 1 .. MaxRows]
  <2>1. ASSUME NEW t \in Tenant \union {NoTenant}, Save(c, t)
        PROVE  rows' \in [Tenant -> 1 .. MaxRows]
    <3>1. StampTenantId(c, t) \in Tenant
      BY <1>2, <2>1 DEF Save, StampTenantId
    <3>2. rows[StampTenantId(c, t)] + 1 \in 1 .. MaxRows
      BY <1>2, <2>1, <3>1, TenantScopeAssumption DEF Save
    <3> QED
      BY <1>2, <2>1, <3>1, <3>2 DEF Save
  <2> QED
    BY <1>2, <2>1 DEF Find, FindByUserAndTenant
<1>4. TenantIsolation'
  <2>1. ASSUME NEW tenants, Touch(c, tenants),
               hatches[c] = 0 => bound[c] # NoTenant /\ \A t \in tenants : t = bound[c]
        PROVE  TenantIsolation'
    BY <1>2, <2>1 DEF Touch, TenantIsolation
  <2>2. CASE Find(c)
    BY <1>2, <2>1, <2>2 DEF Find, Visible
  <2>3. ASSUME NEW t \in Tenant \union {NoTenant}, Save(c, t)
        PROVE  TenantIsolation'
    BY <1>2, <2>1, <2>3 DEF Save, StampTenantId
  <2>4. ASSUME NEW t \in Tenant, FindByUserAndTenant(c, t)
        PROVE  TenantIsolation'
    BY <1>2, <2>1, <2>4 DEF FindByUserAndTenant, LookupAllowed
  <2> QED
    BY <2>2, <2>3, <2>4
<1> QED
  BY <1>1, <1>3, <1>4 DEF ScopeInv, Resting

\* Whatever step is taken.
LEMMA NextScopeInv == ScopeInv /\ [Next]_vars => ScopeInv'
<1> SUFFICES ASSUME ScopeInv, [Next]_vars PROVE ScopeInv'
  OBVIOUS
<1>1. ASSUME NEW c \in Chain, NEW t \in Tenant \union {NoTenant}, DispatchEvent(c, t)
      PROVE  ScopeInv'
  BY <1>1, BeginKeeps DEF DispatchEvent
<1>2. ASSUME NEW c \in Chain, Settle(c)
      PROVE  ScopeInv'
  <2>1. <<>> \in Seq(Store) /\ Nested(<<>>, NoTenant, 0, 0)
    BY TenantScopeAssumption DEF Nested, Outer
  <2>2. rows' \in [Tenant -> 1 .. MaxRows] /\ TenantIsolation'
    BY <1>2 DEF Settle, ScopeInv, TenantIsolation
  <2> QED
    BY <1>2, <2>1, <2>2, ChainKeeps DEF Settle
<1>3. CASE UNCHANGED vars
  BY <1>3 DEF vars, ScopeInv, Resting, TenantIsolation
<1> QED
  BY <1>1, <1>2, <1>3, HandleKeeps, BranchKeeps, HatchKeeps, RepositoryKeeps DEF Next

\* ScopeInv says what it is for.
LEMMA ScopeInvImplies == ScopeInv => TypeOK /\ TenantIsolation /\ ScopeMatchesNesting
<1> SUFFICES ASSUME ScopeInv PROVE TypeOK /\ ScopeMatchesNesting
  BY DEF ScopeInv
<1>1. ASSUME NEW c \in Chain
      PROVE  /\ Len(stack[c]) <= MaxDepth /\ hatches[c] \in 0 .. MaxDepth
             /\ base[c] \in 0 .. Len(stack[c])
  <2>1. /\ Nested(stack[c], bound[c], hatches[c], base[c]) /\ hatches[c] \in Nat
        /\ Len(stack[c]) \in Nat /\ base[c] \in Nat
    BY DEF ScopeInv
  <2> QED
    BY <2>1, TenantScopeAssumption DEF Nested, Outer
<1>2. hatches \in [Chain -> 0 .. MaxDepth]
  BY <1>1 DEF ScopeInv
<1> QED
  BY <1>1, <1>2, ScopeOf DEF ScopeInv, TypeOK, ScopeMatchesNesting

-----------------------------------------------------------------------------
(* ApiRoutes: what the document of each route lists covers what its           *)
(* interceptors and use cases answer with, but for the answers all routes     *)
(* share.                                                                     *)

-----------------------------------------------------------------------------
(* ApiRoutes: the tables, looked up once and for all.                       *)

\* What two tables without a common entry have together.
LEMMA Apart ==
  ASSUME NEW f, NEW g, \A x \in DOMAIN f : x \notin DOMAIN g
  PROVE  /\ DOMAIN (f ++ g) = DOMAIN f \union DOMAIN g
         /\ \A x \in DOMAIN f : (f ++ g)[x] = f[x]
         /\ \A x \in DOMAIN g : (f ++ g)[x] = g[x]
  BY DEF ++

\* An entry of the left table hides one of the right.
LEMMA Before ==
  ASSUME NEW f, NEW g
  PROVE  /\ \A x \in DOMAIN f : (f ++ g)[x] = f[x]
         /\ \A x \in DOMAIN g : x \notin DOMAIN f => (f ++ g)[x] = g[x]
  BY DEF ++

\* The errors the use cases of a route raise.
LEMMA ErrorsOf ==
  /\ \A r \in DOMAIN AuthErrors : Errors[r] = AuthErrors[r]
  /\ \A r \in DOMAIN ApiKeysErrors : Errors[r] = ApiKeysErrors[r]
  /\ \A r \in DOMAIN RolesErrors : Errors[r] = RolesErrors[r]
  /\ \A r \in DOMAIN MembersErrors : Errors[r] = MembersErrors[r]
  /\ \A r \in DOMAIN InvitationsErrors : Errors[r] = InvitationsErrors[r]
  /\ \A r \in DOMAIN TenantsErrors : Errors[r] = TenantsErrors[r]
  /\ \A r \in DOMAIN MeErrors : Errors[r] = MeErrors[r]
  /\ Errors["createUser"] = {"USER_EMAIL_TAKEN"}
  /\ \A r \in DOMAIN Routes :
        r \in {"logout", "webLogout", "selectTenant", "forgotPassword", "listApiKeys", "listRoles", "listTenantMembers"}
           => Errors[r] = {}
<1> DEFINE creation == [createUser |-> {"USER_EMAIL_TAKEN"}]
           rest == [r \in DOMAIN Routes |-> {}]
           e2 == AuthErrors ++ ApiKeysErrors
           e3 == e2 ++ RolesErrors
           e4 == e3 ++ MembersErrors
           e5 == e4 ++ InvitationsErrors
           e6 == e5 ++ TenantsErrors
           e7 == e6 ++ MeErrors
           e8 == e7 ++ creation
           Auth == {"register", "login", "webLogin", "refresh", "webRefresh", "resetPassword", "setOrChangePassword"}
           Keys == {"createApiKey", "updateApiKey", "revokeApiKey"}
           Custom == {"createCustomRole", "updateCustomRole", "deleteCustomRole"}
           Members == {"attachMember", "replaceMembershipRoles"}
           Invites == {"inviteMember", "acceptInvitation"}
           Tenants == {"createTenant", "getTenant"}
<1>1. /\ DOMAIN AuthErrors = Auth /\ DOMAIN ApiKeysErrors = Keys /\ DOMAIN RolesErrors = Custom
      /\ DOMAIN MembersErrors = Members /\ DOMAIN InvitationsErrors = Invites
      /\ DOMAIN TenantsErrors = Tenants /\ DOMAIN MeErrors = {"getMe"} /\ DOMAIN creation = {"createUser"}
  BY DEF AuthErrors, ApiKeysErrors, RolesErrors, MembersErrors, InvitationsErrors, TenantsErrors, MeErrors
<1>2. /\ DOMAIN e2 = Auth \union Keys
      /\ \A r \in Auth : e2[r] = AuthErrors[r]
      /\ \A r \in Keys : e2[r] = ApiKeysErrors[r]
  <2>1. \A x \in DOMAIN AuthErrors : x \notin DOMAIN ApiKeysErrors
    BY <1>1
  <2>2. /\ DOMAIN e2 = DOMAIN AuthErrors \union DOMAIN ApiKeysErrors
        /\ \A x \in DOMAIN AuthErrors : e2[x] = AuthErrors[x]
        /\ \A x \in DOMAIN ApiKeysErrors : e2[x] = ApiKeysErrors[x]
    BY <2>1, Apart
  <2> HIDE DEF e2
  <2> QED
    BY <1>1, <2>2
<1> HIDE DEF e2
<1>3. /\ DOMAIN e3 = Auth \union Keys \union Custom
      /\ \A r \in Auth \union Keys : e3[r] = e2[r]
      /\ \A r \in Custom : e3[r] = RolesErrors[r]
  <2>1. \A x \in DOMAIN e2 : x \notin DOMAIN RolesErrors
    BY <1>1, <1>2
  <2>2. /\ DOMAIN e3 = DOMAIN e2 \union DOMAIN RolesErrors
        /\ \A x \in DOMAIN e2 : e3[x] = e2[x]
        /\ \A x \in DOMAIN RolesErrors : e3[x] = RolesErrors[x]
    BY <2>1, Apart
  <2> HIDE DEF e3
  <2> QED
    BY <1>1, <1>2, <2>2
<1> HIDE DEF e3
<1>4. /\ DOMAIN e4 = Auth \union Keys \union Custom \union Members
      /\ \A r \in Auth \union Keys \union Custom : e4[r] = e3[r]
      /\ \A r \in Members : e4[r] = MembersErrors[r]
  <2>1. \A x \in DOMAIN e3 : x \notin DOMAIN MembersErrors
    BY <1>1, <1>3
  <2>2. /\ DOMAIN e4 = DOMAIN e3 \union DOMAIN MembersErrors
        /\ \A x \in DOMAIN e3 : e4[x] = e3[x]
        /\ \A x \in DOMAIN MembersErrors : e4[x] = MembersErrors[x]
    BY <2>1, Apart
  <2> HIDE DEF e4
  <2> QED
    BY <1>1, <1>3, <2>2
<1> HIDE DEF e4
<1>5. /\ DOMAIN e5 = Auth \union Keys \union Custom \union Members \union Invites
      /\ \A r \in Auth \union Keys \union Custom \union Members : e5[r] = e4[r]
      /\ \A r \in Invites : e5[r] = InvitationsErrors[r]
  <2>1. \A x \in DOMAIN e4 : x \notin DOMAIN InvitationsErrors
    BY <1>1, <1>4
  <2>2. /\ DOMAIN e5 = DOMAIN e4 \union DOMAIN InvitationsErrors
        /\ \A x \in DOMAIN e4 : e5[x] = e4[x]
        /\ \A x \in DOMAIN InvitationsErrors : e5[x] = InvitationsErrors[x]
    BY <2>1, Apart
  <2> HIDE DEF e5
  <2> QED
    BY <1>1, <1>4, <2>2
<1> HIDE DEF e5
<1>6. /\ DOMAIN e6 = Auth \union Keys \union Custom \union Members \union Invites \union Tenants
      /\ \A r \in Auth \union Keys \union Custom \union Members \union Invites : e6[r] = e5[r]
      /\ \A r \in Tenants : e6[r] = TenantsErrors[r]
  <2>1. \A x \in DOMAIN e5 : x \notin DOMAIN TenantsErrors
    BY <1>1, <1>5
  <2>2. /\ DOMAIN e6 = DOMAIN e5 \union DOMAIN TenantsErrors
        /\ \A x \in DOMAIN e5 : e6[x] = e5[x]
        /\ \A x \in DOMAIN TenantsErrors : e6[x] = TenantsErrors[x]
    BY <2>1, Apart
  <2> HIDE DEF e6
  <2> QED
    BY <1>1, <1>5, <2>2
<1> HIDE DEF e6
<1>7. /\ DOMAIN e7 = Auth \union Keys \union Custom \union Members \union Invites \union Tenants \union {"getMe"}
      /\ \A r \in Auth \union Keys \union Custom \union Members \union Invites \union Tenants : e7[r] = e6[r]
      /\ e7["getMe"] = MeErrors["getMe"]
  <2>1. \A x \in DOMAIN e6 : x \notin DOMAIN MeErrors
    BY <1>1, <1>6
  <2>2. /\ DOMAIN e7 = DOMAIN e6 \union DOMAIN MeErrors
        /\ \A x \in DOMAIN e6 : e7[x] = e6[x]
        /\ \A x \in DOMAIN MeErrors : e7[x] = MeErrors[x]
    BY <2>1, Apart
  <2> HIDE DEF e7
  <2> QED
    BY <1>1, <1>6, <2>2
<1> HIDE DEF e7
<1>8. /\ DOMAIN e8 = DOMAIN e7 \union {"createUser"}
      /\ \A r \in DOMAIN e7 : e8[r] = e7[r]
      /\ e8["createUser"] = creation["createUser"]
  <2>1. \A x \in DOMAIN e7 : x \notin DOMAIN creation
    BY <1>1, <1>7
  <2>2. /\ DOMAIN e8 = DOMAIN e7 \union DOMAIN creation
        /\ \A x \in DOMAIN e7 : e8[x] = e7[x]
        /\ \A x \in DOMAIN creation : e8[x] = creation[x]
    BY <2>1, Apart
  <2> HIDE DEF e8
  <2> QED
    BY <1>1, <1>7, <2>2
<1> HIDE DEF e8
<1>9. /\ \A r \in DOMAIN e8 : Errors[r] = e8[r]
      /\ \A r \in DOMAIN Routes : r \notin DOMAIN e8 => Errors[r] = {}
  BY Before DEF Errors, e8, e7, e6, e5, e4, e3, e2
<1>10. creation["createUser"] = {"USER_EMAIL_TAKEN"}
  OBVIOUS
<1> HIDE DEF creation, rest
<1>11. \A r \in Auth \union Keys \union Custom \union Members \union Invites \union Tenants \union {"getMe"} :
          Errors[r] = e7[r]
  BY <1>7, <1>8, <1>9
<1>12. \A r \in Auth \union Keys \union Custom \union Members : Errors[r] = e4[r]
  BY <1>5, <1>6, <1>7, <1>11
<1> QED
  BY <1>1, <1>2, <1>3, <1>4, <1>5, <1>6, <1>7, <1>8, <1>9, <1>10, <1>11, <1>12

\* What ApiExceptionFilter makes of the codes.
LEMMA Statuses ==
  /\ StatusOf("RATE_LIMIT_EXCEEDED") = 429 /\ StatusOf("VALIDATION_ERROR") = 400
  /\ StatusOf("UNAUTHORIZED") = 401 /\ StatusOf("FORBIDDEN") = 403 /\ StatusOf("INSUFFICIENT_PERMISSION") = 403
  /\ StatusOf("IDEMPOTENCY_KEY_REQUIRED") = 400 /\ StatusOf("IDEMPOTENCY_IN_PROGRESS") = 409
  /\ StatusOf("IDEMPOTENCY_KEY_REUSED") = 409 /\ StatusOf("ACTIVE_MEMBERSHIP_REQUIRED") = 403
  /\ StatusOf(Mismatch) = 409 /\ StatusOf("USER_NOT_FOUND") = 404 /\ StatusOf("OWNER_USER_NOT_FOUND") = 404
  /\ StatusOf("USER_EMAIL_TAKEN") = 409 /\ StatusOf("INVALID_CREDENTIALS") = 401 /\ StatusOf("USER_SUSPENDED") = 403
  /\ StatusOf("INVALID_PASSWORD") = 400 /\ StatusOf("PASSWORD_ALREADY_SET") = 409
  /\ StatusOf("INVALID_REFRESH_TOKEN") = 401
  /\ StatusOf("INVALID_RESET_TOKEN") \in {400, 401}
  BY DEF StatusOf, CodedStatus, HttpStatus, Mismatch

LEMMA TenantStatuses ==
  /\ StatusOf("CANNOT_ASSIGN_OWNER_ROLE") = 403 /\ StatusOf("LAST_OWNER_REQUIRED") = 409
  /\ StatusOf("INVITATION_ALREADY_PENDING") = 409 /\ StatusOf("MEMBERSHIP_ALREADY_EXISTS") = 409
  /\ StatusOf("INVALID_INVITATION_TOKEN") = 400 /\ StatusOf("INVITATION_REGISTRATION_REQUIRED") = 400
  /\ StatusOf("MEMBERSHIP_NOT_FOUND") = 404 /\ StatusOf("TENANT_NOT_FOUND") = 404
  /\ StatusOf("ROLE_NOT_FOUND") = 404 /\ StatusOf("API_KEY_NOT_FOUND") = 404
  /\ StatusOf("API_KEY_ALREADY_REVOKED") = 409 /\ StatusOf("API_KEY_CANNOT_MANAGE_KEYS") = 400
  /\ StatusOf("ROLE_NAME_TAKEN") = 409 /\ StatusOf("ROLE_IN_USE") = 409
  /\ StatusOf("SYSTEM_ROLE_IMMUTABLE") = 403 /\ StatusOf("RESERVED_ROLE_NAME") = 409
  BY DEF StatusOf, CodedStatus, HttpStatus

\* The errors of the use cases of route r are among the documented ones, but for
\* two.
Fits(r, declared) ==
    \A code \in Errors[r] :
        /\ code \notin Failure
        /\ \/ StatusOf(code) \in declared
           \/ <<r, StatusOf(code)>> \in {<<"inviteMember", 404>>, <<"updateApiKey", 409>>}

\* The document of the route r, with the metadata v, covers what it may answer.
Documented(r, v) ==
    /\ v.access \in {"public", "user", "tenant"}
    /\ v.limited => 429 \in v.declared
    /\ v.access # "public" => 401 \in v.declared
    /\ v.access = "user" => v.userOnly
    /\ v.access = "tenant" \/ v.permission \/ v.tenant # "none" => 403 \in v.declared
    /\ v.permission => v.access = "tenant" /\ v.tenant = "path"
    /\ v.idempotent => {400, 409} \subseteq v.declared
    /\ r \in {"webRefresh", "webLogout", "getMe", "logout"} \/ 400 \in v.declared
    /\ v.tenant = "path" => v.foreign \notin Failure /\ StatusOf(v.foreign) \in {409} \union v.declared
    /\ v.ok \in Nat /\ Fits(r, v.declared)

LEMMA MergeDocumented ==
  ASSUME NEW f, NEW g, \A r \in DOMAIN f : Documented(r, f[r]), \A r \in DOMAIN g : Documented(r, g[r])
  PROVE  \A r \in DOMAIN (f ++ g) : Documented(r, (f ++ g)[r])
<1>1. DOMAIN (f ++ g) = DOMAIN f \union DOMAIN g
  BY DEF ++
<1>2. \A r \in DOMAIN (f ++ g) : (f ++ g)[r] = IF r \in DOMAIN f THEN f[r] ELSE g[r]
  BY DEF ++
<1> QED
  BY <1>1, <1>2

\* What two tables have together, the table of both has.
LEMMA TogetherNames ==
  ASSUME NEW f, NEW g
  PROVE  DOMAIN (f ++ g) = DOMAIN f \union DOMAIN g
  BY DEF ++

\* Where the routes that raise nothing come from.
LEMMA RouteNames ==
  /\ DOMAIN SessionRoutes \subseteq DOMAIN Routes /\ DOMAIN PasswordRoutes \subseteq DOMAIN Routes
  /\ DOMAIN ApiKeysRoutes \subseteq DOMAIN Routes /\ DOMAIN RolesRoutes \subseteq DOMAIN Routes
  /\ DOMAIN MembersRoutes \subseteq DOMAIN Routes
<1> DEFINE r2 == SessionRoutes ++ PasswordRoutes
           r3 == r2 ++ ApiKeysRoutes
           r4 == r3 ++ RolesRoutes
           r5 == r4 ++ MembersRoutes
           r6 == r5 ++ InvitationsRoutes
           r7 == r6 ++ TenantsRoutes
           r8 == r7 ++ UsersRoutes
           r9 == r8 ++ MeRoutes
<1>1. Routes = r9
  BY DEF Routes
<1>2. DOMAIN r9 = DOMAIN r8 \union DOMAIN MeRoutes
  BY TogetherNames
<1>3. DOMAIN r8 = DOMAIN r7 \union DOMAIN UsersRoutes
  BY TogetherNames
<1>4. DOMAIN r7 = DOMAIN r6 \union DOMAIN TenantsRoutes
  BY TogetherNames
<1>5. DOMAIN r6 = DOMAIN r5 \union DOMAIN InvitationsRoutes
  BY TogetherNames
<1>6. DOMAIN r5 = DOMAIN r4 \union DOMAIN MembersRoutes
  BY TogetherNames
<1>7. DOMAIN r4 = DOMAIN r3 \union DOMAIN RolesRoutes
  BY TogetherNames
<1>8. DOMAIN r3 = DOMAIN r2 \union DOMAIN ApiKeysRoutes
  BY TogetherNames
<1>9. DOMAIN r2 = DOMAIN SessionRoutes \union DOMAIN PasswordRoutes
  BY TogetherNames
<1> HIDE DEF r2, r3, r4, r5, r6, r7, r8, r9
<1> QED
  BY <1>1, <1>2, <1>3, <1>4, <1>5, <1>6, <1>7, <1>8, <1>9

LEMMA SessionsDocumented == \A r \in DOMAIN SessionRoutes : Documented(r, SessionRoutes[r])
<1>1. /\ DOMAIN SessionRoutes = {"register", "login", "webLogin", "refresh", "webRefresh", "logout", "webLogout"}
      /\ SessionRoutes["register"] = PublicRoute(TRUE, 201, {400, 409, 429})
      /\ \A r \in {"login", "webLogin"} : SessionRoutes[r] = PublicRoute(TRUE, 200, {400, 401, 403, 429})
      /\ SessionRoutes["refresh"] = PublicRoute(TRUE, 200, {400, 401, 429})
      /\ SessionRoutes["webRefresh"] = PublicRoute(TRUE, 200, {401, 429})
      /\ \A r \in {"logout", "webLogout"} : SessionRoutes[r] = PublicRoute(TRUE, 200, {429})
  BY DEF SessionRoutes
<1>2. /\ Errors["register"] = {"INVALID_PASSWORD", "USER_EMAIL_TAKEN"}
      /\ \A r \in {"login", "webLogin"} : Errors[r] = {"INVALID_CREDENTIALS", "USER_SUSPENDED"}
      /\ \A r \in {"refresh", "webRefresh"} : Errors[r] = {"INVALID_REFRESH_TOKEN"}
      /\ \A r \in {"logout", "webLogout"} : Errors[r] = {}
  BY <1>1, RouteNames, ErrorsOf DEF AuthErrors
<1>3. /\ Fits("register", {400, 409, 429}) /\ \A r \in {"login", "webLogin"} : Fits(r, {400, 401, 403, 429})
      /\ Fits("refresh", {400, 401, 429}) /\ Fits("webRefresh", {401, 429})
      /\ \A r \in {"logout", "webLogout"} : Fits(r, {429})
  BY <1>2, Statuses DEF Fits, Failure
<1> SUFFICES ASSUME NEW r \in DOMAIN SessionRoutes PROVE Documented(r, SessionRoutes[r])
  OBVIOUS
<1>4. CASE r = "register"
  BY <1>1, <1>3, <1>4 DEF Documented, PublicRoute
<1>5. CASE r \in {"login", "webLogin"}
  BY <1>1, <1>3, <1>5 DEF Documented, PublicRoute
<1>6. CASE r \in {"refresh", "webRefresh"}
  BY <1>1, <1>3, <1>6 DEF Documented, PublicRoute
<1>7. CASE r \in {"logout", "webLogout"}
  BY <1>1, <1>3, <1>7 DEF Documented, PublicRoute
<1> QED
  BY <1>1, <1>4, <1>5, <1>6, <1>7

LEMMA PasswordsDocumented == \A r \in DOMAIN PasswordRoutes : Documented(r, PasswordRoutes[r])
<1>1. /\ DOMAIN PasswordRoutes = {"selectTenant", "forgotPassword", "resetPassword", "setOrChangePassword"}
      /\ PasswordRoutes["selectTenant"] = UserRoute(FALSE, "body", 200, {400, 401, 403})
      /\ PasswordRoutes["forgotPassword"] = PublicRoute(TRUE, 200, {400, 429})
      /\ PasswordRoutes["resetPassword"] = PublicRoute(TRUE, 200, {400, 401, 429})
      /\ PasswordRoutes["setOrChangePassword"] = UserRoute(FALSE, "none", 200, {400, 401, 404, 409})
  BY DEF PasswordRoutes
<1>2. /\ \A r \in {"selectTenant", "forgotPassword"} : Errors[r] = {}
      /\ Errors["resetPassword"] = {"INVALID_PASSWORD", "INVALID_RESET_TOKEN"}
      /\ Errors["setOrChangePassword"] =
            {"INVALID_PASSWORD", "INVALID_CREDENTIALS", "USER_NOT_FOUND", "PASSWORD_ALREADY_SET"}
  BY <1>1, RouteNames, ErrorsOf DEF AuthErrors
<1>3. /\ Fits("selectTenant", {400, 401, 403}) /\ Fits("forgotPassword", {400, 429})
      /\ Fits("resetPassword", {400, 401, 429}) /\ Fits("setOrChangePassword", {400, 401, 404, 409})
  BY <1>2, Statuses DEF Fits, Failure
<1> SUFFICES ASSUME NEW r \in DOMAIN PasswordRoutes PROVE Documented(r, PasswordRoutes[r])
  OBVIOUS
<1>4. CASE r = "selectTenant"
  BY <1>1, <1>3, <1>4 DEF Documented, UserRoute
<1>5. CASE r \in {"forgotPassword", "resetPassword"}
  BY <1>1, <1>3, <1>5 DEF Documented, PublicRoute
<1>6. CASE r = "setOrChangePassword"
  BY <1>1, <1>3, <1>6 DEF Documented, UserRoute
<1> QED
  BY <1>1, <1>4, <1>5, <1>6

LEMMA KeysDocumented == \A r \in DOMAIN ApiKeysRoutes : Documented(r, ApiKeysRoutes[r])
<1>1. /\ DOMAIN ApiKeysRoutes = {"createApiKey", "listApiKeys", "updateApiKey", "revokeApiKey"}
      /\ ApiKeysRoutes["createApiKey"] = TenantRoute(TRUE, TRUE, Mismatch, 201, {400, 401, 403, 409, 429})
      /\ ApiKeysRoutes["listApiKeys"] = TenantRoute(TRUE, FALSE, Mismatch, 200, {400, 401, 403, 429})
      /\ ApiKeysRoutes["updateApiKey"] = TenantRoute(FALSE, FALSE, "API_KEY_NOT_FOUND", 200, {400, 401, 403, 404})
      /\ ApiKeysRoutes["revokeApiKey"] =
            TenantRoute(TRUE, FALSE, "API_KEY_NOT_FOUND", 204, {400, 401, 403, 404, 409, 429})
  BY DEF ApiKeysRoutes
<1>2. /\ Errors["createApiKey"] = {"INSUFFICIENT_PERMISSION", "API_KEY_CANNOT_MANAGE_KEYS"}
      /\ Errors["listApiKeys"] = {}
      /\ Errors["updateApiKey"] =
            {"INSUFFICIENT_PERMISSION", "API_KEY_NOT_FOUND", "API_KEY_ALREADY_REVOKED", "API_KEY_CANNOT_MANAGE_KEYS"}
      /\ Errors["revokeApiKey"] = {"API_KEY_NOT_FOUND", "API_KEY_ALREADY_REVOKED"}
  BY <1>1, RouteNames, ErrorsOf DEF ApiKeysErrors
<1>3. /\ Fits("createApiKey", {400, 401, 403, 409, 429}) /\ Fits("listApiKeys", {400, 401, 403, 429})
      /\ Fits("updateApiKey", {400, 401, 403, 404}) /\ Fits("revokeApiKey", {400, 401, 403, 404, 409, 429})
  BY <1>2, Statuses, TenantStatuses DEF Fits, Failure
<1> SUFFICES ASSUME NEW r \in DOMAIN ApiKeysRoutes PROVE Documented(r, ApiKeysRoutes[r])
  OBVIOUS
<1>4. CASE r \in {"createApiKey", "listApiKeys"}
  BY <1>1, <1>3, <1>4, Statuses DEF Documented, TenantRoute, Failure, Mismatch
<1>5. CASE r \in {"updateApiKey", "revokeApiKey"}
  BY <1>1, <1>3, <1>5, TenantStatuses DEF Documented, TenantRoute, Failure
<1> QED
  BY <1>1, <1>4, <1>5

LEMMA RolesDocumented == \A r \in DOMAIN RolesRoutes : Documented(r, RolesRoutes[r])
<1>1. /\ DOMAIN RolesRoutes = {"listRoles", "createCustomRole", "updateCustomRole", "deleteCustomRole"}
      /\ RolesRoutes["listRoles"] = TenantRoute(FALSE, FALSE, Mismatch, 200, {400, 401, 403})
      /\ RolesRoutes["createCustomRole"] = TenantRoute(FALSE, TRUE, Mismatch, 201, {400, 401, 403, 409})
      /\ RolesRoutes["updateCustomRole"] = TenantRoute(FALSE, FALSE, "ROLE_NOT_FOUND", 200, {400, 401, 403, 404, 409})
      /\ RolesRoutes["deleteCustomRole"] = TenantRoute(FALSE, FALSE, "ROLE_NOT_FOUND", 204, {400, 401, 403, 404, 409})
  BY DEF RolesRoutes
<1>2. /\ Errors["listRoles"] = {} /\ Errors["createCustomRole"] = {"ROLE_NAME_TAKEN", "RESERVED_ROLE_NAME"}
      /\ Errors["updateCustomRole"] =
            {"ROLE_NOT_FOUND", "ROLE_NAME_TAKEN", "RESERVED_ROLE_NAME", "SYSTEM_ROLE_IMMUTABLE"}
      /\ Errors["deleteCustomRole"] = {"ROLE_NOT_FOUND", "SYSTEM_ROLE_IMMUTABLE", "ROLE_IN_USE"}
  BY <1>1, RouteNames, ErrorsOf DEF RolesErrors
<1>3. /\ Fits("listRoles", {400, 401, 403}) /\ Fits("createCustomRole", {400, 401, 403, 409})
      /\ Fits("updateCustomRole", {400, 401, 403, 404, 409}) /\ Fits("deleteCustomRole", {400, 401, 403, 404, 409})
  BY <1>2, TenantStatuses DEF Fits, Failure
<1> SUFFICES ASSUME NEW r \in DOMAIN RolesRoutes PROVE Documented(r, RolesRoutes[r])
  OBVIOUS
<1>4. CASE r \in {"listRoles", "createCustomRole"}
  BY <1>1, <1>3, <1>4, Statuses DEF Documented, TenantRoute, Failure, Mismatch
<1>5. CASE r \in {"updateCustomRole", "deleteCustomRole"}
  BY <1>1, <1>3, <1>5, TenantStatuses DEF Documented, TenantRoute, Failure
<1> QED
  BY <1>1, <1>4, <1>5

LEMMA MembersDocumented == \A r \in DOMAIN MembersRoutes : Documented(r, MembersRoutes[r])
<1>1. /\ DOMAIN MembersRoutes = {"listTenantMembers", "attachMember", "replaceMembershipRoles"}
      /\ MembersRoutes["listTenantMembers"] = TenantRoute(FALSE, FALSE, Mismatch, 200, {400, 401, 403})
      /\ MembersRoutes["attachMember"] = TenantRoute(FALSE, TRUE, Mismatch, 201, {400, 401, 403, 404, 409})
      /\ MembersRoutes["replaceMembershipRoles"] =
            TenantRoute(FALSE, FALSE, "MEMBERSHIP_NOT_FOUND", 200, {400, 401, 403, 404, 409})
  BY DEF MembersRoutes
<1>2. /\ Errors["listTenantMembers"] = {}
      /\ Errors["attachMember"] =
            {"USER_NOT_FOUND", "MEMBERSHIP_ALREADY_EXISTS", "CANNOT_ASSIGN_OWNER_ROLE", "ROLE_NOT_FOUND"}
      /\ Errors["replaceMembershipRoles"] =
            {"MEMBERSHIP_NOT_FOUND", "CANNOT_ASSIGN_OWNER_ROLE", "ROLE_NOT_FOUND", "LAST_OWNER_REQUIRED"}
  BY <1>1, RouteNames, ErrorsOf DEF MembersErrors
<1>3. /\ Fits("listTenantMembers", {400, 401, 403}) /\ Fits("attachMember", {400, 401, 403, 404, 409})
      /\ Fits("replaceMembershipRoles", {400, 401, 403, 404, 409})
  BY <1>2, Statuses, TenantStatuses DEF Fits, Failure
<1> SUFFICES ASSUME NEW r \in DOMAIN MembersRoutes PROVE Documented(r, MembersRoutes[r])
  OBVIOUS
<1>4. CASE r \in {"listTenantMembers", "attachMember"}
  BY <1>1, <1>3, <1>4, Statuses DEF Documented, TenantRoute, Failure, Mismatch
<1>5. CASE r = "replaceMembershipRoles"
  BY <1>1, <1>3, <1>5, TenantStatuses DEF Documented, TenantRoute, Failure
<1> QED
  BY <1>1, <1>4, <1>5

LEMMA InvitationsDocumented == \A r \in DOMAIN InvitationsRoutes : Documented(r, InvitationsRoutes[r])
<1>1. /\ DOMAIN InvitationsRoutes = {"inviteMember", "acceptInvitation"}
      /\ InvitationsRoutes["inviteMember"] = TenantRoute(FALSE, TRUE, Mismatch, 201, {400, 401, 403, 409})
      /\ InvitationsRoutes["acceptInvitation"] = PublicRoute(FALSE, 201, {400, 409})
  BY DEF InvitationsRoutes
<1>2. /\ Errors["inviteMember"] =
            {"CANNOT_ASSIGN_OWNER_ROLE", "ROLE_NOT_FOUND", "MEMBERSHIP_ALREADY_EXISTS", "INVITATION_ALREADY_PENDING"}
      /\ Errors["acceptInvitation"] =
            {"INVALID_INVITATION_TOKEN", "INVITATION_REGISTRATION_REQUIRED", "INVALID_PASSWORD",
             "MEMBERSHIP_ALREADY_EXISTS"}
  BY ErrorsOf DEF InvitationsErrors
<1>3. Fits("inviteMember", {400, 401, 403, 409}) /\ Fits("acceptInvitation", {400, 409})
  BY <1>2, Statuses, TenantStatuses DEF Fits, Failure
<1> SUFFICES ASSUME NEW r \in DOMAIN InvitationsRoutes PROVE Documented(r, InvitationsRoutes[r])
  OBVIOUS
<1>4. CASE r = "inviteMember"
  BY <1>1, <1>3, <1>4, Statuses DEF Documented, TenantRoute, Failure, Mismatch
<1>5. CASE r = "acceptInvitation"
  BY <1>1, <1>3, <1>5 DEF Documented, PublicRoute
<1> QED
  BY <1>1, <1>4, <1>5

LEMMA OthersDocumented ==
  /\ \A r \in DOMAIN TenantsRoutes : Documented(r, TenantsRoutes[r])
  /\ \A r \in DOMAIN UsersRoutes : Documented(r, UsersRoutes[r])
  /\ \A r \in DOMAIN MeRoutes : Documented(r, MeRoutes[r])
<1>1. /\ DOMAIN TenantsRoutes = {"createTenant", "getTenant"}
      /\ TenantsRoutes["createTenant"] = UserRoute(TRUE, "none", 201, {400, 401, 404, 409})
      /\ TenantsRoutes["getTenant"] = TenantRoute(FALSE, FALSE, "TENANT_NOT_FOUND", 200, {400, 401, 403, 404})
      /\ DOMAIN UsersRoutes = {"createUser"} /\ UsersRoutes["createUser"] = PublicRoute(FALSE, 201, {400, 409})
      /\ DOMAIN MeRoutes = {"getMe"}
      /\ MeRoutes["getMe"] = [UserRoute(FALSE, "none", 200, {401, 403, 404}) EXCEPT !.access = "tenant"]
  BY DEF TenantsRoutes, UsersRoutes, MeRoutes
<1>2. /\ Errors["createTenant"] = {"OWNER_USER_NOT_FOUND"} /\ Errors["getTenant"] = {"TENANT_NOT_FOUND"}
      /\ Errors["createUser"] = {"USER_EMAIL_TAKEN"} /\ Errors["getMe"] = {"USER_NOT_FOUND"}
  BY ErrorsOf DEF TenantsErrors, MeErrors
<1>3. /\ Fits("createTenant", {400, 401, 404, 409}) /\ Fits("getTenant", {400, 401, 403, 404})
      /\ Fits("createUser", {400, 409}) /\ Fits("getMe", {401, 403, 404})
  BY <1>2, Statuses, TenantStatuses DEF Fits, Failure
<1>4. Documented("createTenant", TenantsRoutes["createTenant"])
  BY <1>1, <1>3 DEF Documented, UserRoute
<1>5. Documented("getTenant", TenantsRoutes["getTenant"])
  BY <1>1, <1>3, TenantStatuses DEF Documented, TenantRoute, Failure
<1>6. Documented("createUser", UsersRoutes["createUser"])
  BY <1>1, <1>3 DEF Documented, PublicRoute
<1>7. Documented("getMe", MeRoutes["getMe"])
  BY <1>1, <1>3 DEF Documented, UserRoute
<1>8. ASSUME NEW r \in DOMAIN TenantsRoutes PROVE Documented(r, TenantsRoutes[r])
  <2>1. CASE r = "createTenant"
    BY <1>4, <2>1
  <2>2. CASE r = "getTenant"
    BY <1>5, <2>2
  <2> QED
    BY <1>1, <2>1, <2>2
<1>9. ASSUME NEW r \in DOMAIN UsersRoutes PROVE Documented(r, UsersRoutes[r])
  <2>1. r = "createUser"
    BY <1>1
  <2> QED
    BY <1>6, <2>1
<1>10. ASSUME NEW r \in DOMAIN MeRoutes PROVE Documented(r, MeRoutes[r])
  <2>1. r = "getMe"
    BY <1>1
  <2> QED
    BY <1>7, <2>1
<1> QED
  BY <1>8, <1>9, <1>10

\* Every route.
LEMMA RoutesDocumented == \A r \in DOMAIN Routes : Documented(r, Routes[r])
<1> DEFINE r2 == SessionRoutes ++ PasswordRoutes
           r3 == r2 ++ ApiKeysRoutes
           r4 == r3 ++ RolesRoutes
           r5 == r4 ++ MembersRoutes
           r6 == r5 ++ InvitationsRoutes
           r7 == r6 ++ TenantsRoutes
           r8 == r7 ++ UsersRoutes
           r9 == r8 ++ MeRoutes
<1>1. \A r \in DOMAIN r2 : Documented(r, r2[r])
  BY MergeDocumented, SessionsDocumented, PasswordsDocumented
<1> HIDE DEF r2
<1>2. \A r \in DOMAIN r3 : Documented(r, r3[r])
  BY <1>1, MergeDocumented, KeysDocumented
<1> HIDE DEF r3
<1>3. \A r \in DOMAIN r4 : Documented(r, r4[r])
  BY <1>2, MergeDocumented, RolesDocumented
<1> HIDE DEF r4
<1>4. \A r \in DOMAIN r5 : Documented(r, r5[r])
  BY <1>3, MergeDocumented, MembersDocumented
<1> HIDE DEF r5
<1>5. \A r \in DOMAIN r6 : Documented(r, r6[r])
  BY <1>4, MergeDocumented, InvitationsDocumented
<1> HIDE DEF r6
<1>6. \A r \in DOMAIN r7 : Documented(r, r7[r])
  BY <1>5, MergeDocumented, OthersDocumented
<1> HIDE DEF r7
<1>7. \A r \in DOMAIN r8 : Documented(r, r8[r])
  BY <1>6, MergeDocumented, OthersDocumented
<1> HIDE DEF r8
<1>8. \A r \in DOMAIN r9 : Documented(r, r9[r])
  BY <1>7, MergeDocumented, OthersDocumented
<1>9. Routes = r9
  BY DEF Routes, r9, r8, r7, r6, r5, r4, r3, r2
<1> QED
  BY <1>8, <1>9

-----------------------------------------------------------------------------
\* The pipeline looks things up in the same tables, whatever its instance.
LEMMA SameRoutes ==
  ASSUME NEW i
  PROVE  Edge(i)!Routes = Routes /\ Edge(i)!Errors = Errors
<1>1. \A f, g : (f ++ g) = Edge(i)!++(f, g)
  BY DEF ++, Edge!++
<1>2. Edge(i)!Mismatch = Mismatch
  BY DEF Edge!Mismatch, Mismatch
<1>3. \A l, o, d : Edge(i)!PublicRoute(l, o, d) = PublicRoute(l, o, d)
  BY DEF Edge!PublicRoute, PublicRoute
<1>4. \A m, t, o, d : Edge(i)!UserRoute(m, t, o, d) = UserRoute(m, t, o, d)
  BY DEF Edge!UserRoute, UserRoute
<1>5. \A l, m, f, o, d : Edge(i)!TenantRoute(l, m, f, o, d) = TenantRoute(l, m, f, o, d)
  BY DEF Edge!TenantRoute, TenantRoute
<1>a. Edge(i)!SessionRoutes = SessionRoutes
  BY DEF Edge!SessionRoutes, SessionRoutes, Edge!PublicRoute, PublicRoute, Edge!UserRoute, UserRoute, Edge!TenantRoute, TenantRoute, Edge!Mismatch, Mismatch
<1>b. Edge(i)!PasswordRoutes = PasswordRoutes
  BY DEF Edge!PasswordRoutes, PasswordRoutes, Edge!PublicRoute, PublicRoute, Edge!UserRoute, UserRoute, Edge!TenantRoute, TenantRoute, Edge!Mismatch, Mismatch
<1>c. Edge(i)!ApiKeysRoutes = ApiKeysRoutes
  BY DEF Edge!ApiKeysRoutes, ApiKeysRoutes, Edge!PublicRoute, PublicRoute, Edge!UserRoute, UserRoute, Edge!TenantRoute, TenantRoute, Edge!Mismatch, Mismatch
<1>d. Edge(i)!RolesRoutes = RolesRoutes
  BY DEF Edge!RolesRoutes, RolesRoutes, Edge!PublicRoute, PublicRoute, Edge!UserRoute, UserRoute, Edge!TenantRoute, TenantRoute, Edge!Mismatch, Mismatch
<1>e. Edge(i)!MembersRoutes = MembersRoutes
  BY DEF Edge!MembersRoutes, MembersRoutes, Edge!PublicRoute, PublicRoute, Edge!UserRoute, UserRoute, Edge!TenantRoute, TenantRoute, Edge!Mismatch, Mismatch
<1>f. Edge(i)!InvitationsRoutes = InvitationsRoutes
  BY DEF Edge!InvitationsRoutes, InvitationsRoutes, Edge!PublicRoute, PublicRoute, Edge!UserRoute, UserRoute, Edge!TenantRoute, TenantRoute, Edge!Mismatch, Mismatch
<1>g. Edge(i)!TenantsRoutes = TenantsRoutes
  BY DEF Edge!TenantsRoutes, TenantsRoutes, Edge!PublicRoute, PublicRoute, Edge!UserRoute, UserRoute, Edge!TenantRoute, TenantRoute, Edge!Mismatch, Mismatch
<1>h. Edge(i)!UsersRoutes = UsersRoutes
  BY DEF Edge!UsersRoutes, UsersRoutes, Edge!PublicRoute, PublicRoute, Edge!UserRoute, UserRoute, Edge!TenantRoute, TenantRoute, Edge!Mismatch, Mismatch
<1>i. Edge(i)!MeRoutes = MeRoutes
  BY DEF Edge!MeRoutes, MeRoutes, Edge!PublicRoute, PublicRoute, Edge!UserRoute, UserRoute, Edge!TenantRoute, TenantRoute, Edge!Mismatch, Mismatch
<1>7. Edge(i)!Routes = Routes
  BY <1>1, <1>a, <1>b, <1>c, <1>d, <1>e, <1>f, <1>g, <1>h, <1>i DEF Edge!Routes, Routes
<1>8. /\ Edge(i)!AuthErrors = AuthErrors /\ Edge(i)!ApiKeysErrors = ApiKeysErrors /\ Edge(i)!RolesErrors = RolesErrors /\ Edge(i)!MembersErrors = MembersErrors
      /\ Edge(i)!InvitationsErrors = InvitationsErrors /\ Edge(i)!TenantsErrors = TenantsErrors /\ Edge(i)!MeErrors = MeErrors
  BY DEF Edge!AuthErrors, Edge!ApiKeysErrors, Edge!RolesErrors, Edge!MembersErrors,
         Edge!InvitationsErrors, Edge!TenantsErrors, Edge!MeErrors,
         AuthErrors, ApiKeysErrors, RolesErrors, MembersErrors, InvitationsErrors, TenantsErrors, MeErrors
<1>9. Edge(i)!Errors = Errors
  BY <1>1, <1>7, <1>8 DEF Edge!Errors, Errors
<1> QED
  BY <1>7, <1>9

\* The same of the order of the interceptors and the filter's answers.
LEMMA SameOrder ==
  ASSUME NEW i
  PROVE  /\ Edge(i)!Stages = <<"limit", "principal", "permission", "claim", "validate", "invoke">>
         /\ Edge(i)!Answered = 7 /\ Edge(i)!Failure = Failure /\ Edge(i)!Mismatch = Mismatch
         /\ \A code : Edge(i)!StatusOf(code) = StatusOf(code)
<1>1. \A code : Edge(i)!StatusOf(code) = StatusOf(code)
  BY DEF Edge!StatusOf, StatusOf, Edge!CodedStatus, CodedStatus, Edge!HttpStatus, HttpStatus
<1>2. Edge(i)!Stages = <<"limit", "principal", "permission", "claim", "validate", "invoke">>
  BY DEF Edge!Stages
<1>3. Edge(i)!Answered = 7
  BY <1>2 DEF Edge!Answered
<1> QED
  BY <1>1, <1>2, <1>3 DEF Edge!Failure, Failure, Edge!Mismatch, Mismatch

(* The pipeline of ApiEdge: a request at some stage has passed those before  *)
(* it, so what their interceptors decided is still known of it.              *)
Asked ==
    [pc : 0 .. 7, route : DOMAIN Routes \union {"none"}, actor : {"none", "invalid", "user", "apiKey"},
     tenant : Tenant \union {NoTenant}, target : Tenant \union {NoTenant}, status : Nat, claimed : BOOLEAN,
     held : BOOLEAN, failed : BOOLEAN, effect : BOOLEAN, replayed : BOOLEAN]

KeyOf(q) == <<q.route, IF q.tenant = NoTenant THEN q.actor ELSE q.tenant>>

\* The principal stands for a caller, and its right was there once it was needed.
Admitted(q, g, m) ==
    /\ <<q.actor, q.tenant>> \in g => q.held
    /\ q.pc \in 3 .. 6 /\ Routes[q.route].access # "public" =>
          q.actor = "apiKey" \/ (q.actor = "user" /\ q.tenant \in m \union {NoTenant})
    /\ q.pc \in 4 .. 6 /\ Routes[q.route].permission => q.held

\* A claim is open from its interceptor to the answer, and no row answers it.
Claiming(q, st) ==
    /\ q.claimed => q.pc \in {5, 6} /\ Routes[q.route].idempotent /\ KeyOf(q) \notin st
    /\ q.pc \in {5, 6} /\ Routes[q.route].idempotent => q.claimed

\* What may be said of an answer.
Deserved(q, m) ==
    /\ q.effect \/ q.replayed => q.pc = 7
    /\ q.effect /\ Routes[q.route].access # "public" =>
          /\ q.actor \in {"user", "apiKey"}
          /\ Routes[q.route].userOnly => q.actor = "user"
          /\ q.actor = "user" => q.tenant \in m \union {NoTenant}
          /\ Routes[q.route].permission => q.held /\ q.target = q.tenant
    /\ q.replayed /\ Routes[q.route].permission => q.held

Expected(q, m) ==
    \/ q.status \in Routes[q.route].declared \union {Routes[q.route].ok}
    \/ q.failed
    \/ q.status = 409 /\ Routes[q.route].tenant # "none" /\ q.target # q.tenant
    \/ q.status = 403 /\ Routes[q.route].userOnly /\ (q.actor = "apiKey" \/ q.tenant \notin m)
    \/ <<q.route, q.status>> \in {<<"logout", 400>>, <<"inviteMember", 404>>, <<"updateApiKey", 409>>}

Sound(i, q, g, m, st) ==
    /\ q.pc # 0 => q.route \in i.routes
    /\ Admitted(q, g, m) /\ Claiming(q, st) /\ Deserved(q, m)
    /\ q.pc = 7 => Expected(q, m)

OneClaim(req) ==
    \A s, o \in Slot : s # o /\ req[s].claimed /\ req[o].claimed => KeyOf(req[s]) # KeyOf(req[o])

PipelineInv(i) ==
    /\ request \in [Slot -> Asked]
    /\ granted \subseteq {"user", "apiKey"} \X Tenant
    /\ \A s \in Slot : Sound(i, request[s], granted, members, stored)
    /\ OneClaim(request)
    /\ requests \in 0 .. i.requests /\ changes \in 0 .. i.changes /\ faults \in 0 .. i.faults

\* The invariant says what the run checks.
LEMMA PipelineInvSuffices ==
  ASSUME NEW i, PipelineInv(i)
  PROVE  Edge(i)!TypeOK /\ Edge(i)!EffectNeedsRight /\ Edge(i)!ReplayNeedsRight /\ Edge(i)!UndeclaredHasReason
<1>1. \A s \in Slot : request[s] \in Asked /\ Sound(i, request[s], granted, members, stored)
  BY DEF PipelineInv
<1>2. Edge(i)!Routes = Routes /\ DOMAIN Edge(i)!Stages = 1 .. 6 /\ Edge(i)!Answered = 7
  BY SameRoutes, SameOrder
<1>3. Edge(i)!TypeOK
  <2>1. \A s \in Slot : request[s].pc \in 0 .. 7 /\ (request[s].pc # 0 => request[s].route \in i.routes)
    BY <1>1 DEF Asked, Sound
  <2>2. \A s \in Slot : Edge(i)!Scope(s) = KeyOf(request[s])
    BY DEF Edge!Scope, KeyOf
  <2>3. \A s \in Slot : request[s].claimed => request[s].pc \in 1 .. 6 /\ KeyOf(request[s]) \notin stored
    BY <1>1 DEF Sound, Claiming
  <2> QED
    BY <1>2, <2>1, <2>2, <2>3 DEF Edge!TypeOK, PipelineInv
<1>4. Edge(i)!EffectNeedsRight
  BY <1>1, <1>2 DEF Edge!EffectNeedsRight, Edge!R, Sound, Deserved
<1>5. Edge(i)!ReplayNeedsRight
  BY <1>1, <1>2 DEF Edge!ReplayNeedsRight, Edge!R, Sound, Deserved
<1>6. Edge(i)!UndeclaredHasReason
  BY <1>1, <1>2 DEF Edge!UndeclaredHasReason, Edge!R, Sound, Expected
<1> QED
  BY <1>3, <1>4, <1>5, <1>6

\* At first there is no request.
LEMMA InitPipelineInv ==
  ASSUME NEW i, Edge(i)!EdgeAssumption, Edge(i)!Init
  PROVE  PipelineInv(i)
<1> DEFINE q == Edge(i)!Idle
<1>1. q = [pc |-> 0, route |-> "none", actor |-> "none", tenant |-> NoTenant, target |-> NoTenant, status |-> 0,
           claimed |-> FALSE, held |-> FALSE, failed |-> FALSE, effect |-> FALSE, replayed |-> FALSE]
  BY DEF Edge!Idle
<1>2. request = [s \in Slot |-> q] /\ granted \subseteq {"user", "apiKey"} \X Tenant
  BY DEF Edge!Init
<1>3. q \in Asked
  BY <1>1 DEF Asked
<1>4. <<q.actor, q.tenant>> \notin granted
  BY <1>1, <1>2
<1>5. Sound(i, q, granted, members, stored)
  BY <1>1, <1>4 DEF Sound, Admitted, Claiming, Deserved
<1>6. ~q.claimed
  BY <1>1
<1>7. requests \in 0 .. i.requests /\ changes \in 0 .. i.changes /\ faults \in 0 .. i.faults
  BY DEF Edge!Init, Edge!EdgeAssumption
<1> HIDE DEF q
<1> QED
  BY <1>2, <1>3, <1>5, <1>6, <1>7 DEF PipelineInv, OneClaim

\* One request moves on; a row may appear for what it had claimed.
LEMMA RequestKeeps ==
  ASSUME NEW i, PipelineInv(i), NEW s \in Slot, NEW q \in Asked, NEW st,
         request' = [request EXCEPT ![s] = q], granted' = granted, members' = members,
         stored' = st, st \in {stored, stored \union {KeyOf(request[s])}},
         st = stored \/ request[s].claimed,
         Sound(i, q, granted, members, st),
         q.claimed => \A o \in Slot \ {s} : request[o].claimed => KeyOf(request[o]) # KeyOf(q),
         requests' \in 0 .. i.requests, changes' \in 0 .. i.changes, faults' \in 0 .. i.faults
  PROVE  PipelineInv(i)'
<1>1. request' \in [Slot -> Asked] /\ request'[s] = q /\ \A o \in Slot \ {s} : request'[o] = request[o]
  BY DEF PipelineInv
<1>2. \A o \in Slot \ {s} : Sound(i, request[o], granted, members, st)
  BY DEF PipelineInv, OneClaim, Sound, Claiming
<1>3. OneClaim(request')
  BY <1>1 DEF PipelineInv, OneClaim
<1>4. \A o \in Slot : Sound(i, request'[o], granted', members', stored')
  BY <1>1, <1>2
<1> QED
  BY <1>1, <1>3, <1>4 DEF PipelineInv

LEMMA StatusesAreNumbers == \A code : StatusOf(code) \in Nat
<1>1. \A code \in DOMAIN HttpStatus : HttpStatus[code] \in Nat
  BY DEF HttpStatus
<1>2. \A code \in DOMAIN CodedStatus : CodedStatus[code] \in Nat
  BY DEF CodedStatus
<1> QED
  BY <1>1, <1>2 DEF StatusOf

\* The codes a request may be refused with.
Excused(q, code, m) ==
    LET v == Routes[q.route] IN
    \/ code \in Failure
    \/ StatusOf(code) \in v.declared
    \/ StatusOf(code) = 409 /\ v.tenant # "none" /\ q.target # q.tenant
    \/ StatusOf(code) = 403 /\ v.userOnly /\ (q.actor = "apiKey" \/ q.tenant \notin m)
    \/ <<q.route, StatusOf(code)>> \in {<<"logout", 400>>, <<"inviteMember", 404>>, <<"updateApiKey", 409>>}

\* A request stays one when a field of it changes.
LEMMA AskedChanges ==
  /\ \A q \in Asked, p \in 0 .. 7 : [q EXCEPT !.pc = p] \in Asked
  /\ \A q \in Asked, n \in Nat : [q EXCEPT !.status = n] \in Asked
  /\ \A q \in Asked, b \in BOOLEAN : [q EXCEPT !.claimed = b] \in Asked
  /\ \A q \in Asked, b \in BOOLEAN : [q EXCEPT !.failed = b] \in Asked
  /\ \A q \in Asked, b \in BOOLEAN : [q EXCEPT !.held = b] \in Asked
  /\ \A q \in Asked, b \in BOOLEAN : [q EXCEPT !.effect = b] \in Asked
  /\ \A q \in Asked, b \in BOOLEAN : [q EXCEPT !.replayed = b] \in Asked
  /\ \A q \in Asked, r \in DOMAIN Routes : [q EXCEPT !.route = r] \in Asked
  /\ \A q \in Asked, a \in {"none", "invalid", "user", "apiKey"} : [q EXCEPT !.actor = a] \in Asked
  /\ \A q \in Asked, t \in Tenant \union {NoTenant} : [q EXCEPT !.tenant = t] \in Asked
  /\ \A q \in Asked, t \in Tenant \union {NoTenant} : [q EXCEPT !.target = t] \in Asked
<1>1. \A q \in Asked, p \in 0 .. 7 : [q EXCEPT !.pc = p] \in Asked
  BY DEF Asked
<1>2. \A q \in Asked, n \in Nat : [q EXCEPT !.status = n] \in Asked
  BY DEF Asked
<1>3. \A q \in Asked, b \in BOOLEAN : [q EXCEPT !.claimed = b] \in Asked
  BY DEF Asked
<1>4. \A q \in Asked, b \in BOOLEAN : [q EXCEPT !.failed = b] \in Asked
  BY DEF Asked
<1>5. \A q \in Asked, b \in BOOLEAN : [q EXCEPT !.held = b] \in Asked
  BY DEF Asked
<1>6. \A q \in Asked, b \in BOOLEAN : [q EXCEPT !.effect = b] \in Asked
  BY DEF Asked
<1>7. \A q \in Asked, b \in BOOLEAN : [q EXCEPT !.replayed = b] \in Asked
  BY DEF Asked
<1>8. \A q \in Asked, r \in DOMAIN Routes : [q EXCEPT !.route = r] \in Asked
  BY DEF Asked
<1>9. \A q \in Asked, a \in {"none", "invalid", "user", "apiKey"} : [q EXCEPT !.actor = a] \in Asked
  BY DEF Asked
<1>10. \A q \in Asked, t \in Tenant \union {NoTenant} : [q EXCEPT !.tenant = t] \in Asked
  BY DEF Asked
<1>11. \A q \in Asked, t \in Tenant \union {NoTenant} : [q EXCEPT !.target = t] \in Asked
  BY DEF Asked
<1> QED
  BY <1>1, <1>2, <1>3, <1>4, <1>5, <1>6, <1>7, <1>8, <1>9, <1>10, <1>11

\* An exception gives the claim up and becomes an answer.
LEMMA RefuseKeeps ==
  ASSUME NEW i, PipelineInv(i), NEW s \in Slot, NEW code, request[s].pc \in 1 .. 6,
         Edge(i)!Refuse(s, code), Excused(request[s], code, members),
         granted' = granted, members' = members, stored' = stored,
         requests' \in 0 .. i.requests, changes' \in 0 .. i.changes, faults' \in 0 .. i.faults
  PROVE  PipelineInv(i)'
<1> DEFINE o == request[s]
           f == code \in Failure
           q == [[[[o EXCEPT !.pc = 7] EXCEPT !.status = StatusOf(code)] EXCEPT !.claimed = FALSE] EXCEPT !.failed = f]
<1>0. f \in BOOLEAN /\ f = (code \in Edge(i)!Failure) /\ (f <=> code \in Failure)
  BY SameOrder
<1> HIDE DEF f
<1>1. o \in Asked /\ Sound(i, o, granted, members, stored) /\ request \in [Slot -> Asked]
  BY DEF PipelineInv
<1>2. request' = [request EXCEPT ![s] = q]
  <2>1. request' = [request EXCEPT ![s].pc = 7, ![s].status = StatusOf(code), ![s].claimed = FALSE, ![s].failed = f]
    BY SameOrder, <1>0 DEF Edge!Refuse
  <2> QED
    BY <1>1, <2>1 DEF Asked
<1>3. /\ q \in Asked /\ q.pc = 7 /\ q.status = StatusOf(code) /\ q.claimed = FALSE /\ q.failed = f
      /\ q.route = o.route /\ q.actor = o.actor /\ q.tenant = o.tenant /\ q.target = o.target /\ q.held = o.held
      /\ q.effect = o.effect /\ q.replayed = o.replayed
  <2>1. f \in BOOLEAN /\ StatusOf(code) \in Nat /\ o \in Asked /\ 7 \in 0 .. 7
    BY <1>0, <1>1, StatusesAreNumbers
  <2> HIDE DEF o
  <2> DEFINE q1 == [o EXCEPT !.pc = 7]
             q2 == [q1 EXCEPT !.status = StatusOf(code)]
             q3 == [q2 EXCEPT !.claimed = FALSE]
  <2>2. q1 \in Asked
    BY <2>1, AskedChanges
  <2>3. q1 \in Asked => q2 \in Asked
    <3> HIDE DEF q1
    <3> QED
      BY <2>1, AskedChanges
  <2>4. q2 \in Asked => q3 \in Asked
    <3> HIDE DEF q2
    <3> QED
      BY AskedChanges
  <2>5. q3 \in Asked => [q3 EXCEPT !.failed = f] \in Asked
    <3> HIDE DEF q3
    <3> QED
      BY <2>1, AskedChanges
  <2>6. q \in Asked
    BY <2>2, <2>3, <2>4, <2>5
  <2> QED
    BY <2>1, <2>6 DEF Asked
<1>4. ~q.effect /\ ~q.replayed
  BY <1>1, <1>3 DEF Sound, Deserved
<1>5. Expected(q, members)
  BY <1>0, <1>3 DEF Expected, Excused
<1>6. Sound(i, q, granted, members, stored)
  BY <1>1, <1>3, <1>4, <1>5 DEF Sound, Admitted, Claiming, Deserved
<1> HIDE DEF o, q
<1> QED
  BY <1>2, <1>3, <1>6, RequestKeeps

\* A request that passes an interceptor.
LEMMA AdvanceKeeps ==
  ASSUME NEW i, PipelineInv(i), NEW s \in Slot, request[s].pc \in 1 .. 5,
         Edge(i)!Advance(s),
         request[s].pc = 2 => \/ Routes[request[s].route].access = "public" \/ request[s].actor = "apiKey"
                              \/ request[s].actor = "user" /\ request[s].tenant \in members \union {NoTenant},
         request[s].pc = 3 /\ Routes[request[s].route].permission => request[s].held,
         request[s].pc = 4 => ~Routes[request[s].route].idempotent,
         granted' = granted, members' = members, stored' = stored,
         requests' = requests, changes' = changes, faults' = faults
  PROVE  PipelineInv(i)'
<1> DEFINE o == request[s]
           q == [o EXCEPT !.pc = @ + 1]
<1>1. o \in Asked /\ Sound(i, o, granted, members, stored) /\ request \in [Slot -> Asked]
  BY DEF PipelineInv
<1>2. request' = [request EXCEPT ![s] = q]
  BY <1>1 DEF Edge!Advance, Asked
<1>3. /\ q \in Asked /\ q.pc = o.pc + 1 /\ q.claimed = o.claimed
      /\ q.route = o.route /\ q.actor = o.actor /\ q.tenant = o.tenant /\ q.target = o.target /\ q.held = o.held
      /\ q.effect = o.effect /\ q.replayed = o.replayed
  BY <1>1 DEF Asked
<1>4. ~q.effect /\ ~q.replayed
  BY <1>1, <1>3 DEF Sound, Deserved
<1>5. o.pc \in {1, 2, 3, 4, 5}
  OBVIOUS
<1>6. Admitted(q, granted, members)
  BY <1>1, <1>3, <1>5 DEF Sound, Admitted
<1>7. Claiming(q, stored)
  <2>1. KeyOf(q) = KeyOf(o)
    BY <1>3 DEF KeyOf
  <2> QED
    BY <1>1, <1>3, <1>5, <2>1 DEF Sound, Claiming
<1>8. Sound(i, q, granted, members, stored)
  BY <1>1, <1>3, <1>4, <1>5, <1>6, <1>7 DEF Sound, Deserved
<1>9. q.claimed => \A p \in Slot \ {s} : request[p].claimed => KeyOf(request[p]) # KeyOf(q)
  BY <1>3 DEF PipelineInv, OneClaim, KeyOf
<1>10. requests' \in 0 .. i.requests /\ changes' \in 0 .. i.changes /\ faults' \in 0 .. i.faults
  BY DEF PipelineInv
<1> HIDE DEF o, q
<1> QED
  BY <1>2, <1>3, <1>8, <1>9, <1>10, RequestKeeps

\* Who stands at a stage.
LEMMA AtStage ==
  ASSUME NEW i, PipelineInv(i), NEW s \in Slot
  PROVE  /\ request[s] \in Asked /\ Sound(i, request[s], granted, members, stored)
         /\ Edge(i)!R(s) = Routes[request[s].route] /\ Edge(i)!Scope(s) = KeyOf(request[s])
         /\ Edge(i)!At(s, "limit") => request[s].pc = 1
         /\ Edge(i)!At(s, "principal") => request[s].pc = 2
         /\ Edge(i)!At(s, "permission") => request[s].pc = 3
         /\ Edge(i)!At(s, "claim") => request[s].pc = 4
         /\ Edge(i)!At(s, "validate") => request[s].pc = 5
         /\ Edge(i)!At(s, "invoke") => request[s].pc = 6
         /\ \A n \in {"limit", "principal", "permission", "claim", "validate", "invoke"} :
              Edge(i)!At(s, n) => request[s].pc \in 1 .. 6
<1>1. Edge(i)!Routes = Routes /\ Edge(i)!Stages = <<"limit", "principal", "permission", "claim", "validate", "invoke">>
  BY SameRoutes, SameOrder
<1>2. request[s] \in Asked /\ Sound(i, request[s], granted, members, stored)
  BY DEF PipelineInv
<1>3. Edge(i)!R(s) = Routes[request[s].route] /\ Edge(i)!Scope(s) = KeyOf(request[s])
  BY <1>1 DEF Edge!R, Edge!Scope, KeyOf
<1>4. \A n : Edge(i)!At(s, n) =>
          request[s].pc \in 1 .. 6 /\ <<"limit", "principal", "permission", "claim", "validate", "invoke">>[request[s].pc] = n
  BY <1>1 DEF Edge!At
<1> QED
  BY <1>2, <1>3, <1>4

\* The document of the route of a request.
LEMMA RouteOf ==
  ASSUME NEW i, Edge(i)!EdgeAssumption, PipelineInv(i), NEW s \in Slot, request[s].pc # 0
  PROVE  request[s].route \in DOMAIN Routes /\ Documented(request[s].route, Routes[request[s].route])
<1>1. request[s].route \in i.routes
  BY DEF PipelineInv, Sound
<1>2. i.routes \subseteq DOMAIN Routes
  BY SameRoutes DEF Edge!EdgeAssumption
<1> QED
  BY <1>1, <1>2, RoutesDocumented

\* The bounds of a step that takes nothing from them.
LEMMA SameBounds ==
  ASSUME NEW i, PipelineInv(i), UNCHANGED <<granted, members, stored, Edge(i)!bounds>>
  PROVE  /\ granted' = granted /\ members' = members /\ stored' = stored
         /\ requests' = requests /\ changes' = changes /\ faults' = faults
         /\ requests' \in 0 .. i.requests /\ changes' \in 0 .. i.changes /\ faults' \in 0 .. i.faults
  BY DEF PipelineInv, Edge!bounds

LEMMA ArriveKeeps ==
  ASSUME NEW i, Edge(i)!EdgeAssumption, PipelineInv(i), NEW s \in Slot,
         NEW r \in i.routes, NEW c \in Edge(i)!Caller, NEW t \in Tenant, Edge(i)!Arrive(s, r, c, t)
  PROVE  PipelineInv(i)'
<1> DEFINE h == <<c.actor, c.tenant>> \in granted
<1>1. h \in BOOLEAN
  OBVIOUS
<1>2. (h <=> <<c.actor, c.tenant>> \in granted) /\ h = (<<c.actor, c.tenant>> \in granted)
  OBVIOUS
<1> DEFINE x == Edge(i)!Idle
           q == [[[[[[x EXCEPT !.pc = 1] EXCEPT !.route = r] EXCEPT !.actor = c.actor]
                    EXCEPT !.tenant = c.tenant] EXCEPT !.target = t] EXCEPT !.held = h]
<1> HIDE DEF h
<1>3. request' = [request EXCEPT ![s] = q]
  BY <1>2 DEF Edge!Arrive
<1>4. q \in Asked
  <2>1. r \in DOMAIN Routes /\ 1 \in 0 .. 7
    BY SameRoutes DEF Edge!EdgeAssumption
  <2>2. c.actor \in {"none", "invalid", "user", "apiKey"} /\ c.tenant \in Tenant \union {NoTenant}
    BY DEF Edge!Caller
  <2>3. x \in Asked
    BY DEF Edge!Idle, Asked
  <2> DEFINE q1 == [x EXCEPT !.pc = 1]
             q2 == [q1 EXCEPT !.route = r]
             q3 == [q2 EXCEPT !.actor = c.actor]
             q4 == [q3 EXCEPT !.tenant = c.tenant]
             q5 == [q4 EXCEPT !.target = t]
  <2> HIDE DEF x
  <2>4. q1 \in Asked
    BY <2>1, <2>3, AskedChanges
  <2> HIDE DEF q1
  <2>5. q2 \in Asked
    BY <2>1, <2>4, AskedChanges
  <2> HIDE DEF q2
  <2>6. q3 \in Asked
    BY <2>2, <2>5, AskedChanges
  <2> HIDE DEF q3
  <2>7. q4 \in Asked
    BY <2>2, <2>6, AskedChanges
  <2> HIDE DEF q4
  <2>8. q5 \in Asked
    BY <2>7, AskedChanges
  <2> HIDE DEF q5
  <2>9. [q5 EXCEPT !.held = h] \in Asked
    BY <1>1, <2>8, AskedChanges
  <2> QED
    BY <2>9 DEF q1, q2, q3, q4, q5
<1>5. q.pc = 1 /\ q.route = r /\ q.actor = c.actor /\ q.tenant = c.tenant /\ ~q.claimed /\ ~q.effect /\ ~q.replayed /\ q.held = h
  BY DEF Edge!Idle
<1> HIDE DEF q
<1>6. Sound(i, q, granted, members, stored)
  BY <1>2, <1>5 DEF Sound, Admitted, Claiming, Deserved
<1>7. /\ granted' = granted /\ members' = members /\ stored' = stored
      /\ requests' \in 0 .. i.requests /\ changes' \in 0 .. i.changes /\ faults' \in 0 .. i.faults
  <2>1. /\ granted' = granted /\ members' = members /\ stored' = stored
        /\ requests > 0 /\ requests' = requests - 1 /\ changes' = changes /\ faults' = faults
    BY DEF Edge!Arrive
  <2>2. requests \in 0 .. i.requests /\ changes \in 0 .. i.changes /\ faults \in 0 .. i.faults /\ i.requests \in Nat
    BY DEF PipelineInv, Edge!EdgeAssumption
  <2> HIDE DEF q
  <2> QED
    BY <2>1, <2>2
<1> HIDE DEF q
<1> QED
  BY <1>3, <1>4, <1>5, <1>6, <1>7, RequestKeeps

LEMMA LimitKeeps ==
  ASSUME NEW i, Edge(i)!EdgeAssumption, PipelineInv(i), NEW s \in Slot, Edge(i)!Limit(s)
  PROVE  PipelineInv(i)'
<1>1. request[s].pc = 1 /\ Edge(i)!R(s) = Routes[request[s].route]
  BY AtStage DEF Edge!Limit
<1>2. UNCHANGED <<granted, members, stored, Edge(i)!bounds>>
  BY DEF Edge!Limit
<1>3. CASE Edge(i)!Advance(s)
  BY <1>1, <1>2, <1>3, SameBounds, AdvanceKeeps
<1>4. CASE Edge(i)!R(s).limited /\ Edge(i)!Refuse(s, "RATE_LIMIT_EXCEEDED")
  <2>1. 429 \in Routes[request[s].route].declared
    BY <1>1, <1>4, RouteOf DEF Documented
  <2>2. Excused(request[s], "RATE_LIMIT_EXCEEDED", members)
    BY <2>1, Statuses DEF Excused
  <2> QED
    BY <1>1, <1>2, <1>4, <2>2, SameBounds, RefuseKeeps
<1> QED
  BY <1>3, <1>4 DEF Edge!Limit

LEMMA PrincipalKeeps ==
  ASSUME NEW i, Edge(i)!EdgeAssumption, PipelineInv(i), NEW s \in Slot, Edge(i)!Principal(s)
  PROVE  PipelineInv(i)'
<1>1. /\ request[s].pc = 2 /\ Edge(i)!R(s) = Routes[request[s].route] /\ request[s] \in Asked
      /\ Documented(request[s].route, Routes[request[s].route])
  <2>1. Edge(i)!At(s, "principal")
    BY DEF Edge!Principal
  <2> QED
    BY <2>1, AtStage, RouteOf
<1>2. UNCHANGED <<granted, members, stored, Edge(i)!bounds>>
  BY DEF Edge!Principal
<1>3. CASE Edge(i)!PrincipalRefusal(s) = ""
  <2>1. Edge(i)!Advance(s)
    BY <1>3 DEF Edge!Principal
  <2>2. \/ Routes[request[s].route].access = "public" \/ request[s].actor = "apiKey"
        \/ request[s].actor = "user" /\ request[s].tenant \in members \union {NoTenant}
    BY <1>1, <1>3 DEF Edge!PrincipalRefusal
  <2> QED
    BY <1>1, <1>2, <2>1, <2>2, SameBounds, AdvanceKeeps
<1>4. CASE Edge(i)!PrincipalRefusal(s) # ""
  <2>1. Edge(i)!Refuse(s, Edge(i)!PrincipalRefusal(s))
    BY <1>4 DEF Edge!Principal
  <2>2. Edge(i)!PrincipalRefusal(s) \in {"UNAUTHORIZED", "FORBIDDEN"} /\ Routes[request[s].route].access # "public"
    BY <1>1, <1>4 DEF Edge!PrincipalRefusal
  <2>3. Excused(request[s], "UNAUTHORIZED", members)
    BY <1>1, <2>2, Statuses DEF Excused, Documented
  <2>4. ASSUME Edge(i)!PrincipalRefusal(s) = "FORBIDDEN" PROVE Excused(request[s], "FORBIDDEN", members)
    <3>1. request[s].tenant \notin members
      BY <2>4 DEF Edge!PrincipalRefusal
    <3>2. Routes[request[s].route].userOnly \/ 403 \in Routes[request[s].route].declared
      BY <1>1, <2>2 DEF Documented
    <3> QED
      BY <3>1, <3>2, Statuses DEF Excused
  <2> QED
    BY <1>1, <1>2, <2>1, <2>2, <2>3, <2>4, SameBounds, RefuseKeeps
<1> QED
  BY <1>3, <1>4

LEMMA PermissionKeeps ==
  ASSUME NEW i, Edge(i)!EdgeAssumption, PipelineInv(i), NEW s \in Slot, Edge(i)!Permission(s)
  PROVE  PipelineInv(i)'
<1>1. /\ request[s].pc = 3 /\ Edge(i)!R(s) = Routes[request[s].route]
      /\ Documented(request[s].route, Routes[request[s].route]) /\ Sound(i, request[s], granted, members, stored)
  BY AtStage, RouteOf DEF Edge!Permission
<1>2. UNCHANGED <<granted, members, stored, Edge(i)!bounds>>
  BY DEF Edge!Permission
<1>3. CASE Edge(i)!R(s).permission => Edge(i)!Holds(s, request[s].tenant)
  <2>1. Edge(i)!Advance(s)
    BY <1>3 DEF Edge!Permission
  <2>2. Routes[request[s].route].permission => request[s].held
    BY <1>1, <1>3 DEF Edge!Holds, Sound, Admitted
  <2> QED
    BY <1>1, <1>2, <2>1, <2>2, SameBounds, AdvanceKeeps
<1>4. CASE ~(Edge(i)!R(s).permission => Edge(i)!Holds(s, request[s].tenant))
  <2>1. Edge(i)!Refuse(s, "INSUFFICIENT_PERMISSION") /\ Routes[request[s].route].permission
    BY <1>1, <1>4 DEF Edge!Permission
  <2>2. Excused(request[s], "INSUFFICIENT_PERMISSION", members)
    BY <1>1, <2>1, Statuses DEF Excused, Documented
  <2> QED
    BY <1>1, <1>2, <2>1, <2>2, SameBounds, RefuseKeeps
<1> QED
  BY <1>3, <1>4

LEMMA ValidateKeeps ==
  ASSUME NEW i, Edge(i)!EdgeAssumption, PipelineInv(i), NEW s \in Slot, Edge(i)!Validate(s)
  PROVE  PipelineInv(i)'
<1>1. request[s].pc = 5 /\ Documented(request[s].route, Routes[request[s].route])
  BY AtStage, RouteOf DEF Edge!Validate
<1>2. UNCHANGED <<granted, members, stored, Edge(i)!bounds>>
  BY DEF Edge!Validate
<1>3. CASE Edge(i)!Advance(s)
  BY <1>1, <1>2, <1>3, SameBounds, AdvanceKeeps
<1>4. CASE request[s].route \notin {"webRefresh", "webLogout", "getMe"} /\ Edge(i)!Refuse(s, "VALIDATION_ERROR")
  <2>1. Excused(request[s], "VALIDATION_ERROR", members)
    BY <1>1, <1>4, Statuses DEF Excused, Documented
  <2> QED
    BY <1>1, <1>2, <1>4, <2>1, SameBounds, RefuseKeeps
<1> QED
  BY <1>3, <1>4 DEF Edge!Validate

\* A request that ends with the status of its route.
LEMMA AnswerKeeps ==
  ASSUME NEW i, Edge(i)!EdgeAssumption, PipelineInv(i), NEW s \in Slot, request[s].pc \in {4, 6},
         NEW e \in BOOLEAN, NEW p \in BOOLEAN, NEW st,
         request' = [request EXCEPT ![s] =
            [[[[[request[s] EXCEPT !.pc = 7] EXCEPT !.status = Routes[request[s].route].ok] EXCEPT !.claimed = FALSE]
                EXCEPT !.effect = e] EXCEPT !.replayed = p]],
         p /\ Routes[request[s].route].permission => request[s].held,
         e /\ Routes[request[s].route].access # "public" =>
            /\ request[s].actor \in {"user", "apiKey"}
            /\ Routes[request[s].route].userOnly => request[s].actor = "user"
            /\ request[s].actor = "user" => request[s].tenant \in members \union {NoTenant}
            /\ Routes[request[s].route].permission => request[s].held /\ request[s].target = request[s].tenant,
         granted' = granted, members' = members, stored' = st,
         st \in {stored, stored \union {KeyOf(request[s])}}, st = stored \/ request[s].claimed,
         requests' = requests, changes' = changes, faults' = faults
  PROVE  PipelineInv(i)'
<1> DEFINE o == request[s]
           n == Routes[o.route].ok
           q1 == [o EXCEPT !.pc = 7]
           q2 == [q1 EXCEPT !.status = n]
           q3 == [q2 EXCEPT !.claimed = FALSE]
           q4 == [q3 EXCEPT !.effect = e]
           q == [q4 EXCEPT !.replayed = p]
<1>1. /\ o \in Asked /\ Sound(i, o, granted, members, stored) /\ request \in [Slot -> Asked]
      /\ o.route \in DOMAIN Routes /\ n \in Nat
  BY RouteOf DEF PipelineInv, Documented
<1>2. q \in Asked
  <2>1. 7 \in 0 .. 7
    OBVIOUS
  <2> HIDE DEF o, n
  <2>2. q1 \in Asked
    BY <1>1, <2>1, AskedChanges
  <2> HIDE DEF q1
  <2>3. q2 \in Asked
    BY <1>1, <2>2, AskedChanges
  <2> HIDE DEF q2
  <2>4. q3 \in Asked
    BY <2>3, AskedChanges
  <2> HIDE DEF q3
  <2>5. q4 \in Asked
    BY <2>4, AskedChanges
  <2> HIDE DEF q4
  <2> QED
    BY <2>5, AskedChanges
<1>3. /\ q.pc = 7 /\ q.status = n /\ ~q.claimed /\ q.effect = e /\ q.replayed = p
      /\ q.route = o.route /\ q.actor = o.actor /\ q.tenant = o.tenant /\ q.target = o.target /\ q.held = o.held
  <2> HIDE DEF o, n
  <2> QED
    BY <1>1 DEF Asked
<1>4. request' = [request EXCEPT ![s] = q]
  OBVIOUS
<1> HIDE DEF q
<1>5. Expected(q, members)
  BY <1>3 DEF Expected
<1>6. Deserved(q, members)
  BY <1>3 DEF Deserved
<1>7. Sound(i, q, granted, members, st)
  BY <1>1, <1>3, <1>5, <1>6 DEF Sound, Admitted, Claiming
<1>8. requests' \in 0 .. i.requests /\ changes' \in 0 .. i.changes /\ faults' \in 0 .. i.faults
  BY DEF PipelineInv
<1> HIDE DEF o, n
<1> QED
  BY <1>2, <1>3, <1>4, <1>7, <1>8, RequestKeeps DEF o

\* A claim is made where nobody holds it and no row answers it.
LEMMA ClaimedKeeps ==
  ASSUME NEW i, Edge(i)!EdgeAssumption, PipelineInv(i), NEW s \in Slot, request[s].pc = 4,
         Routes[request[s].route].idempotent, KeyOf(request[s]) \notin stored,
         \A o \in Slot \ {s} : request[o].claimed => KeyOf(request[o]) # KeyOf(request[s]),
         request' = [request EXCEPT ![s] = [[request[s] EXCEPT !.pc = 5] EXCEPT !.claimed = TRUE]],
         granted' = granted, members' = members, stored' = stored,
         requests' = requests, changes' = changes, faults' = faults
  PROVE  PipelineInv(i)'
<1> DEFINE o == request[s]
           q1 == [o EXCEPT !.pc = 5]
           q == [q1 EXCEPT !.claimed = TRUE]
<1>1. o \in Asked /\ Sound(i, o, granted, members, stored) /\ request \in [Slot -> Asked]
  BY DEF PipelineInv
<1>2. q \in Asked
  <2>1. 5 \in 0 .. 7
    OBVIOUS
  <2> HIDE DEF o
  <2>2. q1 \in Asked
    BY <1>1, <2>1, AskedChanges
  <2> HIDE DEF q1
  <2> QED
    BY <2>2, AskedChanges
<1>3. /\ q.pc = 5 /\ q.claimed /\ q.effect = o.effect /\ q.replayed = o.replayed
      /\ q.route = o.route /\ q.actor = o.actor /\ q.tenant = o.tenant /\ q.held = o.held
  <2> HIDE DEF o
  <2> QED
    BY <1>1 DEF Asked
<1>4. request' = [request EXCEPT ![s] = q]
  OBVIOUS
<1> HIDE DEF q
<1>5. KeyOf(q) = KeyOf(o)
  BY <1>3 DEF KeyOf
<1>6. Sound(i, q, granted, members, stored)
  BY <1>1, <1>3, <1>5 DEF Sound, Admitted, Claiming, Deserved
<1>7. requests' \in 0 .. i.requests /\ changes' \in 0 .. i.changes /\ faults' \in 0 .. i.faults
  BY DEF PipelineInv
<1>8. \A p \in Slot \ {s} : request[p].claimed => KeyOf(request[p]) # KeyOf(q)
  BY <1>5
<1> HIDE DEF o
<1> QED
  BY <1>2, <1>4, <1>6, <1>7, <1>8, RequestKeeps

LEMMA ClaimKeeps ==
  ASSUME NEW i, Edge(i)!EdgeAssumption, PipelineInv(i), NEW s \in Slot, Edge(i)!Claim(s)
  PROVE  PipelineInv(i)'
<1> DEFINE o == request[s]
           v == Routes[o.route]
<1>1. /\ o.pc = 4 /\ Edge(i)!R(s) = v /\ o \in Asked /\ Sound(i, o, granted, members, stored)
      /\ Edge(i)!Scope(s) = KeyOf(o) /\ request \in [Slot -> Asked]
  <2>1. Edge(i)!At(s, "claim")
    BY DEF Edge!Claim
  <2> QED
    BY <2>1, AtStage DEF PipelineInv
<1>2. Documented(o.route, v)
  BY <1>1, RouteOf
<1>3. UNCHANGED <<granted, members, stored, Edge(i)!bounds>>
  BY DEF Edge!Claim
<1>4. CASE ~v.idempotent /\ Edge(i)!Advance(s)
  BY <1>1, <1>3, <1>4, SameBounds, AdvanceKeeps
<1>5. CASE v.idempotent /\ \E code \in {"IDEMPOTENCY_KEY_REQUIRED", "IDEMPOTENCY_IN_PROGRESS", "IDEMPOTENCY_KEY_REUSED"} :
              Edge(i)!Refuse(s, code)
  <2>1. PICK code \in {"IDEMPOTENCY_KEY_REQUIRED", "IDEMPOTENCY_IN_PROGRESS", "IDEMPOTENCY_KEY_REUSED"} :
            Edge(i)!Refuse(s, code)
    BY <1>5
  <2>2. Excused(o, code, members)
    BY <1>2, <1>5, Statuses DEF Excused, Documented
  <2> QED
    BY <1>1, <1>3, <2>1, <2>2, SameBounds, RefuseKeeps
<1>6. CASE v.idempotent /\ request' = [request EXCEPT ![s].pc = 7, ![s].status = v.ok, ![s].replayed = TRUE]
  <2>1. ~o.claimed /\ ~o.effect
    BY <1>1 DEF Sound, Claiming, Deserved
  <2>2. request' = [request EXCEPT ![s] =
            [[[[[o EXCEPT !.pc = 7] EXCEPT !.status = v.ok] EXCEPT !.claimed = FALSE]
                EXCEPT !.effect = FALSE] EXCEPT !.replayed = TRUE]]
    <3> DEFINE a == [[[o EXCEPT !.pc = 7] EXCEPT !.status = v.ok] EXCEPT !.replayed = TRUE]
               b == [[[[[o EXCEPT !.pc = 7] EXCEPT !.status = v.ok] EXCEPT !.claimed = FALSE]
                EXCEPT !.effect = FALSE] EXCEPT !.replayed = TRUE]
    <3>1. request' = [request EXCEPT ![s] = a]
      BY <1>1, <1>6
    <3>2. a = b
      BY <1>1, <2>1 DEF Asked
    <3> QED
      BY <3>1, <3>2
  <2>3. v.permission => o.held
    BY <1>1 DEF Sound, Admitted
  <2> QED
    BY <1>1, <1>3, <2>2, <2>3, SameBounds, AnswerKeeps
<1>7. CASE /\ v.idempotent /\ KeyOf(o) \notin stored /\ ~Edge(i)!InFlight(s)
           /\ request' = [request EXCEPT ![s].pc = @ + 1, ![s].claimed = TRUE]
  <2>1. request' = [request EXCEPT ![s] = [[o EXCEPT !.pc = 5] EXCEPT !.claimed = TRUE]]
    <3>1. request' = [request EXCEPT ![s] = [[o EXCEPT !.pc = o.pc + 1] EXCEPT !.claimed = TRUE]]
      BY <1>1, <1>7 DEF Asked
    <3>2. o.pc + 1 = 5
      BY <1>1
    <3> HIDE DEF o
    <3> QED
      BY <3>1, <3>2
  <2>2. \A p \in Slot \ {s} : request[p].claimed => KeyOf(request[p]) # KeyOf(o)
    BY <1>7, AtStage DEF Edge!InFlight
  <2> QED
    BY <1>1, <1>3, <1>7, <2>1, <2>2, SameBounds, ClaimedKeeps
<1> HIDE DEF v, o
<1> QED
  BY <1>1, <1>4, <1>5, <1>6, <1>7, SameOrder DEF Edge!Claim

\* What a use case refuses before its work is excused.
LEMMA RefusalsExcused ==
  ASSUME NEW i, Edge(i)!EdgeAssumption, PipelineInv(i), NEW s \in Slot, request[s].pc = 6,
         NEW code, code \in Edge(i)!Refusals(s)
  PROVE  Excused(request[s], code, members)
<1> DEFINE o == request[s]
           v == Routes[o.route]
<1>1. Edge(i)!R(s) = v /\ o \in Asked /\ Documented(o.route, v) /\ Edge(i)!Mismatch = Mismatch
  BY AtStage, RouteOf, SameOrder
<1>2. CASE v.userOnly /\ o.actor = "apiKey"
  <2>1. code = "FORBIDDEN"
    BY <1>1, <1>2 DEF Edge!Refusals
  <2> QED
    BY <1>2, <2>1, Statuses DEF Excused
<1>3. CASE ~(v.userOnly /\ o.actor = "apiKey") /\ v.tenant = "body"
  <2>1. code \in Edge(i)!SelectRefusals(s)
    BY <1>1, <1>3 DEF Edge!Refusals
  <2>2. \/ code = Mismatch /\ o.target # o.tenant
        \/ code = "ACTIVE_MEMBERSHIP_REQUIRED"
    BY <1>1, <2>1 DEF Edge!SelectRefusals
  <2>3. 403 \in v.declared
    BY <1>1, <1>3 DEF Documented
  <2> QED
    BY <1>3, <2>2, <2>3, Statuses DEF Excused
<1>4. CASE ~(v.userOnly /\ o.actor = "apiKey") /\ v.tenant = "path"
  <2>1. code \in Edge(i)!PathRefusals(s)
    BY <1>1, <1>4 DEF Edge!Refusals
  <2>2. \/ code = "INSUFFICIENT_PERMISSION"
        \/ o.target # o.tenant /\ code \in {Mismatch, v.foreign}
    BY <1>1, <2>1 DEF Edge!PathRefusals
  <2>3. 403 \in v.declared /\ StatusOf(v.foreign) \in {409} \union v.declared
    BY <1>1, <1>4 DEF Documented
  <2> QED
    BY <1>4, <2>2, <2>3, Statuses DEF Excused
<1>5. CASE ~(v.userOnly /\ o.actor = "apiKey") /\ v.tenant \notin {"body", "path"}
  BY <1>1, <1>5 DEF Edge!Refusals
<1> QED
  BY <1>2, <1>3, <1>4, <1>5

LEMMA InvokeKeeps ==
  ASSUME NEW i, Edge(i)!EdgeAssumption, PipelineInv(i), NEW s \in Slot, Edge(i)!Invoke(s)
  PROVE  PipelineInv(i)'
<1> DEFINE o == request[s]
           v == Routes[o.route]
<1>1. /\ o.pc = 6 /\ Edge(i)!R(s) = v /\ o \in Asked /\ Sound(i, o, granted, members, stored)
      /\ Edge(i)!Scope(s) = KeyOf(o) /\ request \in [Slot -> Asked]
  <2>1. Edge(i)!At(s, "invoke")
    BY DEF Edge!Invoke
  <2> QED
    BY <2>1, AtStage DEF PipelineInv
<1>2. Documented(o.route, v) /\ Edge(i)!Errors = Errors
  BY <1>1, RouteOf, SameRoutes
<1>3. granted' = granted /\ members' = members /\ UNCHANGED Edge(i)!bounds
  BY DEF Edge!Invoke
<1>4. ASSUME NEW code, Edge(i)!Refuse(s, code), UNCHANGED stored,
             code \in Edge(i)!Refusals(s) \union (IF Edge(i)!Refusals(s) = {} THEN Errors[o.route] ELSE {})
      PROVE  PipelineInv(i)'
  <2>1. code \in Edge(i)!Refusals(s) \/ code \in Errors[o.route]
    BY <1>4
  <2>2. Excused(o, code, members)
    BY <1>1, <1>2, <2>1, RefusalsExcused DEF Excused, Documented, Fits
  <2> QED
    BY <1>1, <1>3, <1>4, <2>2, SameBounds, RefuseKeeps
<1>5. CASE /\ Edge(i)!Refusals(s) = {}
           /\ request' = [request EXCEPT ![s].pc = 7, ![s].status = v.ok, ![s].claimed = FALSE, ![s].effect = TRUE]
           /\ stored' = IF v.idempotent THEN stored \union {KeyOf(o)} ELSE stored
  <2>1. ~o.replayed
    BY <1>1 DEF Sound, Deserved
  <2>2. request' = [request EXCEPT ![s] =
            [[[[[o EXCEPT !.pc = 7] EXCEPT !.status = v.ok] EXCEPT !.claimed = FALSE]
                EXCEPT !.effect = TRUE] EXCEPT !.replayed = FALSE]]
    <3> DEFINE a == [[[[o EXCEPT !.pc = 7] EXCEPT !.status = v.ok] EXCEPT !.claimed = FALSE] EXCEPT !.effect = TRUE]
               b == [[[[[o EXCEPT !.pc = 7] EXCEPT !.status = v.ok] EXCEPT !.claimed = FALSE]
                EXCEPT !.effect = TRUE] EXCEPT !.replayed = FALSE]
    <3>1. request' = [request EXCEPT ![s] = a]
      BY <1>1, <1>5
    <3>2. a = b
      BY <1>1, <2>1 DEF Asked
    <3> QED
      BY <3>1, <3>2
  <2>3. ~(v.userOnly /\ o.actor = "apiKey")
    BY <1>1, <1>5 DEF Edge!Refusals
  <2>4. v.permission => o.held /\ o.target = o.tenant
    <3>1. v.permission => v.tenant = "path"
      BY <1>2 DEF Documented
    <3>2. v.tenant = "path" => o.target = o.tenant
      BY <1>1, <1>5, <2>3 DEF Edge!Refusals, Edge!PathRefusals
    <3>3. v.permission => o.held
      BY <1>1 DEF Sound, Admitted
    <3> QED
      BY <3>1, <3>2, <3>3
  <2>5. v.access # "public" =>
            /\ o.actor \in {"user", "apiKey"}
            /\ v.userOnly => o.actor = "user"
            /\ o.actor = "user" => o.tenant \in members \union {NoTenant}
            /\ v.permission => o.held /\ o.target = o.tenant
    BY <1>1, <2>3, <2>4 DEF Sound, Admitted
  <2>6. stored' \in {stored, stored \union {KeyOf(o)}} /\ (stored' = stored \/ o.claimed)
    BY <1>1, <1>5 DEF Sound, Claiming
  <2>7. requests' = requests /\ changes' = changes /\ faults' = faults
    BY <1>3 DEF Edge!bounds
  <2> HIDE DEF v
  <2> QED
    BY <1>1, <1>3, <2>2, <2>5, <2>6, <2>7, AnswerKeeps DEF v
<1> HIDE DEF o, v
<1> QED
  BY <1>1, <1>2, <1>4, <1>5, SameOrder DEF Edge!Invoke, o

LEMMA FailKeeps ==
  ASSUME NEW i, Edge(i)!EdgeAssumption, PipelineInv(i), NEW s \in Slot, Edge(i)!Fail(s)
  PROVE  PipelineInv(i)'
<1>1. request[s].pc \in 1 .. 6
  <2>1. \E n \in {"limit", "principal", "permission", "claim", "validate", "invoke"} : Edge(i)!At(s, n)
    BY DEF Edge!Fail
  <2> QED
    BY <2>1, AtStage
<1>2. PICK code \in Failure : Edge(i)!Refuse(s, code)
  BY SameOrder DEF Edge!Fail
<1>3. Excused(request[s], code, members)
  BY DEF Excused
<1>4. /\ granted' = granted /\ members' = members /\ stored' = stored
      /\ requests' = requests /\ changes' = changes /\ faults > 0 /\ faults' = faults - 1
  BY DEF Edge!Fail
<1>5. requests' \in 0 .. i.requests /\ changes' \in 0 .. i.changes /\ faults' \in 0 .. i.faults
  BY <1>4 DEF PipelineInv, Edge!EdgeAssumption
<1> QED
  BY <1>1, <1>2, <1>3, <1>4, <1>5, RefuseKeeps

LEMMA LeaveKeeps ==
  ASSUME NEW i, Edge(i)!EdgeAssumption, PipelineInv(i), NEW s \in Slot, Edge(i)!Leave(s)
  PROVE  PipelineInv(i)'
<1> DEFINE q == Edge(i)!Idle
<1>1. q.pc = 0 /\ ~q.claimed /\ ~q.effect /\ ~q.replayed /\ q.actor = "none" /\ q \in Asked
  BY DEF Edge!Idle, Asked
<1>2. request' = [request EXCEPT ![s] = q] /\ UNCHANGED <<granted, members, stored, Edge(i)!bounds>>
  BY DEF Edge!Leave
<1> HIDE DEF q
<1>3. <<q.actor, q.tenant>> \notin granted
  BY <1>1 DEF PipelineInv
<1>4. Sound(i, q, granted, members, stored)
  BY <1>1, <1>3 DEF Sound, Admitted, Claiming, Deserved
<1> QED
  BY <1>1, <1>2, <1>4, SameBounds, RequestKeeps

\* Rights that change are noted with the requests of their callers.
LEMMA RegrantKeeps ==
  ASSUME NEW i, Edge(i)!EdgeAssumption, PipelineInv(i),
         NEW pair \in {"user", "apiKey"} \X Tenant, Edge(i)!Regrant(pair)
  PROVE  PipelineInv(i)'
<1>1. /\ request' = [s \in Slot |-> [request[s] EXCEPT !.held = @ \/ <<request[s].actor, request[s].tenant>> \in granted']]
      /\ granted' \subseteq {"user", "apiKey"} \X Tenant
      /\ members' = members /\ stored' = stored /\ requests' = requests /\ faults' = faults
      /\ changes > 0 /\ changes' = changes - 1
  <2>1. granted \subseteq {"user", "apiKey"} \X Tenant
    BY DEF PipelineInv
  <2> QED
    BY <2>1 DEF Edge!Regrant
<1>2. ASSUME NEW s \in Slot
      PROVE  /\ request'[s] \in Asked /\ request'[s].claimed = request[s].claimed
             /\ KeyOf(request'[s]) = KeyOf(request[s]) /\ Sound(i, request'[s], granted', members', stored')
  <2> DEFINE o == request[s]
             h == o.held \/ <<o.actor, o.tenant>> \in granted'
             q == [o EXCEPT !.held = h]
  <2>1. o \in Asked /\ Sound(i, o, granted, members, stored) /\ request'[s] = q
    BY <1>1 DEF PipelineInv
  <2>2. h \in BOOLEAN
    OBVIOUS
  <2>3. (o.held => h) /\ (<<o.actor, o.tenant>> \in granted' => h)
    OBVIOUS
  <2> HIDE DEF o, h
  <2>4. q \in Asked
    BY <2>1, <2>2, AskedChanges
  <2>5. /\ q.held = h /\ q.pc = o.pc /\ q.route = o.route /\ q.actor = o.actor /\ q.tenant = o.tenant /\ q.target = o.target
        /\ q.status = o.status /\ q.claimed = o.claimed /\ q.failed = o.failed
        /\ q.effect = o.effect /\ q.replayed = o.replayed
    BY <2>1 DEF Asked
  <2> HIDE DEF q
  <2>6. KeyOf(q) = KeyOf(o)
    BY <2>5 DEF KeyOf
  <2>7. Admitted(q, granted', members)
    BY <2>1, <2>3, <2>5 DEF Sound, Admitted
  <2>8. Claiming(q, stored) /\ Deserved(q, members) /\ (q.pc = 7 => Expected(q, members))
    BY <2>1, <2>3, <2>5, <2>6 DEF Sound, Claiming, Deserved, Expected
  <2>9. Sound(i, q, granted', members, stored)
    BY <2>1, <2>5, <2>7, <2>8 DEF Sound
  <2> QED
    BY <1>1, <2>1, <2>4, <2>5, <2>6, <2>9 DEF o
<1>3. request' \in [Slot -> Asked] /\ OneClaim(request')
  <2>1. DOMAIN request' = Slot /\ request' = [s \in Slot |-> request'[s]]
    BY <1>1
  <2> QED
    BY <1>2, <2>1 DEF OneClaim, PipelineInv
<1>4. requests' \in 0 .. i.requests /\ changes' \in 0 .. i.changes /\ faults' \in 0 .. i.faults
  BY <1>1 DEF PipelineInv, Edge!EdgeAssumption
<1> QED
  BY <1>1, <1>2, <1>3, <1>4 DEF PipelineInv

\* Every step of a request, and of the rights around it.
LEMMA PipelineNext ==
  ASSUME NEW i, Edge(i)!EdgeAssumption, PipelineInv(i), Edge(i)!Next
  PROVE  PipelineInv(i)'
<1>1. ASSUME NEW s \in Slot, NEW r \in i.routes, NEW c \in Edge(i)!Caller, NEW t \in Tenant, Edge(i)!Arrive(s, r, c, t)
      PROVE  PipelineInv(i)'
  BY <1>1, ArriveKeeps
<1>2. ASSUME NEW s \in Slot,
             \/ Edge(i)!Limit(s) \/ Edge(i)!Principal(s) \/ Edge(i)!Permission(s) \/ Edge(i)!Claim(s)
             \/ Edge(i)!Validate(s) \/ Edge(i)!Invoke(s) \/ Edge(i)!Fail(s) \/ Edge(i)!Leave(s)
      PROVE  PipelineInv(i)'
  BY <1>2, LimitKeeps, PrincipalKeeps, PermissionKeeps, ClaimKeeps, ValidateKeeps, InvokeKeeps, FailKeeps, LeaveKeeps
<1>3. ASSUME NEW pair \in {"user", "apiKey"} \X Tenant, Edge(i)!Regrant(pair)
      PROVE  PipelineInv(i)'
  BY <1>3, RegrantKeeps
<1> QED
  BY <1>1, <1>2, <1>3 DEF Edge!Next

LEMMA PipelineStutters ==
  ASSUME NEW i, PipelineInv(i), UNCHANGED edgeVars
  PROVE  PipelineInv(i)'
  BY DEF PipelineInv, edgeVars

-----------------------------------------------------------------------------
(* Induction over the numbers, on a set of them.                             *)

LEMMA NatSetInduction ==
  ASSUME NEW S, 0 \in S, \A n \in Nat : n \in S => n + 1 \in S
  PROVE  \A n \in Nat : n \in S
<1>1. SUFFICES ASSUME Nat \ S # {} PROVE FALSE
  OBVIOUS
<1>2. PICK m \in Nat \ S : \A n \in Nat \ S : <<n, m>> \notin OpToRel(<, Nat)
  BY <1>1, NatLessThanWellFounded, WFMin
<1>3. m # 0 /\ m - 1 \in Nat /\ m - 1 < m
  OBVIOUS
<1>4. m - 1 \in S
  BY <1>2, <1>3 DEF OpToRel
<1> QED
  BY <1>3, <1>4

-----------------------------------------------------------------------------
(* Aggregates: what a unit of work holds is the row with the changes that    *)
(* its events tell of, in their order, and nobody has stored another state   *)
(* of it meanwhile, unless two held it at once.                              *)

Picks(i, A, list, set) ==
    /\ Units(i)!Among(list, set) \in Seq(A \intersect set)
    /\ Units(i)!Range(Units(i)!Among(list, set)) = Units(i)!Range(list) \intersect set

\* Among: the recursive definition has a solution on every beginning of the
\* list, and what it picks of a list are the elements of the list in the set.
LEMMA AmongList ==
  ASSUME NEW i, NEW A, NEW list \in Seq(A), NEW set
  PROVE  Picks(i, A, list, set)
<1> DEFINE N == Len(list)
           R(f) == Units(i)!Range(f)
           Step(f, n) == IF n = 0 THEN <<>>
                         ELSE IF list[n] \in set \ R(f[n - 1]) THEN Append(f[n - 1], list[n])
                         ELSE f[n - 1]
           Solved == {n \in Nat : \E f : f = [m \in 0 .. n |-> Step(f, m)]}
           picked == CHOOSE f : f = [m \in 0 .. N |-> Step(f, m)]
           Right == {n \in Nat : n <= N => /\ picked[n] \in Seq(A \intersect set)
                                           /\ R(picked[n]) = {list[m] : m \in 1 .. n} \intersect set}
<1>1. N \in Nat /\ \A n \in 1 .. N : list[n] \in A
  OBVIOUS
<1>7. \A f : R(f) = {f[n] : n \in DOMAIN f}
  BY DEF Units!Range
<1>6. R(list) = {list[m] : m \in 1 .. N}
  BY <1>7
<1>2. \A n \in Nat : n \in Solved
  <2>1. 0 \in Solved
    <3> DEFINE f == [m \in 0 .. 0 |-> <<>>]
    <3>1. f = [m \in 0 .. 0 |-> Step(f, m)]
      OBVIOUS
    <3> HIDE DEF f, Step
    <3>2. \E g : g = [m \in 0 .. 0 |-> Step(g, m)]
      BY <3>1, Zenon
    <3> QED
      BY <3>2
  <2>2. ASSUME NEW n \in Nat, n \in Solved
        PROVE  n + 1 \in Solved
    <3>1. PICK f : f = [m \in 0 .. n |-> Step(f, m)]
      BY <2>2
    <3> DEFINE g == [m \in 0 .. n + 1 |-> IF m \in 0 .. n THEN f[m] ELSE Step(f, m)]
    <3>2. ASSUME NEW m \in 0 .. n + 1
          PROVE  g[m] = Step(g, m)
      <4>1. g[m] = Step(f, m)
        <5> HIDE DEF Step
        <5> QED
          BY <3>1
      <4>2. m # 0 => g[m - 1] = f[m - 1]
        OBVIOUS
      <4> HIDE DEF g
      <4> QED
        BY <4>1, <4>2
    <3>3. g = [m \in 0 .. n + 1 |-> g[m]]
      OBVIOUS
    <3> HIDE DEF g, Step
    <3>4. g = [m \in 0 .. n + 1 |-> Step(g, m)]
      BY <3>2, <3>3
    <3>5. \E h : h = [m \in 0 .. n + 1 |-> Step(h, m)]
      BY <3>4, Zenon
    <3> QED
      BY <3>5
  <2> HIDE DEF Solved
  <2> QED
    BY <2>1, <2>2, NatSetInduction
<1>3. picked = [m \in 0 .. N |-> Step(picked, m)]
  <2>1. \E f : f = [m \in 0 .. N |-> Step(f, m)]
    BY <1>1, <1>2
  <2> QED
    BY <2>1
<1>4. Units(i)!Among(list, set) = picked[N]
  BY DEF Units!Among
<1> HIDE DEF picked, R
<1>5. \A n \in Nat : n \in Right
  <2>1. 0 \in Right
    <3>1. picked[0] = <<>>
      BY <1>1, <1>3
    <3>2. R(<<>>) = {}
      BY <1>7
    <3>3. <<>> \in Seq(A \intersect set) /\ {list[m] : m \in 1 .. 0} = {}
      OBVIOUS
    <3> QED
      BY <3>1, <3>2, <3>3
  <2>2. ASSUME NEW n \in Nat, n \in Right
        PROVE  n + 1 \in Right
    <3> SUFFICES ASSUME n + 1 <= N
                 PROVE  /\ picked[n + 1] \in Seq(A \intersect set)
                        /\ R(picked[n + 1]) = {list[m] : m \in 1 .. n + 1} \intersect set
      OBVIOUS
    <3>1. picked[n + 1] = IF list[n + 1] \in set \ R(picked[n]) THEN Append(picked[n], list[n + 1]) ELSE picked[n]
      <4>1. n + 1 \in 0 .. N /\ n + 1 # 0 /\ (n + 1) - 1 = n
        BY <1>1
      <4>2. picked[n + 1] = Step(picked, n + 1)
        BY <1>3, <4>1
      <4> QED
        BY <4>1, <4>2
    <3>2. picked[n] \in Seq(A \intersect set) /\ R(picked[n]) = {list[m] : m \in 1 .. n} \intersect set
      BY <1>1, <2>2
    <3>3. list[n + 1] \in A /\ {list[m] : m \in 1 .. n + 1} = {list[m] : m \in 1 .. n} \union {list[n + 1]}
      BY <1>1
    <3>4. CASE list[n + 1] \in set \ R(picked[n])
      <4>1. R(Append(picked[n], list[n + 1])) = R(picked[n]) \union {list[n + 1]}
        <5>1. DOMAIN Append(picked[n], list[n + 1]) = DOMAIN picked[n] \union {Len(picked[n]) + 1}
          BY <3>2
        <5>2. /\ Append(picked[n], list[n + 1])[Len(picked[n]) + 1] = list[n + 1]
              /\ \A m \in DOMAIN picked[n] : Append(picked[n], list[n + 1])[m] = picked[n][m]
          BY <3>2
        <5> QED
          BY <1>7, <5>1, <5>2
      <4>2. Append(picked[n], list[n + 1]) \in Seq(A \intersect set)
        BY <3>2, <3>3, <3>4
      <4> QED
        BY <3>1, <3>2, <3>3, <3>4, <4>1, <4>2
    <3>5. CASE list[n + 1] \notin set \ R(picked[n])
      <4> QED
        BY <3>1, <3>2, <3>3, <3>5
    <3> QED
      BY <3>4, <3>5
  <2> HIDE DEF Right
  <2> QED
    BY <2>1, <2>2, NatSetInduction
<1>8. picked[N] \in Seq(A \intersect set) /\ R(picked[N]) = R(list) \intersect set
  <2>1. N \in Right
    BY <1>1, <1>5
  <2> HIDE DEF N
  <2> QED
    BY <1>1, <1>6, <2>1
<1> QED
  BY <1>4, <1>8 DEF R, Picks

\* A list, whatever it is made of.
IsList(list) == \E A : list \in Seq(A)

\* Learn: what is known after no event, and after one more.
LEMMA LearnMore ==
  ASSUME NEW i, NEW known, NEW events, IsList(events), NEW body
  PROVE  /\ Units(i)!Learn(known, <<>>) = known
         /\ Units(i)!Learn(known, Append(events, body)) = Units(i)!Told(Units(i)!Learn(known, events), body)
<1> DEFINE Step(f, list, n) == IF n = 0 THEN known ELSE Units(i)!Told(f[n - 1], list[n])
           Solution(list) == CHOOSE f : f = [m \in 0 .. Len(list) |-> Step(f, list, m)]
<1>1. \A list : Units(i)!Learn(known, list) = Solution(list)[Len(list)]
  BY DEF Units!Learn
<1>2. ASSUME NEW list, Len(list) \in Nat
      PROVE  Solution(list) = [m \in 0 .. Len(list) |-> Step(Solution(list), list, m)]
  <2> DEFINE Solved == {n \in Nat : \E f : f = [m \in 0 .. n |-> Step(f, list, m)]}
  <2>1. 0 \in Solved
    <3> DEFINE f == [m \in 0 .. 0 |-> known]
    <3>1. f = [m \in 0 .. 0 |-> Step(f, list, m)]
      OBVIOUS
    <3> HIDE DEF f, Step
    <3>2. \E g : g = [m \in 0 .. 0 |-> Step(g, list, m)]
      BY <3>1, Zenon
    <3> QED
      BY <3>2
  <2>2. ASSUME NEW n \in Nat, n \in Solved
        PROVE  n + 1 \in Solved
    <3>1. PICK f : f = [m \in 0 .. n |-> Step(f, list, m)]
      BY <2>2
    <3> DEFINE g == [m \in 0 .. n + 1 |-> IF m \in 0 .. n THEN f[m] ELSE Step(f, list, m)]
    <3>2. ASSUME NEW m \in 0 .. n + 1
          PROVE  g[m] = Step(g, list, m)
      <4>1. g[m] = Step(f, list, m)
        <5> HIDE DEF Step
        <5> QED
          BY <3>1
      <4>2. m # 0 => g[m - 1] = f[m - 1]
        OBVIOUS
      <4> HIDE DEF g
      <4> QED
        BY <4>1, <4>2
    <3>3. g = [m \in 0 .. n + 1 |-> g[m]]
      OBVIOUS
    <3> HIDE DEF g, Step
    <3>4. g = [m \in 0 .. n + 1 |-> Step(g, list, m)]
      BY <3>2, <3>3
    <3>5. \E h : h = [m \in 0 .. n + 1 |-> Step(h, list, m)]
      BY <3>4, Zenon
    <3> QED
      BY <3>5
  <2> HIDE DEF Solved
  <2>3. Len(list) \in Solved
    BY <1>2, <2>1, <2>2, NatSetInduction
  <2>4. \E f : f = [m \in 0 .. Len(list) |-> Step(f, list, m)]
    BY <2>3 DEF Solved
  <2> HIDE DEF Step
  <2> QED
    BY <2>4
<1> DEFINE more == Append(events, body)
           N == Len(events)
<1>3. /\ N \in Nat /\ Len(more) = N + 1 /\ more[N + 1] = body
      /\ \A m \in 1 .. N : more[m] = events[m]
  BY DEF IsList
<1>4. Len(<<>>) = 0
  OBVIOUS
<1> HIDE DEF Solution, more, N
<1>5. Units(i)!Learn(known, <<>>) = known
  <2>1. Solution(<<>>)[0] = Step(Solution(<<>>), <<>>, 0)
    BY <1>2, <1>4
  <2> QED
    BY <1>1, <1>4, <2>1
<1>6. \A n \in Nat : n \in {m \in Nat : m <= N => Solution(more)[m] = Solution(events)[m]}
  <2> DEFINE Same == {m \in Nat : m <= N => Solution(more)[m] = Solution(events)[m]}
  <2>1. \A m \in 0 .. N : /\ Solution(events)[m] = Step(Solution(events), events, m)
                          /\ Solution(more)[m] = Step(Solution(more), more, m)
    <3>1. \A m \in 0 .. Len(events) : Solution(events)[m] = Step(Solution(events), events, m)
      <4> HIDE DEF Step
      <4> QED
        BY <1>2, <1>3 DEF N
    <3>2. \A m \in 0 .. Len(more) : Solution(more)[m] = Step(Solution(more), more, m)
      <4> HIDE DEF Step
      <4> QED
        BY <1>2, <1>3
    <3> HIDE DEF Step
    <3> QED
      BY <1>3, <3>1, <3>2 DEF N
  <2>2. 0 \in Same
    BY <1>3, <2>1
  <2>3. ASSUME NEW n \in Nat, n \in Same
        PROVE  n + 1 \in Same
    <3> SUFFICES ASSUME n + 1 <= N
                 PROVE  Solution(more)[n + 1] = Solution(events)[n + 1]
      OBVIOUS
    <3>1. n + 1 \in 0 .. N /\ n + 1 \in 1 .. N /\ n + 1 # 0 /\ (n + 1) - 1 = n /\ n <= N
      BY <1>3
    <3>2. Solution(more)[n] = Solution(events)[n] /\ more[n + 1] = events[n + 1]
      BY <1>3, <2>3, <3>1
    <3>3. /\ Solution(events)[n + 1] = Units(i)!Told(Solution(events)[n], events[n + 1])
          /\ Solution(more)[n + 1] = Units(i)!Told(Solution(more)[n], more[n + 1])
      BY <2>1, <3>1
    <3> QED
      BY <3>2, <3>3
  <2> HIDE DEF Same
  <2>4. \A n \in Nat : n \in Same
    BY <2>2, <2>3, NatSetInduction
  <2> QED
    BY <2>4 DEF Same
<1>7. Solution(more)[N + 1] = Units(i)!Told(Solution(events)[N], body)
  <2>1. Solution(more)[N + 1] = Step(Solution(more), more, N + 1)
    <3>1. N + 1 \in 0 .. Len(more)
      BY <1>3
    <3> HIDE DEF Step
    <3> QED
      BY <1>2, <1>3, <3>1
  <2>2. N + 1 # 0 /\ (N + 1) - 1 = N /\ N <= N
    BY <1>3
  <2>3. Solution(more)[N] = Solution(events)[N]
    BY <1>3, <1>6, <2>2
  <2> QED
    BY <1>3, <2>1, <2>2, <2>3
<1> QED
  BY <1>1, <1>3, <1>5, <1>7 DEF N, more

\* AsList: a list of a finite set has its elements.
LEMMA ListHas ==
  ASSUME NEW i, NEW A, IsFiniteSet(A)
  PROVE  Units(i)!AsList(A) \in Seq(A) /\ Units(i)!Range(Units(i)!AsList(A)) = A
<1>1. Units(i)!Cardinality(A) = Cardinality(A)
  BY DEF Units!Cardinality, Units!IsFiniteSet, Cardinality, IsFiniteSet
<1>2. Cardinality(A) \in Nat /\ \E f : f \in Bijection(1 .. Cardinality(A), A)
  BY FS_CardinalityType DEF ExistsBijection
<1>3. PICK f : f \in Bijection(1 .. Cardinality(A), A)
  BY <1>2
<1>4. f \in [1 .. Cardinality(A) -> A] /\ Units(i)!Range(f) = A
  BY <1>3 DEF Bijection, Injection, Surjection, Units!Range
<1>5. /\ Units(i)!AsList(A) \in [1 .. Cardinality(A) -> A]
      /\ Units(i)!Range(Units(i)!AsList(A)) = A
  BY <1>1, <1>4 DEF Units!AsList
<1> QED
  BY <1>2, <1>5

AggregateKinds == {"user", "tenant", "membership", "role", "apiKey", "invitation"}

\* The fields of an aggregate that its events carry.
EventFields(k) ==
    CASE k = "user" -> {"email", "status"}
      [] k = "tenant" -> {"name", "status"}
      [] k = "membership" -> {"roleIds", "status"}
      [] k = "role" -> {"name", "isSystem"}
      [] k = "apiKey" -> {"revokedAt"}
      [] k = "invitation" -> {"email", "consumedAt"}

EndedAt(i, o) ==
    CASE o.kind = "apiKey" -> o.revokedAt
      [] o.kind = "invitation" -> o.consumedAt
      [] OTHER -> Units(i)!Never

IdList(i, ids) == ids \in Seq(i.roleIds) /\ Units(i)!Range(ids) # {}

Bundle(i, o) ==
    /\ o.isSystem \in BOOLEAN /\ (o.isSystem <=> o.name \in Units(i)!SystemRoleNames)
    /\ o.permissions \in Seq(Units(i)!Range(i.catalog)) /\ Units(i)!Range(o.permissions) # {}
    /\ o.isSystem => Units(i)!Range(o.permissions) = Units(i)!Range(Units(i)!PermissionsFor(o.name))

\* The aggregates of a kind.
Whole(i, o, k) ==
    /\ o.kind = k
    /\ k = "user" => DOMAIN o = {"kind", "email", "name", "status"} /\ o.name # ""
    /\ k = "tenant" => DOMAIN o = {"kind", "name", "status"} /\ o.name # ""
    /\ k = "membership" => DOMAIN o = {"kind", "roleIds", "status"} /\ IdList(i, o.roleIds)
    /\ k = "role" => DOMAIN o = {"kind", "name", "isSystem", "permissions"} /\ o.name # "" /\ Bundle(i, o)
    /\ k = "apiKey" =>
          /\ DOMAIN o = {"kind", "name", "permissions", "expiresAt", "revokedAt", "lastUsedAt"}
          /\ o.name # "" /\ o.permissions # {} /\ i.manage \notin o.permissions
    /\ k = "invitation" =>
          /\ DOMAIN o = {"kind", "email", "roleIds", "expiresAt", "consumedAt"}
          /\ o.expiresAt = i.expiresAt /\ IdList(i, o.roleIds)

\* What an outcome of a method tells of what it changes.
Honest(i, k, o, x) ==
    \/ x.events = <<>> /\ (k = "invitation" \/ \A f \in EventFields(k) : x.object[f] = o[f])
    \/ \E b : /\ x.events = <<b>> /\ DOMAIN b \subseteq EventFields(k)
              /\ \A f \in EventFields(k) : x.object[f] = IF f \in DOMAIN b THEN b[f] ELSE o[f]

\* What the outcome of a factory tells: all of it.
Introduced(k, x) ==
    \E b : x.events = <<b>> /\ DOMAIN b = EventFields(k) /\ \A f \in EventFields(k) : x.object[f] = b[f]

\* Names that are not empty, of custom roles and of system roles.
LEMMA Names ==
  ASSUME NEW i, NEW e
  PROVE  /\ \A n \in Units(i)!NameOf(e) : n # ""
         /\ \A n \in Units(i)!RoleNameOf(e) : n # "" /\ n \notin Units(i)!SystemRoleNames
  BY DEF Units!NameOf, Units!RoleNameOf

LEMMA SystemNames == \A i : \A n \in Units(i)!SystemRoleNames : n # ""
  BY DEF Units!SystemRoleNames

LEMMA RoleIdLists ==
  ASSUME NEW i, NEW ids \in Units(i)!RoleIds
  PROVE  \A r \in Units(i)!NormalizeRoleIds(ids) : IdList(i, r)
<1> DEFINE R == i.roleIds
<1>1. ids \in Seq(R)
  <2>1. PICK n \in 0 .. 2 : ids \in [1 .. n -> R]
    BY DEF Units!RoleIds
  <2> HIDE DEF R
  <2> QED
    BY <2>1
<1>2. /\ Units(i)!Among(ids, R) \in Seq(R \intersect R)
      /\ Units(i)!Range(Units(i)!Among(ids, R)) = Units(i)!Range(ids) \intersect R
  <2> HIDE DEF R
  <2>1. Picks(i, R, ids, R)
    BY <1>1, AmongList
  <2> QED
    BY <2>1 DEF Picks
<1> SUFFICES ASSUME NEW r \in Units(i)!NormalizeRoleIds(ids) PROVE IdList(i, r)
  OBVIOUS
<1>3. r = Units(i)!Among(ids, i.roleIds) /\ r # <<>>
  BY DEF Units!NormalizeRoleIds
<1>4. r \in Seq(i.roleIds)
  BY <1>2, <1>3
<1>5. Len(r) \in Nat /\ Len(r) # 0 /\ DOMAIN r = 1 .. Len(r)
  BY <1>3, <1>4
<1>6. r[1] \in Units(i)!Range(r)
  BY <1>5 DEF Units!Range
<1> QED
  BY <1>4, <1>6 DEF IdList

LEMMA CatalogLists ==
  ASSUME NEW i, Units(i)!AggregatesAssumption, NEW set
  PROVE  /\ Units(i)!Among(i.catalog, set) \in Seq(Units(i)!Range(i.catalog))
         /\ Units(i)!Range(Units(i)!Among(i.catalog, set)) = Units(i)!Range(i.catalog) \intersect set
         /\ Units(i)!Among(i.catalog, set) # <<>> => Units(i)!Range(Units(i)!Among(i.catalog, set)) # {}
<1> DEFINE C == Units(i)!Range(i.catalog)
           r == Units(i)!Among(i.catalog, set)
<1>1. i.catalog \in Seq(C)
  BY DEF Units!AggregatesAssumption
<1>2. r \in Seq(C \intersect set) /\ Units(i)!Range(r) = C \intersect set
  <2>1. Picks(i, C, i.catalog, set)
    BY <1>1, AmongList
  <2> QED
    BY <2>1 DEF Picks
<1> HIDE DEF r, C
<1>3. r \in Seq(C)
  BY <1>2
<1>4. r # <<>> => Units(i)!Range(r) # {}
  <2> SUFFICES ASSUME r # <<>> PROVE Units(i)!Range(r) # {}
    OBVIOUS
  <2>1. Len(r) \in Nat /\ Len(r) # 0 /\ DOMAIN r = 1 .. Len(r)
    BY <1>3
  <2>2. r[1] \in Units(i)!Range(r)
    BY <2>1 DEF Units!Range
  <2> QED
    BY <2>2
<1> QED
  BY <1>2, <1>3, <1>4 DEF C, r

LEMMA SystemBundles ==
  ASSUME NEW i, Units(i)!AggregatesAssumption, NEW n \in Units(i)!SystemRoleNames
  PROVE  /\ Units(i)!PermissionsFor(n) \in Seq(Units(i)!Range(i.catalog))
         /\ Units(i)!Range(Units(i)!PermissionsFor(n)) # {}
<1> DEFINE C == Units(i)!Range(i.catalog)
<1>1. i.catalog \in Seq(C) /\ i.manage \in C /\ C # {i.manage}
  BY DEF Units!AggregatesAssumption
<1>2. C \intersect {i.manage} # {} /\ C \intersect (C \ {i.manage}) # {}
  BY <1>1
<1>3. n \in {"Owner", "Admin", "Member"}
  BY DEF Units!SystemRoleNames
<1>4. CASE n = "Owner"
  BY <1>1, <1>4 DEF Units!PermissionsFor
<1>5. CASE n = "Admin"
  <2>1. Units(i)!PermissionsFor(n) = Units(i)!Among(i.catalog, {i.manage})
    BY <1>5 DEF Units!PermissionsFor
  <2> QED
    BY <1>2, <2>1, CatalogLists
<1>6. CASE n = "Member"
  <2>1. Units(i)!PermissionsFor(n) = Units(i)!Among(i.catalog, C \ {i.manage})
    BY <1>6 DEF Units!PermissionsFor
  <2> QED
    BY <1>2, <2>1, CatalogLists
<1> QED
  BY <1>3, <1>4, <1>5, <1>6

\* A factory's aggregate is whole, and told whole.
Founded(i, k, x) == Whole(i, x.object, k) /\ Introduced(k, x)

LEMMA FoundedBy ==
  ASSUME NEW i, NEW k, NEW o, NEW b, NEW x, x = Units(i)!Tells(o, b),
         Whole(i, o, k), DOMAIN b = EventFields(k), \A f \in EventFields(k) : o[f] = b[f]
  PROVE  Founded(i, k, x)
<1>1. x.object = o /\ x.events = <<b>>
  BY DEF Units!Tells
<1> QED
  BY <1>1 DEF Founded, Introduced

LEMMA PeopleCreated ==
  ASSUME NEW i
  PROVE  /\ \A outcome \in Units(i)!UserCreate : \A x \in outcome : Founded(i, "user", x)
         /\ \A outcome \in Units(i)!TenantCreate : \A x \in outcome : Founded(i, "tenant", x)
<1> DEFINE User(e, n) ==
      Units(i)!Tells([kind |-> "user", email |-> e, name |-> n, status |-> "active"], [email |-> e, status |-> "active"])
           Users(a, e) == {User(m, n) : m \in Units(i)!EmailOf(a), n \in Units(i)!NameOf(e)}
           Tenancy(n) ==
      Units(i)!Tells([kind |-> "tenant", name |-> n, status |-> "active"], [name |-> n, status |-> "active"])
           Tenants(e) == {Tenancy(n) : n \in Units(i)!NameOf(e)}
<1>1. ASSUME NEW e, NEW n, n # ""
      PROVE  Founded(i, "user", User(e, n))
  <2> DEFINE o == [kind |-> "user", email |-> e, name |-> n, status |-> "active"]
             b == [email |-> e, status |-> "active"]
  <2>1. Whole(i, o, "user")
    BY <1>1 DEF Whole
  <2>2. DOMAIN b = EventFields("user") /\ \A f \in EventFields("user") : o[f] = b[f]
    BY DEF EventFields
  <2>3. User(e, n) = Units(i)!Tells(o, b)
    OBVIOUS
  <2> HIDE DEF o, b, User
  <2> QED
    BY <2>1, <2>2, <2>3, FoundedBy
<1>2. ASSUME NEW n, n # ""
      PROVE  Founded(i, "tenant", Tenancy(n))
  <2> DEFINE o == [kind |-> "tenant", name |-> n, status |-> "active"]
             b == [name |-> n, status |-> "active"]
  <2>1. Whole(i, o, "tenant")
    BY <1>2 DEF Whole
  <2>2. DOMAIN b = EventFields("tenant") /\ \A f \in EventFields("tenant") : o[f] = b[f]
    BY DEF EventFields
  <2>3. Tenancy(n) = Units(i)!Tells(o, b)
    OBVIOUS
  <2> HIDE DEF o, b, Tenancy
  <2> QED
    BY <2>1, <2>2, <2>3, FoundedBy
<1>3. /\ Units(i)!UserCreate = {Users(a, e) : a \in i.addresses, e \in i.entered}
      /\ Units(i)!TenantCreate = {Tenants(e) : e \in i.entered}
  BY DEF Units!UserCreate, Units!TenantCreate
<1> HIDE DEF User, Tenancy
<1>4. ASSUME NEW a, NEW e, NEW x \in Users(a, e)
      PROVE  Founded(i, "user", x)
  <2>1. PICK m \in Units(i)!EmailOf(a), n \in Units(i)!NameOf(e) : x = User(m, n)
    BY <1>4
  <2> HIDE DEF Users
  <2>2. n # ""
    BY <2>1 DEF Units!NameOf
  <2> QED
    BY <1>1, <2>1, <2>2
<1>5. \A e : \A x \in Tenants(e) : Founded(i, "tenant", x)
  BY <1>2, Names
<1> HIDE DEF Users, Tenants
<1> QED
  BY <1>3, <1>4, <1>5

LEMMA MembersCreated ==
  ASSUME NEW i
  PROVE  /\ \A outcome \in Units(i)!MembershipCreate : \A x \in outcome : Founded(i, "membership", x)
         /\ \A outcome \in Units(i)!InvitationCreate : \A x \in outcome : Founded(i, "invitation", x)
<1> DEFINE Member(r) ==
      Units(i)!Tells([kind |-> "membership", roleIds |-> r, status |-> "active"], [roleIds |-> r, status |-> "active"])
           Memberships(ids) == {Member(r) : r \in Units(i)!NormalizeRoleIds(ids)}
           Invitation(e, r) ==
      Units(i)!Tells([kind |-> "invitation", email |-> e, roleIds |-> r, expiresAt |-> i.expiresAt,
                      consumedAt |-> Units(i)!Never], [email |-> e, consumedAt |-> Units(i)!Never])
           Invitations(a, ids) == {Invitation(e, r) : e \in Units(i)!EmailOf(a), r \in Units(i)!NormalizeRoleIds(ids)}
<1>1. \A r : IdList(i, r) => Founded(i, "membership", Member(r))
  BY DEF Founded, Whole, Introduced, EventFields, Units!Tells
<1>2. \A e, r : IdList(i, r) => Founded(i, "invitation", Invitation(e, r))
  BY DEF Founded, Whole, Introduced, EventFields, Units!Tells
<1>3. /\ Units(i)!MembershipCreate = {Memberships(ids) : ids \in Units(i)!RoleIds}
      /\ Units(i)!InvitationCreate = {Invitations(a, ids) : a \in i.addresses, ids \in Units(i)!RoleIds}
  BY DEF Units!MembershipCreate, Units!InvitationCreate
<1> HIDE DEF Member, Invitation
<1>4. \A ids \in Units(i)!RoleIds : \A x \in Memberships(ids) : Founded(i, "membership", x)
  BY <1>1, RoleIdLists
<1>5. \A a : \A ids \in Units(i)!RoleIds : \A x \in Invitations(a, ids) : Founded(i, "invitation", x)
  BY <1>2, RoleIdLists
<1> HIDE DEF Memberships, Invitations
<1> QED
  BY <1>3, <1>4, <1>5

LEMMA KeysCreated ==
  ASSUME NEW i
  PROVE  \A outcome \in Units(i)!ApiKeyCreate : \A x \in outcome : Founded(i, "apiKey", x)
<1> DEFINE Key(n, p, t) ==
      Units(i)!Tells([kind |-> "apiKey", name |-> n, permissions |-> p, expiresAt |-> t,
                      revokedAt |-> Units(i)!Never, lastUsedAt |-> Units(i)!Never], [revokedAt |-> Units(i)!Never])
           Made(e, ps, t) == {Key(n, p, t) : n \in Units(i)!NameOf(e), p \in Units(i)!KeyPermissions(ps)}
<1>1. ASSUME NEW n, NEW p, NEW t, n # "", p # {}, i.manage \notin p
      PROVE  Founded(i, "apiKey", Key(n, p, t))
  <2> DEFINE o == [kind |-> "apiKey", name |-> n, permissions |-> p, expiresAt |-> t,
                   revokedAt |-> Units(i)!Never, lastUsedAt |-> Units(i)!Never]
             b == [revokedAt |-> Units(i)!Never]
  <2>1. Whole(i, o, "apiKey")
    BY <1>1 DEF Whole
  <2>2. DOMAIN b = EventFields("apiKey") /\ \A f \in EventFields("apiKey") : o[f] = b[f]
    BY DEF EventFields
  <2>3. Key(n, p, t) = Units(i)!Tells(o, b)
    OBVIOUS
  <2> HIDE DEF o, b, Key
  <2> QED
    BY <2>1, <2>2, <2>3, FoundedBy
<1>2. Units(i)!ApiKeyCreate =
        {Made(e, ps, t) : e \in i.entered, ps \in Units(i)!Permissions, t \in {Units(i)!Never, i.expiresAt}}
  BY DEF Units!ApiKeyCreate
<1>3. \A ps : \A p \in Units(i)!KeyPermissions(ps) : p # {} /\ i.manage \notin p
  BY DEF Units!KeyPermissions
<1> HIDE DEF Key
<1>4. ASSUME NEW e, NEW ps, NEW t, NEW x \in Made(e, ps, t)
      PROVE  Founded(i, "apiKey", x)
  <2>1. PICK n \in Units(i)!NameOf(e), p \in Units(i)!KeyPermissions(ps) : x = Key(n, p, t)
    BY <1>4
  <2> HIDE DEF Made
  <2>2. p # {} /\ i.manage \notin p
    BY <1>3, <2>1
  <2>3. n # ""
    BY <2>1 DEF Units!NameOf
  <2> QED
    BY <1>1, <2>1, <2>2, <2>3
<1> HIDE DEF Made
<1> QED
  BY <1>2, <1>4

LEMMA RolesCreated ==
  ASSUME NEW i, Units(i)!AggregatesAssumption
  PROVE  \A outcome \in Units(i)!RoleCreate : \A x \in outcome : Founded(i, "role", x)
<1> DEFINE System(n) ==
      Units(i)!Tells([kind |-> "role", name |-> n, isSystem |-> TRUE, permissions |-> Units(i)!PermissionsFor(n)],
                     [name |-> n, isSystem |-> TRUE])
           Custom(n, p) ==
      Units(i)!Tells([kind |-> "role", name |-> n, isSystem |-> FALSE, permissions |-> p],
                     [name |-> n, isSystem |-> FALSE])
           Customs(e, ps) == {Custom(n, p) : n \in Units(i)!RoleNameOf(e), p \in Units(i)!NormalizePermissions(ps)}
<1>1. Units(i)!RoleCreate = {{System(n)} : n \in Units(i)!SystemRoleNames}
                            \union {Customs(e, ps) : e \in i.entered, ps \in Units(i)!Permissions}
  BY DEF Units!RoleCreate
<1>2. ASSUME NEW n \in Units(i)!SystemRoleNames
      PROVE  Founded(i, "role", System(n))
  <2> DEFINE o == [kind |-> "role", name |-> n, isSystem |-> TRUE, permissions |-> Units(i)!PermissionsFor(n)]
             b == [name |-> n, isSystem |-> TRUE]
  <2>1. Bundle(i, o)
    BY SystemBundles DEF Bundle
  <2>2. n # ""
    BY SystemNames
  <2>3. Whole(i, o, "role")
    BY <2>1, <2>2 DEF Whole
  <2>4. DOMAIN b = EventFields("role") /\ \A f \in EventFields("role") : o[f] = b[f]
    <3>1. DOMAIN b = {"name", "isSystem"}
      OBVIOUS
    <3>2. o.name = b.name
      OBVIOUS
    <3>3. o.isSystem = b.isSystem
      BY Zenon
    <3> HIDE DEF o, b
    <3> QED
      BY <3>1, <3>2, <3>3 DEF EventFields
  <2>5. System(n) = Units(i)!Tells(o, b)
    OBVIOUS
  <2> HIDE DEF o, b, System
  <2> QED
    BY <2>3, <2>4, <2>5, FoundedBy
<1>3. ASSUME NEW e, NEW ps, NEW n \in Units(i)!RoleNameOf(e), NEW p \in Units(i)!NormalizePermissions(ps)
      PROVE  Founded(i, "role", Custom(n, p))
  <2> DEFINE o == [kind |-> "role", name |-> n, isSystem |-> FALSE, permissions |-> p]
             b == [name |-> n, isSystem |-> FALSE]
  <2>1. p = Units(i)!Among(i.catalog, ps) /\ p # <<>>
    BY DEF Units!NormalizePermissions
  <2>2. p \in Seq(Units(i)!Range(i.catalog)) /\ Units(i)!Range(p) # {}
    BY <2>1, CatalogLists
  <2>3. n # "" /\ n \notin Units(i)!SystemRoleNames
    BY Names
  <2>4. Bundle(i, o)
    BY <2>2, <2>3 DEF Bundle
  <2>5. Whole(i, o, "role")
    BY <2>3, <2>4 DEF Whole
  <2>6. DOMAIN b = EventFields("role") /\ \A f \in EventFields("role") : o[f] = b[f]
    <3>1. DOMAIN b = {"name", "isSystem"}
      OBVIOUS
    <3>2. o.name = b.name
      OBVIOUS
    <3>3. o.isSystem = b.isSystem
      BY Zenon
    <3> HIDE DEF o, b
    <3> QED
      BY <3>1, <3>2, <3>3 DEF EventFields
  <2>7. Custom(n, p) = Units(i)!Tells(o, b)
    OBVIOUS
  <2> HIDE DEF o, b, Custom
  <2> QED
    BY <2>5, <2>6, <2>7, FoundedBy
<1> HIDE DEF System, Custom
<1>4. ASSUME NEW e, NEW ps, NEW x \in Customs(e, ps)
      PROVE  Founded(i, "role", x)
  <2>1. PICK n \in Units(i)!RoleNameOf(e), p \in Units(i)!NormalizePermissions(ps) : x = Custom(n, p)
    BY <1>4
  <2> HIDE DEF Customs
  <2> QED
    BY <1>3, <2>1
<1> HIDE DEF Customs
<1>5. ASSUME NEW outcome \in Units(i)!RoleCreate, NEW x \in outcome
      PROVE  Founded(i, "role", x)
  <2>1. CASE outcome \in {{System(n)} : n \in Units(i)!SystemRoleNames}
    BY <1>2, <1>5, <2>1
  <2>2. CASE outcome \in {Customs(e, ps) : e \in i.entered, ps \in Units(i)!Permissions}
    BY <1>4, <1>5, <2>2
  <2> QED
    BY <1>1, <1>5, <2>1, <2>2
<1> QED
  BY <1>5

LEMMA CreatedWhole ==
  ASSUME NEW i, Units(i)!AggregatesAssumption, NEW k \in AggregateKinds,
         NEW outcome \in Units(i)!Create(k), NEW x \in outcome
  PROVE  Whole(i, x.object, k) /\ Introduced(k, x)
<1> SUFFICES Founded(i, k, x)
  BY DEF Founded
<1>1. /\ k = "user" => outcome \in Units(i)!UserCreate
      /\ k = "tenant" => outcome \in Units(i)!TenantCreate
      /\ k = "membership" => outcome \in Units(i)!MembershipCreate
      /\ k = "role" => outcome \in Units(i)!RoleCreate
      /\ k = "apiKey" => outcome \in Units(i)!ApiKeyCreate
      /\ k = "invitation" => outcome \in Units(i)!InvitationCreate
  BY DEF Units!Create
<1> QED
  BY <1>1, PeopleCreated, MembersCreated, RolesCreated, KeysCreated DEF AggregateKinds

\* What a method makes of an aggregate: a whole one, that ends when it did, and
\* the subscribers are told of what they know.
Changed(i, k, o, x) ==
    /\ Whole(i, x.object, k)
    /\ EndedAt(i, o) # Units(i)!Never => EndedAt(i, x.object) = EndedAt(i, o)
    /\ Honest(i, k, o, x)

LEMMA FieldsOf ==
  ASSUME NEW i, NEW k \in AggregateKinds, NEW o, Whole(i, o, k)
  PROVE  EventFields(k) \subseteq DOMAIN o /\ "kind" \in DOMAIN o \ EventFields(k)
  BY DEF AggregateKinds, EventFields, Whole

LEMMA Spoken ==
  ASSUME NEW i, NEW k \in AggregateKinds, NEW o, Whole(i, o, k), NEW b, NEW g \in EventFields(k), DOMAIN b = {g},
         NEW x, x = Units(i)!Tells([o EXCEPT ![g] = b[g]], b)
  PROVE  x.object = [o EXCEPT ![g] = b[g]] /\ Honest(i, k, o, x)
<1>1. x.object = [o EXCEPT ![g] = b[g]] /\ x.events = <<b>>
  BY DEF Units!Tells
<1>2. \A f \in EventFields(k) : x.object[f] = IF f \in DOMAIN b THEN b[f] ELSE o[f]
  BY <1>1, FieldsOf
<1> QED
  BY <1>1, <1>2 DEF Honest

LEMMA Unspoken ==
  ASSUME NEW i, NEW k, NEW o, NEW x, x.events \in {<<>>, <<<<>>>>}, \A f \in EventFields(k) : x.object[f] = o[f]
  PROVE  Honest(i, k, o, x)
<1>1. DOMAIN <<>> = {}
  OBVIOUS
<1> QED
  BY <1>1 DEF Honest

LEMMA StatusChanged ==
  ASSUME NEW i, NEW k \in {"user", "tenant", "membership"}, NEW o, Whole(i, o, k),
         NEW outcome \in Units(i)!StatusCalls(o), NEW x \in outcome
  PROVE  Changed(i, k, o, x)
<1>1. PICK st \in {"active", "suspended"} : outcome = Units(i)!SetStatus(o, st)
  BY DEF Units!StatusCalls
<1> DEFINE b == [status |-> st]
<1>2. x = Units(i)!Tells([o EXCEPT !.status = b.status], b)
  BY <1>1 DEF Units!SetStatus
<1>3. k \in AggregateKinds /\ "status" \in EventFields(k) /\ DOMAIN b = {"status"}
  BY DEF AggregateKinds, EventFields
<1> HIDE DEF b
<1>4. x.object = [o EXCEPT !.status = b.status] /\ Honest(i, k, o, x)
  <2>1. x.object = [o EXCEPT !.status = b.status]
    BY <1>2 DEF Units!Tells
  <2>2. Honest(i, k, o, x)
    BY <1>2, <1>3, Spoken
  <2> QED
    BY <2>1, <2>2
<1>5. Whole(i, x.object, k) /\ EndedAt(i, x.object) = EndedAt(i, o)
  BY <1>4 DEF Whole, EndedAt
<1> QED
  BY <1>4, <1>5 DEF Changed

LEMMA TenantChanged ==
  ASSUME NEW i, NEW o, Whole(i, o, "tenant"), NEW outcome \in Units(i)!TenantCalls(o), NEW x \in outcome
  PROVE  Changed(i, "tenant", o, x)
<1> DEFINE Renamed(n) == Units(i)!Tells([o EXCEPT !.name = n], [name |-> n])
           Renames(e) == {Renamed(n) : n \in Units(i)!NameOf(e)}
<1>1. Units(i)!TenantCalls(o) = Units(i)!StatusCalls(o) \union {Renames(e) : e \in i.entered}
  BY DEF Units!TenantCalls
<1> HIDE DEF Renamed
<1>2. ASSUME NEW e, x \in Renames(e)
      PROVE  Changed(i, "tenant", o, x)
  <2>1. PICK n \in Units(i)!NameOf(e) : x = Renamed(n)
    BY <1>2
  <2> HIDE DEF Renames
  <2>2. n # ""
    BY <2>1 DEF Units!NameOf
  <2> DEFINE b == [name |-> n]
  <2>3. "tenant" \in AggregateKinds /\ "name" \in EventFields("tenant") /\ DOMAIN b = {"name"} /\ b.name = n
    BY DEF AggregateKinds, EventFields
  <2>4. x = Units(i)!Tells([o EXCEPT !.name = b.name], b)
    BY <2>1, <2>3 DEF Renamed
  <2> HIDE DEF b
  <2>5. x.object = [o EXCEPT !.name = b.name] /\ Honest(i, "tenant", o, x)
    BY <2>3, <2>4, Spoken
  <2>6. Whole(i, x.object, "tenant") /\ EndedAt(i, x.object) = EndedAt(i, o)
    BY <2>2, <2>3, <2>5 DEF Whole, EndedAt
  <2> QED
    BY <2>5, <2>6 DEF Changed
<1> HIDE DEF Renames
<1> QED
  BY <1>1, <1>2, StatusChanged

LEMMA MembershipChanged ==
  ASSUME NEW i, NEW o, Whole(i, o, "membership"), NEW outcome \in Units(i)!MembershipCalls(o), NEW x \in outcome
  PROVE  Changed(i, "membership", o, x)
<1> DEFINE Replaced(r) == Units(i)!Tells([o EXCEPT !.roleIds = r], [roleIds |-> r])
           Replacements(ids) == {Replaced(r) : r \in Units(i)!NormalizeRoleIds(ids)}
<1>1. Units(i)!MembershipCalls(o) = Units(i)!StatusCalls(o) \union {Replacements(ids) : ids \in Units(i)!RoleIds}
  BY DEF Units!MembershipCalls
<1> HIDE DEF Replaced
<1>2. ASSUME NEW ids \in Units(i)!RoleIds, x \in Replacements(ids)
      PROVE  Changed(i, "membership", o, x)
  <2>1. PICK r \in Units(i)!NormalizeRoleIds(ids) : x = Replaced(r)
    BY <1>2
  <2> HIDE DEF Replacements
  <2>2. IdList(i, r)
    BY RoleIdLists
  <2> DEFINE b == [roleIds |-> r]
  <2>3. /\ "membership" \in AggregateKinds /\ "roleIds" \in EventFields("membership")
        /\ DOMAIN b = {"roleIds"} /\ b.roleIds = r
    BY DEF AggregateKinds, EventFields
  <2>4. x = Units(i)!Tells([o EXCEPT !.roleIds = b.roleIds], b)
    BY <2>1, <2>3 DEF Replaced
  <2> HIDE DEF b
  <2>5. x.object = [o EXCEPT !.roleIds = b.roleIds] /\ Honest(i, "membership", o, x)
    BY <2>3, <2>4, Spoken
  <2>6. Whole(i, x.object, "membership") /\ EndedAt(i, x.object) = EndedAt(i, o)
    BY <2>2, <2>3, <2>5 DEF Whole, EndedAt
  <2> QED
    BY <2>5, <2>6 DEF Changed
<1> HIDE DEF Replacements
<1> QED
  BY <1>1, <1>2, StatusChanged

LEMMA RoleChanged ==
  ASSUME NEW i, Units(i)!AggregatesAssumption,
         NEW o, Whole(i, o, "role"), NEW outcome \in Units(i)!RoleCalls(o), NEW x \in outcome
  PROVE  Changed(i, "role", o, x)
<1> DEFINE Renamed(n) == Units(i)!Tells([o EXCEPT !.name = n], [name |-> n])
           Renames(e) == {Renamed(n) : n \in Units(i)!RoleNameOf(e)}
           Regranted(p) == Units(i)!Tells([o EXCEPT !.permissions = p], <<>>)
           Regrants(ps) == {Regranted(p) : p \in Units(i)!NormalizePermissions(ps)}
<1>1. /\ ~o.isSystem
      /\ outcome \in {Renames(e) : e \in i.entered} \union {Regrants(ps) : ps \in Units(i)!Permissions}
  <2>1. CASE o.isSystem
    BY <2>1 DEF Units!RoleCalls
  <2>2. CASE ~o.isSystem
    BY <2>2 DEF Units!RoleCalls
  <2> QED
    BY <2>1, <2>2
<1> HIDE DEF Renamed, Regranted
<1>2. ASSUME NEW e, x \in Renames(e)
      PROVE  Changed(i, "role", o, x)
  <2>1. PICK n \in Units(i)!RoleNameOf(e) : x = Renamed(n)
    BY <1>2
  <2> HIDE DEF Renames, Regrants
  <2>2. n # "" /\ n \notin Units(i)!SystemRoleNames
    BY <2>1 DEF Units!RoleNameOf, Units!NameOf
  <2> DEFINE b == [name |-> n]
  <2>3. "role" \in AggregateKinds /\ "name" \in EventFields("role") /\ DOMAIN b = {"name"} /\ b.name = n
    BY DEF AggregateKinds, EventFields
  <2>4. x = Units(i)!Tells([o EXCEPT !.name = b.name], b)
    BY <2>1, <2>3 DEF Renamed
  <2> HIDE DEF b
  <2>5. x.object = [o EXCEPT !.name = b.name] /\ Honest(i, "role", o, x)
    BY <2>3, <2>4, Spoken
  <2>6. /\ DOMAIN x.object = DOMAIN o /\ x.object.kind = o.kind /\ x.object.name = n
        /\ x.object.permissions = o.permissions /\ DOMAIN o = {"kind", "name", "isSystem", "permissions"}
    BY <2>3, <2>5 DEF Whole
  <2>7. x.object.isSystem = o.isSystem
    BY <2>5, <2>6
  <2>8. Bundle(i, x.object)
    BY <1>1, <2>2, <2>6, <2>7 DEF Whole, Bundle
  <2>9. Whole(i, x.object, "role") /\ EndedAt(i, x.object) = EndedAt(i, o)
    BY <2>2, <2>6, <2>8 DEF Whole, EndedAt
  <2> QED
    BY <2>5, <2>9 DEF Changed
<1>3. ASSUME NEW ps, x \in Regrants(ps)
      PROVE  Changed(i, "role", o, x)
  <2>1. PICK p \in Units(i)!NormalizePermissions(ps) : x = Regranted(p)
    BY <1>3
  <2> HIDE DEF Renames, Regrants
  <2>2. p = Units(i)!Among(i.catalog, ps) /\ p # <<>>
    BY <2>1 DEF Units!NormalizePermissions
  <2>3. p \in Seq(Units(i)!Range(i.catalog)) /\ Units(i)!Range(p) # {}
    BY <2>2, CatalogLists
  <2>4. "role" \in AggregateKinds /\ "permissions" \notin EventFields("role")
    BY DEF AggregateKinds, EventFields
  <2>5. x.object = [o EXCEPT !.permissions = p] /\ Honest(i, "role", o, x)
    <3>1. x.object = [o EXCEPT !.permissions = p] /\ x.events = <<<<>>>>
      BY <2>1 DEF Regranted, Units!Tells
    <3>2. \A f \in EventFields("role") : x.object[f] = o[f]
      BY <2>4, <3>1, FieldsOf
    <3> QED
      <4>1. x.events \in {<<>>, <<<<>>>>}
        BY <3>1
      <4>2. Honest(i, "role", o, x)
        BY <3>2, <4>1, Unspoken
      <4> QED
        BY <3>1, <4>2
  <2>6. /\ DOMAIN x.object = DOMAIN o /\ x.object.kind = o.kind /\ x.object.name = o.name
        /\ x.object.permissions = p /\ DOMAIN o = {"kind", "name", "isSystem", "permissions"}
    BY <2>5 DEF Whole
  <2>7. x.object.isSystem = o.isSystem
    BY <2>5, <2>6
  <2>8. Bundle(i, x.object)
    BY <1>1, <2>3, <2>6, <2>7 DEF Whole, Bundle
  <2>9. Whole(i, x.object, "role") /\ EndedAt(i, x.object) = EndedAt(i, o)
    BY <2>6, <2>8 DEF Whole, EndedAt
  <2> QED
    BY <2>5, <2>9 DEF Changed
<1> HIDE DEF Renames, Regrants
<1> QED
  BY <1>1, <1>2, <1>3

LEMMA KeyChanged ==
  ASSUME NEW i, NEW o, Whole(i, o, "apiKey"), NEW t, NEW outcome \in Units(i)!ApiKeyCalls(o, t), NEW x \in outcome
  PROVE  Changed(i, "apiKey", o, x)
<1> DEFINE Used == Units(i)!Quiet([o EXCEPT !.lastUsedAt = t])
           Renamed(n) == Units(i)!Quiet([o EXCEPT !.name = n])
           Renames(e) == {Renamed(n) : n \in Units(i)!NameOf(e)}
           Regranted(p) == Units(i)!Tells([o EXCEPT !.permissions = p], <<>>)
           Regrants(ps) == {Regranted(p) : p \in Units(i)!KeyPermissions(ps)}
           Revoked == Units(i)!Tells([o EXCEPT !.revokedAt = t], [revokedAt |-> t])
<1>1. \/ outcome = {Used}
      \/ /\ o.revokedAt = Units(i)!Never
         /\ outcome \in {Renames(e) : e \in i.entered} \union {Regrants(ps) : ps \in Units(i)!Permissions}
                        \union {{Revoked}}
  <2>1. CASE o.revokedAt = Units(i)!Never
    BY <2>1 DEF Units!ApiKeyCalls
  <2>2. CASE o.revokedAt # Units(i)!Never
    BY <2>2 DEF Units!ApiKeyCalls
  <2> QED
    BY <2>1, <2>2
<1> HIDE DEF Used, Renamed, Regranted, Revoked
<1>2. "apiKey" \in AggregateKinds /\ EventFields("apiKey") = {"revokedAt"}
  BY DEF AggregateKinds, EventFields
<1>3. CASE x = Used
  <2>1. x.object = [o EXCEPT !.lastUsedAt = t] /\ Honest(i, "apiKey", o, x)
    <3>1. x.object = [o EXCEPT !.lastUsedAt = t] /\ x.events = <<>>
      BY <1>3 DEF Used, Units!Quiet
    <3>2. \A f \in EventFields("apiKey") : x.object[f] = o[f]
      BY <1>2, <3>1, FieldsOf
    <3> QED
      BY <3>1, <3>2, Unspoken
  <2>2. Whole(i, x.object, "apiKey") /\ EndedAt(i, x.object) = EndedAt(i, o)
    BY <2>1 DEF Whole, EndedAt
  <2> QED
    BY <2>1, <2>2 DEF Changed
<1>4. ASSUME NEW e, x \in Renames(e)
      PROVE  Changed(i, "apiKey", o, x)
  <2>1. PICK n \in Units(i)!NameOf(e) : x = Renamed(n)
    BY <1>4
  <2> HIDE DEF Renames, Regrants
  <2>2. n # ""
    BY <2>1 DEF Units!NameOf
  <2>3. x.object = [o EXCEPT !.name = n] /\ Honest(i, "apiKey", o, x)
    <3>1. x.object = [o EXCEPT !.name = n] /\ x.events = <<>>
      BY <2>1 DEF Renamed, Units!Quiet
    <3>2. \A f \in EventFields("apiKey") : x.object[f] = o[f]
      BY <1>2, <3>1, FieldsOf
    <3> QED
      BY <3>1, <3>2, Unspoken
  <2>4. Whole(i, x.object, "apiKey") /\ EndedAt(i, x.object) = EndedAt(i, o)
    BY <2>2, <2>3 DEF Whole, EndedAt
  <2> QED
    BY <2>3, <2>4 DEF Changed
<1>5. ASSUME NEW ps, x \in Regrants(ps)
      PROVE  Changed(i, "apiKey", o, x)
  <2>1. PICK p \in Units(i)!KeyPermissions(ps) : x = Regranted(p)
    BY <1>5
  <2> HIDE DEF Renames, Regrants
  <2>2. p # {} /\ i.manage \notin p
    BY <2>1 DEF Units!KeyPermissions
  <2>3. x.object = [o EXCEPT !.permissions = p] /\ Honest(i, "apiKey", o, x)
    <3>1. x.object = [o EXCEPT !.permissions = p] /\ x.events = <<<<>>>>
      BY <2>1 DEF Regranted, Units!Tells
    <3>2. \A f \in EventFields("apiKey") : x.object[f] = o[f]
      BY <1>2, <3>1, FieldsOf
    <3> QED
      <4>1. x.events \in {<<>>, <<<<>>>>}
        BY <3>1
      <4>2. Honest(i, "apiKey", o, x)
        BY <3>2, <4>1, Unspoken
      <4> QED
        BY <3>1, <4>2
  <2>4. Whole(i, x.object, "apiKey") /\ EndedAt(i, x.object) = EndedAt(i, o)
    BY <2>2, <2>3 DEF Whole, EndedAt
  <2> QED
    BY <2>3, <2>4 DEF Changed
<1>6. CASE x = Revoked /\ o.revokedAt = Units(i)!Never
  <2> DEFINE b == [revokedAt |-> t]
  <2>1. DOMAIN b = {"revokedAt"} /\ b.revokedAt = t
    OBVIOUS
  <2>2. x = Units(i)!Tells([o EXCEPT !.revokedAt = b.revokedAt], b)
    BY <1>6, <2>1 DEF Revoked
  <2> HIDE DEF b
  <2>3. x.object = [o EXCEPT !.revokedAt = b.revokedAt] /\ Honest(i, "apiKey", o, x)
    BY <1>2, <2>1, <2>2, Spoken
  <2>4. Whole(i, x.object, "apiKey") /\ EndedAt(i, o) = Units(i)!Never
    BY <1>6, <2>3 DEF Whole, EndedAt
  <2> QED
    BY <2>3, <2>4 DEF Changed
<1> HIDE DEF Renames, Regrants
<1> QED
  BY <1>1, <1>3, <1>4, <1>5, <1>6

LEMMA InvitationChanged ==
  ASSUME NEW i, NEW o, Whole(i, o, "invitation"), NEW t, NEW outcome \in Units(i)!InvitationCalls(o, t), NEW x \in outcome
  PROVE  Changed(i, "invitation", o, x)
<1> DEFINE b == [consumedAt |-> t]
<1>1. /\ o.consumedAt = Units(i)!Never
      /\ x \in {Units(i)!Tells([o EXCEPT !.consumedAt = t], b), Units(i)!Quiet([o EXCEPT !.consumedAt = t])}
  BY DEF Units!InvitationCalls, Units!Consume, Units!Supersede
<1>2. x.object = [o EXCEPT !.consumedAt = t] /\ x.events \in {<<b>>, <<>>}
  BY <1>1 DEF Units!Tells, Units!Quiet
<1>3. /\ "invitation" \in AggregateKinds /\ "consumedAt" \in EventFields("invitation")
      /\ DOMAIN b = {"consumedAt"} /\ b.consumedAt = t
  BY DEF AggregateKinds, EventFields
<1> HIDE DEF b
<1>4. Honest(i, "invitation", o, x)
  <2>1. CASE x.events = <<b>>
    <3>1. \A f \in EventFields("invitation") : x.object[f] = IF f \in DOMAIN b THEN b[f] ELSE o[f]
      BY <1>2, <1>3, FieldsOf
    <3> QED
      BY <1>3, <2>1, <3>1 DEF Honest
  <2>2. CASE x.events = <<>>
    BY <2>2 DEF Honest
  <2> QED
    BY <1>2, <2>1, <2>2
<1>5. Whole(i, x.object, "invitation") /\ EndedAt(i, o) = Units(i)!Never
  BY <1>1, <1>2 DEF Whole, EndedAt
<1> QED
  BY <1>4, <1>5 DEF Changed

\* A method leaves an aggregate whole and tells what it changes.
LEMMA CalledWhole ==
  ASSUME NEW i, Units(i)!AggregatesAssumption, NEW k \in AggregateKinds, NEW o, Whole(i, o, k), NEW t,
         NEW outcome \in Units(i)!Calls(o, t), NEW x \in outcome
  PROVE  Changed(i, k, o, x)
<1>1. o.kind = k
  BY DEF Whole
<1>2. /\ k = "user" => outcome \in Units(i)!StatusCalls(o)
      /\ k = "tenant" => outcome \in Units(i)!TenantCalls(o)
      /\ k = "membership" => outcome \in Units(i)!MembershipCalls(o)
      /\ k = "role" => outcome \in Units(i)!RoleCalls(o)
      /\ k = "apiKey" => outcome \in Units(i)!ApiKeyCalls(o, t)
      /\ k = "invitation" => outcome \in Units(i)!InvitationCalls(o, t)
  BY <1>1 DEF Units!Calls
<1> QED
  BY <1>2, StatusChanged, TenantChanged, MembershipChanged, RoleChanged, KeyChanged, InvitationChanged
  DEF AggregateKinds

\* The elements of a list.
LEMMA RangeOfList ==
  ASSUME NEW i, NEW A, NEW list \in Seq(A)
  PROVE  Units(i)!Range(list) \in SUBSET A /\ IsFiniteSet(Units(i)!Range(list))
<1> DEFINE R == Units(i)!Range(list)
<1>1. Len(list) \in Nat /\ DOMAIN list = 1 .. Len(list) /\ list \in [1 .. Len(list) -> A]
  OBVIOUS
<1>2. R = {list[n] : n \in DOMAIN list}
  BY DEF Units!Range
<1> HIDE DEF R
<1>3. list \in Surjection(1 .. Len(list), R)
  BY <1>1, <1>2 DEF Surjection
<1>4. IsFiniteSet(1 .. Len(list))
  BY <1>1, FS_Interval
<1>5. IsFiniteSet(R)
  BY <1>3, <1>4, FS_Surjection
<1> QED
  BY <1>1, <1>2, <1>5 DEF R

\* What a subscriber takes a field to be, as a row has it.
Heard(i, f, v) == IF f = "roleIds" THEN Units(i)!Range(v) ELSE v

\* A row authorization can rely on.
SoundRow(i, k, r) ==
    /\ r.kind = k
    /\ "name" \in DOMAIN r => r.name # ""
    /\ k \in {"membership", "invitation"} => r.roleIds # {}
    /\ k \in {"role", "apiKey"} => r.permissions # {}
    /\ k = "apiKey" => i.manage \notin r.permissions
    /\ k = "role" => r.isSystem = (r.name \in Units(i)!SystemRoleNames)
    /\ k = "role" /\ r.isSystem => r.permissions = Units(i)!Range(Units(i)!PermissionsFor(r.name))

\* The row of an aggregate, and the aggregate that is loaded from it.
Mapped(i, k, o, r, d) ==
    /\ EndedAt(i, r) = EndedAt(i, o) /\ SoundRow(i, k, r)
    /\ Whole(i, d, k) /\ Units(i)!ToEntity(d) = r /\ EndedAt(i, d) = EndedAt(i, o)
    /\ \A f \in EventFields(k) : r[f] = Heard(i, f, o[f])

LEMMA IdsMapped ==
  ASSUME NEW i, NEW k \in {"membership", "invitation"}, NEW o, Whole(i, o, k)
  PROVE  Mapped(i, k, o, Units(i)!ToEntity(o), Units(i)!ToDomain(Units(i)!ToEntity(o)))
<1> DEFINE A == Units(i)!Range(o.roleIds)
           r == [o EXCEPT !.roleIds = A]
           list == Units(i)!AsList(A)
           d == [r EXCEPT !.roleIds = list]
<1>1. o.roleIds \in Seq(i.roleIds) /\ A # {} /\ o.kind = k /\ "roleIds" \in DOMAIN o /\ "kind" \in DOMAIN o
  BY DEF Whole, IdList
<1>2. A \in SUBSET i.roleIds /\ IsFiniteSet(A)
  BY <1>1, RangeOfList
<1>3. list \in Seq(A) /\ Units(i)!Range(list) = A
  BY <1>2, ListHas
<1>4. Units(i)!ToEntity(o) = r /\ r.kind = k /\ r.roleIds = A /\ DOMAIN r = DOMAIN o
  BY <1>1 DEF Units!ToEntity, Units!MembershipRow, Units!InvitationRow
<1> HIDE DEF list
<1>5. Units(i)!ToDomain(r) = d /\ d.kind = k /\ d.roleIds = list
  <2>1. r.kind = k /\ DOMAIN r = DOMAIN o /\ r.roleIds = A
    BY <1>4
  <2>2. d.kind = k /\ d.roleIds = list
    BY <1>1, <1>4
  <2> HIDE DEF r, A
  <2>3. Units(i)!ToDomain(r) = [r EXCEPT !.roleIds = Units(i)!AsList(@)]
    BY <2>1 DEF Units!ToDomain, Units!MembershipOf, Units!InvitationOf
  <2>4. [r EXCEPT !.roleIds = Units(i)!AsList(@)] = d
    BY <2>1 DEF list
  <2> QED
    BY <2>2, <2>3, <2>4
<1>6. Units(i)!ToEntity(d) = [d EXCEPT !.roleIds = Units(i)!Range(list)]
  BY <1>5 DEF Units!ToEntity, Units!MembershipRow, Units!InvitationRow
<1>7. [d EXCEPT !.roleIds = Units(i)!Range(list)] = r
  BY <1>1, <1>3
<1>8. IdList(i, list)
  BY <1>1, <1>2, <1>3 DEF IdList
<1>9. Whole(i, d, k)
  <2>1. DOMAIN d = DOMAIN o /\ \A f \in DOMAIN o \ {"roleIds"} : d[f] = o[f]
    OBVIOUS
  <2> HIDE DEF d
  <2> QED
    BY <1>5, <1>8, <2>1 DEF Whole
<1>10. EndedAt(i, r) = EndedAt(i, o) /\ EndedAt(i, d) = EndedAt(i, o)
  <2>1. \A f \in DOMAIN o \ {"roleIds"} : r[f] = o[f] /\ d[f] = o[f]
    OBVIOUS
  <2> HIDE DEF d, r
  <2> QED
    BY <1>1, <1>4, <1>5, <2>1 DEF EndedAt, Whole
<1>11. \A f \in EventFields(k) : r[f] = Heard(i, f, o[f])
  <2>1. \A f \in DOMAIN o \ {"roleIds"} : r[f] = o[f]
    OBVIOUS
  <2>2. k \in AggregateKinds
    BY DEF AggregateKinds
  <2> HIDE DEF d, r
  <2> QED
    BY <1>4, <2>1, <2>2, FieldsOf DEF Heard
<1>12. SoundRow(i, k, r)
  <2>1. "name" \notin DOMAIN r
    BY <1>4 DEF Whole
  <2> HIDE DEF r, d
  <2> QED
    BY <1>1, <1>4, <2>1 DEF SoundRow
<1> HIDE DEF d, r
<1> QED
  BY <1>4, <1>5, <1>6, <1>7, <1>9, <1>10, <1>11, <1>12 DEF Mapped

LEMMA RoleMapped ==
  ASSUME NEW i, Units(i)!AggregatesAssumption, NEW o, Whole(i, o, "role")
  PROVE  Mapped(i, "role", o, Units(i)!ToEntity(o), Units(i)!ToDomain(Units(i)!ToEntity(o)))
<1> DEFINE A == Units(i)!Range(o.permissions)
           r == [o EXCEPT !.permissions = A]
           list == Units(i)!Among(i.catalog, A)
           d == [r EXCEPT !.permissions = list]
           C == Units(i)!Range(i.catalog)
<1>1. /\ DOMAIN o = {"kind", "name", "isSystem", "permissions"} /\ o.kind = "role" /\ o.name # ""
      /\ Bundle(i, o) /\ o.permissions \in Seq(C) /\ A # {}
  BY DEF Whole, Bundle
<1>2. A \in SUBSET C
  <2> HIDE DEF C
  <2> QED
    BY <1>1, RangeOfList
<1>3. list \in Seq(C) /\ Units(i)!Range(list) = A
  <2>1. list \in Seq(C) /\ Units(i)!Range(list) = C \intersect A
    BY CatalogLists
  <2> QED
    BY <1>2, <2>1
<1>4. Units(i)!ToEntity(o) = r /\ r.kind = "role" /\ r.permissions = A /\ r.name = o.name /\ DOMAIN r = DOMAIN o
  BY <1>1 DEF Units!ToEntity, Units!RoleRow
<1>5. r.isSystem = o.isSystem
  BY <1>1
<1> HIDE DEF list
<1>6. Units(i)!ToDomain(r) = d
  <2>1. Units(i)!ToDomain(r) = Units(i)!RoleOf(r)
    BY <1>4 DEF Units!ToDomain
  <2> HIDE DEF r
  <2> QED
    BY <1>4, <2>1 DEF Units!RoleOf, list
<1>7. d.kind = "role" /\ d.permissions = list /\ d.name = o.name /\ DOMAIN d = DOMAIN o
  BY <1>1
<1>8. d.isSystem = o.isSystem
  BY <1>1
<1>9. Units(i)!ToEntity(d) = [d EXCEPT !.permissions = Units(i)!Range(list)]
  <2> HIDE DEF d
  <2> QED
    BY <1>7 DEF Units!ToEntity, Units!RoleRow
<1>10. [d EXCEPT !.permissions = Units(i)!Range(list)] = r
  BY <1>1, <1>3
<1> HIDE DEF d, r
<1>11. Bundle(i, d)
  BY <1>1, <1>3, <1>7, <1>8 DEF Bundle
<1>12. Whole(i, d, "role")
  BY <1>1, <1>7, <1>11 DEF Whole
<1>13. EndedAt(i, r) = EndedAt(i, o) /\ EndedAt(i, d) = EndedAt(i, o)
  BY <1>1, <1>4, <1>7 DEF EndedAt
<1>14. \A f \in EventFields("role") : r[f] = Heard(i, f, o[f])
  <2>1. EventFields("role") = {"name", "isSystem"}
    BY DEF EventFields
  <2>2. Heard(i, "name", o.name) = o.name /\ Heard(i, "isSystem", o.isSystem) = o.isSystem
    BY DEF Heard
  <2> QED
    BY <1>4, <1>5, <2>1, <2>2
<1>15. SoundRow(i, "role", r)
  <2>1. r.isSystem <=> r.name \in Units(i)!SystemRoleNames
    BY <1>1, <1>4, <1>5 DEF Bundle
  <2>2. r.isSystem \in BOOLEAN
    BY <1>1, <1>5 DEF Bundle
  <2>3. r.isSystem = (r.name \in Units(i)!SystemRoleNames)
    BY <2>1, <2>2
  <2>4. r.isSystem => r.permissions = Units(i)!Range(Units(i)!PermissionsFor(r.name))
    BY <1>1, <1>4, <1>5 DEF Bundle
  <2> QED
    BY <1>1, <1>4, <2>3, <2>4 DEF SoundRow
<1> QED
  BY <1>4, <1>6, <1>9, <1>10, <1>12, <1>13, <1>14, <1>15 DEF Mapped

\* Rows and aggregates say the same and end at the same time.
LEMMA MappedWhole ==
  ASSUME NEW i, Units(i)!AggregatesAssumption, NEW k \in AggregateKinds, NEW o, Whole(i, o, k)
  PROVE  Mapped(i, k, o, Units(i)!ToEntity(o), Units(i)!ToDomain(Units(i)!ToEntity(o)))
<1>1. CASE k \in {"user", "tenant", "apiKey"}
  <2>1. Units(i)!ToEntity(o) = o /\ Units(i)!ToDomain(o) = o
    BY <1>1 DEF Whole, Units!ToEntity, Units!ToDomain
  <2>2. \A f \in EventFields(k) : o[f] = Heard(i, f, o[f])
    BY <1>1 DEF EventFields, Heard
  <2>3. SoundRow(i, k, o)
    BY <1>1 DEF SoundRow, Whole
  <2> QED
    BY <2>1, <2>2, <2>3 DEF Mapped
<1> QED
  BY <1>1, IdsMapped, RoleMapped DEF AggregateKinds

\* What a row says, and the aggregate that is loaded from it.
Stored(i, k, r) == \E o : Whole(i, o, k) /\ Units(i)!ToEntity(o) = r

Reads(i, k, r, d) ==
    /\ Whole(i, d, k) /\ Units(i)!ToEntity(d) = r /\ EndedAt(i, d) = EndedAt(i, r)
    /\ \A f \in EventFields(k) : r[f] = Heard(i, f, d[f])

LEMMA StoredRow ==
  ASSUME NEW i, Units(i)!AggregatesAssumption, NEW k \in AggregateKinds, NEW r, Stored(i, k, r)
  PROVE  SoundRow(i, k, r) /\ Reads(i, k, r, Units(i)!ToDomain(r))
<1>1. PICK o : Whole(i, o, k) /\ Units(i)!ToEntity(o) = r
  BY DEF Stored
<1> DEFINE d == Units(i)!ToDomain(r)
<1>2. Mapped(i, k, o, r, d)
  BY <1>1, MappedWhole
<1> HIDE DEF d
<1>3. SoundRow(i, k, r) /\ Whole(i, d, k) /\ Units(i)!ToEntity(d) = r /\ EndedAt(i, d) = EndedAt(i, r)
  BY <1>2 DEF Mapped
<1>4. Mapped(i, k, d, r, Units(i)!ToDomain(r))
  BY <1>3, MappedWhole
<1>5. \A f \in EventFields(k) : r[f] = Heard(i, f, d[f])
  BY <1>4 DEF Mapped
<1> QED
  BY <1>3, <1>5 DEF Reads, d

\* Lists, one after the other.
LEMMA Joined ==
  ASSUME NEW a, NEW b, IsList(a), IsList(b), NEW x
  PROVE  /\ IsList(a \o b) /\ a \o <<>> = a
         /\ IsList(b \o <<x>>) /\ a \o (b \o <<x>>) = Append(a \o b, x)
<1>1. PICK A : a \in Seq(A)
  BY DEF IsList
<1>2. PICK B : b \in Seq(B)
  BY DEF IsList
<1> DEFINE C == A \union B \union {x}
<1>3. a \in Seq(C) /\ b \in Seq(C) /\ x \in C
  BY <1>1, <1>2
<1> HIDE DEF C
<1>4. a \o b \in Seq(C) /\ b \o <<x>> \in Seq(C) /\ a \o <<>> = a
  BY <1>3
<1>5. a \o (b \o <<x>>) = Append(a \o b, x)
  BY <1>3
<1> QED
  BY <1>4, <1>5 DEF IsList

LEMMA NoList == IsList(<<>>) /\ <<>> \o <<>> = <<>> /\ \A x : IsList(<<x>>) /\ <<>> \o <<x>> = Append(<<>>, x)
<1>1. <<>> \in Seq({}) /\ <<>> \o <<>> = <<>>
  OBVIOUS
<1>2. ASSUME NEW x PROVE <<x>> \in Seq({x}) /\ <<>> \o <<x>> = Append(<<>>, x)
  OBVIOUS
<1> QED
  BY <1>1, <1>2 DEF IsList

\* What is known of an aggregate, once its events are heard, is what it is.
Knows(i, k, known, o) ==
    DOMAIN known \subseteq EventFields(k) /\ \A f \in DOMAIN known : Heard(i, f, known[f]) = Heard(i, f, o[f])

LEMMA ToldKnows ==
  ASSUME NEW i, NEW k, NEW known, NEW o, NEW p, NEW b, Knows(i, k, known, o), DOMAIN b \subseteq EventFields(k),
         \A f \in EventFields(k) : p[f] = IF f \in DOMAIN b THEN b[f] ELSE o[f]
  PROVE  Knows(i, k, Units(i)!Told(known, b), p)
<1> DEFINE t == Units(i)!Told(known, b)
<1>1. /\ DOMAIN t = DOMAIN known \union DOMAIN b
      /\ \A f \in DOMAIN t : t[f] = IF f \in DOMAIN b THEN b[f] ELSE known[f]
  BY DEF Units!Told
<1> HIDE DEF t
<1>2. Knows(i, k, t, p)
  BY <1>1 DEF Knows
<1> QED
  BY <1>2 DEF t

\* The events a unit of work has recorded and not published.
Pending(q) == q.collected \o q.buffer

\* One more outcome of a method keeps what would be known if all was published.
LEMMA HonestKnows ==
  ASSUME NEW i, NEW k, NEW known, NEW o, NEW a, NEW b, IsList(a), IsList(b),
         NEW x, Honest(i, k, o, x), k # "invitation" \/ x.events # <<>>,
         Knows(i, k, Units(i)!Learn(known, a \o b), o)
  PROVE  Knows(i, k, Units(i)!Learn(known, a \o (b \o x.events)), x.object)
<1>1. CASE x.events = <<>>
  <2>1. \A f \in EventFields(k) : x.object[f] = o[f]
    BY <1>1 DEF Honest
  <2>2. a \o (b \o x.events) = a \o b
    BY <1>1, Joined
  <2> QED
    BY <2>1, <2>2 DEF Knows
<1>2. CASE x.events # <<>>
  <2>1. PICK body : /\ x.events = <<body>> /\ DOMAIN body \subseteq EventFields(k)
                    /\ \A f \in EventFields(k) : x.object[f] = IF f \in DOMAIN body THEN body[f] ELSE o[f]
    BY <1>2 DEF Honest
  <2>2. a \o (b \o x.events) = Append(a \o b, body) /\ IsList(a \o b)
    BY <2>1, Joined
  <2>3. Units(i)!Learn(known, a \o (b \o x.events)) = Units(i)!Told(Units(i)!Learn(known, a \o b), body)
    BY <2>2, LearnMore
  <2> QED
    BY <2>1, <2>3, ToldKnows
<1> QED
  BY <1>1, <1>2

\* A new aggregate is known from the event that introduces it.
LEMMA IntroducedKnows ==
  ASSUME NEW i, NEW k, NEW x, Introduced(k, x)
  PROVE  Knows(i, k, Units(i)!Learn(<<>>, <<>> \o x.events), x.object) /\ IsList(x.events)
<1>1. PICK b : x.events = <<b>> /\ DOMAIN b = EventFields(k) /\ \A f \in EventFields(k) : x.object[f] = b[f]
  BY DEF Introduced
<1>2. <<>> \o x.events = Append(<<>>, b) /\ IsList(x.events) /\ IsList(<<>>)
  BY <1>1, NoList
<1>3. Units(i)!Learn(<<>>, <<>> \o x.events) = Units(i)!Told(<<>>, b)
  <2>1. PICK e : e = <<>>
    OBVIOUS
  <2>2. IsList(e)
    BY <1>2, <2>1
  <2>3. Units(i)!Learn(e, <<>>) = e
    BY <2>2, LearnMore
  <2>4. Units(i)!Learn(e, Append(e, b)) = Units(i)!Told(Units(i)!Learn(e, e), b)
    BY <2>2, LearnMore
  <2>5. Units(i)!Learn(e, <<>> \o x.events) = Units(i)!Told(e, b)
    BY <1>2, <2>1, <2>3, <2>4
  <2> QED
    BY <2>1, <2>5
<1>4. Knows(i, k, <<>>, x.object)
  <2>1. DOMAIN <<>> = {}
    OBVIOUS
  <2> QED
    BY <2>1 DEF Knows
<1>5. Knows(i, k, Units(i)!Told(<<>>, b), x.object)
  BY <1>1, <1>4, ToldKnows
<1> QED
  BY <1>2, <1>3, <1>5

\* A subscriber that has heard of every commit knows the row.
KnowsRow(i, k, known, r) ==
    DOMAIN known \subseteq EventFields(k) /\ \A f \in DOMAIN known : Heard(i, f, known[f]) = r[f]

\* What a unit of work holds ends when the row does, if the row has ended.
Follows(i, o, r) == r # Units(i)!None /\ EndedAt(i, r) # Units(i)!Never => EndedAt(i, o) = EndedAt(i, r)

UnitOfWork(i, q) ==
    /\ DOMAIN q = {"kind", "object", "buffer", "collected", "calls"}
    /\ q.kind \in i.kinds \union {"none"} /\ q.calls \in 0 .. i.calls
    /\ IsList(q.buffer) /\ IsList(q.collected)
    /\ q.kind # "none" => Whole(i, q.object, q.kind)

\* What it holds is the row with the changes its events tell of.
Faithful(i, q) ==
    /\ Follows(i, q.object, row[q.kind])
    /\ q.kind \notin quiet => Knows(i, q.kind, Units(i)!Learn(told[q.kind], Pending(q)), q.object)

RowInv(i, k) ==
    IF row[k] = Units(i)!None THEN told[k] = <<>>
    ELSE Stored(i, k, row[k]) /\ (k \notin overlapped \union quiet => KnowsRow(i, k, told[k], row[k]))

UnitsInv(i) ==
    /\ DOMAIN row = i.kinds /\ DOMAIN told = i.kinds /\ \A k \in i.kinds : RowInv(i, k)
    /\ DOMAIN session = i.sessions /\ \A s \in i.sessions : UnitOfWork(i, session[s])
    /\ \A s \in i.sessions : session[s].kind \notin overlapped \union {"none"} => Faithful(i, session[s])
    /\ \A s, q \in i.sessions : s # q /\ session[s].kind = session[q].kind => session[s].kind \in overlapped \union {"none"}
    /\ now \in 0 .. i.time /\ overlapped \subseteq i.kinds /\ quiet \subseteq i.kinds

\* The kinds of an instance, and its bounds.
LEMMA InstanceKinds ==
  ASSUME NEW i, Units(i)!AggregatesAssumption
  PROVE  i.kinds \subseteq AggregateKinds /\ "none" \notin i.kinds /\ i.time \in Nat /\ i.calls \in Nat /\ i.expiresAt \in Nat
BY DEF AggregateKinds, Units!AggregatesAssumption

LEMMA IdleUnit ==
  ASSUME NEW i, Units(i)!AggregatesAssumption
  PROVE  UnitOfWork(i, Units(i)!Idle) /\ Units(i)!Idle.kind = "none"
BY InstanceKinds, NoList DEF UnitOfWork, Units!Idle

\* A unit of work goes on with what it holds, or lets go of it.
LEMMA UnitKeeps ==
  ASSUME NEW i, UnitsInv(i), NEW s \in i.sessions, NEW q, UnitOfWork(i, q), session' = [session EXCEPT ![s] = q],
         q.kind \in {session[s].kind, "none"}, UNCHANGED <<row, told, now, overlapped>>,
         quiet \subseteq quiet', quiet' \subseteq i.kinds,
         q.kind \notin overlapped \union {"none"} =>
            /\ Follows(i, q.object, row[q.kind])
            /\ q.kind \notin quiet' => Knows(i, q.kind, Units(i)!Learn(told[q.kind], Pending(q)), q.object)
  PROVE  UnitsInv(i)'
<1>1. DOMAIN session' = i.sessions /\ session'[s] = q /\ \A p \in i.sessions \ {s} : session'[p] = session[p]
  BY DEF UnitsInv
<1>2. \A k \in i.kinds : RowInv(i, k)'
  BY DEF UnitsInv, RowInv
<1>3. ASSUME NEW p \in i.sessions, session'[p].kind \notin overlapped' \union {"none"}
      PROVE  Faithful(i, session[p])'
  <2>1. CASE p = s
    BY <1>1, <1>3, <2>1 DEF Faithful
  <2>2. CASE p # s
    <3>1. session'[p] = session[p] /\ Faithful(i, session[p])
      BY <1>1, <1>3, <2>2 DEF UnitsInv
    <3> QED
      BY <3>1 DEF Faithful
  <2> QED
    BY <2>1, <2>2
<1>4. \A p \in i.sessions : UnitOfWork(i, session'[p])
  BY <1>1 DEF UnitsInv
<1>5. \A p, r \in i.sessions : p # r /\ session'[p].kind = session'[r].kind => session'[p].kind \in overlapped' \union {"none"}
  BY <1>1 DEF UnitsInv
<1>6. now' \in 0 .. i.time /\ overlapped' \subseteq i.kinds /\ DOMAIN row' = i.kinds /\ DOMAIN told' = i.kinds
  BY DEF UnitsInv
<1> QED
  BY <1>1, <1>2, <1>3, <1>4, <1>5, <1>6 DEF UnitsInv

LEMMA InitUnits ==
  ASSUME NEW i, Units(i)!AggregatesAssumption, Units(i)!Init
  PROVE  UnitsInv(i)
<1>1. 0 \in 0 .. i.time
  BY InstanceKinds
<1>2. /\ row = [k \in i.kinds |-> Units(i)!None] /\ told = [k \in i.kinds |-> <<>>]
      /\ session = [s \in i.sessions |-> Units(i)!Idle]
      /\ now = 0 /\ overlapped = {} /\ quiet = {}
  BY DEF Units!Init
<1>3. \A k \in i.kinds : RowInv(i, k)
  BY <1>2 DEF RowInv
<1> QED
  BY <1>1, <1>2, <1>3, IdleUnit DEF UnitsInv

\* Who takes an aggregate that another holds makes its kind one that overlaps.
LEMMA HoldKeeps ==
  ASSUME NEW i, Units(i)!AggregatesAssumption, UnitsInv(i), NEW s \in i.sessions, NEW k \in i.kinds,
         NEW o, NEW events, Units(i)!Hold(s, k, o, events), session[s].kind = "none",
         Whole(i, o, k), IsList(events), UNCHANGED <<row, told, now, quiet>>,
         k \notin overlapped => Follows(i, o, row[k]),
         k \notin overlapped \union quiet => Knows(i, k, Units(i)!Learn(told[k], <<>> \o events), o)
  PROVE  UnitsInv(i)'
<1> DEFINE q == [Units(i)!Idle EXCEPT !.kind = k, !.object = o, !.buffer = events]
<1>1. session' = [session EXCEPT ![s] = q]
  BY DEF Units!Hold
<1>2. UnitOfWork(i, q) /\ q.kind = k /\ q.object = o /\ q.buffer = events /\ q.collected = <<>>
  BY InstanceKinds, NoList DEF UnitOfWork, Units!Idle
<1> HIDE DEF q
<1>3. DOMAIN session' = i.sessions /\ session'[s] = q /\ \A p \in i.sessions \ {s} : session'[p] = session[p]
  BY <1>1 DEF UnitsInv
<1>4. /\ overlapped \subseteq overlapped' /\ overlapped' \subseteq i.kinds
      /\ \A p \in i.sessions : session[p].kind = k => k \in overlapped'
  BY DEF Units!Hold, UnitsInv
<1>5. \A j \in i.kinds : RowInv(i, j)'
  BY <1>4 DEF UnitsInv, RowInv
<1>6. ASSUME NEW p \in i.sessions, session'[p].kind \notin overlapped' \union {"none"}
      PROVE  Faithful(i, session[p])'
  <2>1. CASE p = s
    <3>1. k \notin overlapped
      BY <1>2, <1>3, <1>4, <1>6, <2>1
    <3> QED
      BY <1>2, <1>3, <2>1, <3>1 DEF Faithful, Pending
  <2>2. CASE p # s
    <3>1. session'[p] = session[p] /\ Faithful(i, session[p])
      BY <1>3, <1>4, <1>6, <2>2 DEF UnitsInv
    <3> QED
      BY <3>1 DEF Faithful
  <2> QED
    BY <2>1, <2>2
<1>7. \A p \in i.sessions : UnitOfWork(i, session'[p])
  BY <1>2, <1>3 DEF UnitsInv
<1>8. \A p, r \in i.sessions : p # r /\ session'[p].kind = session'[r].kind => session'[p].kind \in overlapped' \union {"none"}
  BY <1>2, <1>3, <1>4 DEF UnitsInv
<1>9. DOMAIN row' = i.kinds /\ DOMAIN told' = i.kinds /\ now' \in 0 .. i.time /\ quiet' \subseteq i.kinds
  BY DEF UnitsInv
<1> QED
  BY <1>3, <1>4, <1>5, <1>6, <1>7, <1>8, <1>9 DEF UnitsInv

LEMMA NewKeeps ==
  ASSUME NEW i, Units(i)!AggregatesAssumption, UnitsInv(i), NEW s \in i.sessions, NEW k \in i.kinds, Units(i)!New(s, k)
  PROVE  UnitsInv(i)'
<1>1. /\ session[s].kind = "none" /\ row[k] = Units(i)!None /\ UNCHANGED <<row, told, now, quiet>>
      /\ \E outcome \in Units(i)!Create(k) : \E x \in outcome : Units(i)!Hold(s, k, x.object, x.events)
  BY DEF Units!New
<1>2. PICK outcome \in Units(i)!Create(k) : \E x \in outcome : Units(i)!Hold(s, k, x.object, x.events)
  BY <1>1
<1>3. PICK x \in outcome : Units(i)!Hold(s, k, x.object, x.events)
  BY <1>2
<1>4. Whole(i, x.object, k) /\ Introduced(k, x)
  BY CreatedWhole, InstanceKinds
<1>5. IsList(x.events) /\ Knows(i, k, Units(i)!Learn(<<>>, <<>> \o x.events), x.object)
  BY <1>4, IntroducedKnows
<1>6. told[k] = <<>> /\ Follows(i, x.object, row[k])
  BY <1>1 DEF UnitsInv, RowInv, Follows
<1> QED
  BY <1>1, <1>3, <1>4, <1>5, <1>6, HoldKeeps

LEMMA LoadKeeps ==
  ASSUME NEW i, Units(i)!AggregatesAssumption, UnitsInv(i), NEW s \in i.sessions, NEW k \in i.kinds, Units(i)!Load(s, k)
  PROVE  UnitsInv(i)'
<1> DEFINE d == Units(i)!ToDomain(row[k])
<1>1. /\ session[s].kind = "none" /\ row[k] # Units(i)!None /\ UNCHANGED <<row, told, now, quiet>>
      /\ Units(i)!Hold(s, k, d, <<>>)
  BY DEF Units!Load
<1>2. /\ RowInv(i, k) /\ Stored(i, k, row[k])
      /\ k \notin overlapped \union quiet => KnowsRow(i, k, told[k], row[k])
  BY <1>1 DEF UnitsInv, RowInv
<1>3. Reads(i, k, row[k], d)
  BY <1>2, StoredRow, InstanceKinds
<1> HIDE DEF d
<1>4. Follows(i, d, row[k]) /\ Whole(i, d, k)
  BY <1>3 DEF Reads, Follows
<1>5. Units(i)!Learn(told[k], <<>> \o <<>>) = told[k]
  BY NoList, LearnMore
<1>6. k \notin overlapped \union quiet => Knows(i, k, told[k], d)
  BY <1>2, <1>3 DEF Reads, KnowsRow, Knows
<1>7. k \notin overlapped \union quiet => Knows(i, k, Units(i)!Learn(told[k], <<>> \o <<>>), d)
  BY <1>5, <1>6
<1> QED
  BY <1>1, <1>4, <1>7, NoList, HoldKeeps

LEMMA CallKeeps ==
  ASSUME NEW i, Units(i)!AggregatesAssumption, UnitsInv(i), NEW s \in i.sessions, Units(i)!Call(s)
  PROVE  UnitsInv(i)'
<1> DEFINE o == session[s]
<1>1. /\ o.kind # "none" /\ o.calls < i.calls /\ UNCHANGED <<row, told, now, overlapped>>
      /\ quiet' = IF o.kind = "invitation" /\ session'[s].kind = o.kind /\ session'[s].buffer = o.buffer
                  THEN quiet \union {o.kind} ELSE quiet
  BY DEF Units!Call
<1>2. UnitOfWork(i, o) /\ o.kind \in i.kinds /\ Whole(i, o.object, o.kind) /\ IsList(o.buffer) /\ IsList(o.collected)
  BY <1>1 DEF UnitsInv, UnitOfWork
<1>3. quiet \subseteq quiet' /\ quiet' \subseteq i.kinds
  BY <1>1, <1>2 DEF UnitsInv
<1>4. PICK outcome \in Units(i)!Calls(o.object, now) :
        \/ outcome = {} /\ session' = [session EXCEPT ![s] = Units(i)!Idle]
        \/ \E x \in outcome :
            session' = [session EXCEPT ![s].object = x.object, ![s].buffer = @ \o x.events, ![s].calls = @ + 1]
  BY DEF Units!Call
<1>5. CASE outcome = {} /\ session' = [session EXCEPT ![s] = Units(i)!Idle]
  <2>1. UnitOfWork(i, Units(i)!Idle) /\ Units(i)!Idle.kind = "none"
    BY IdleUnit
  <2> HIDE DEF o
  <2> QED
    BY <1>1, <1>3, <1>5, <2>1, UnitKeeps
<1>6. ASSUME NEW x \in outcome,
             session' = [session EXCEPT ![s].object = x.object, ![s].buffer = @ \o x.events, ![s].calls = @ + 1]
      PROVE  UnitsInv(i)'
  <2> DEFINE q == [o EXCEPT !.object = x.object, !.buffer = @ \o x.events, !.calls = @ + 1]
  <2>1. session' = [session EXCEPT ![s] = q]
    BY <1>2, <1>6 DEF UnitsInv, UnitOfWork
  <2>2. /\ DOMAIN q = {"kind", "object", "buffer", "collected", "calls"} /\ q.kind = o.kind /\ q.object = x.object
        /\ q.calls = o.calls + 1 /\ q.buffer = o.buffer \o x.events /\ q.collected = o.collected
    <3> HIDE DEF o
    <3> QED
      BY <1>2 DEF UnitOfWork
  <2>3. DOMAIN session = i.sessions /\ session'[s] = q
    BY <2>1 DEF UnitsInv
  <2> HIDE DEF q
  <2>4. q.calls \in 0 .. i.calls
    BY <1>1, <1>2, <2>2, InstanceKinds DEF UnitOfWork
  <2>5. o.kind \in AggregateKinds
    BY <1>2, InstanceKinds
  <2>6. Changed(i, o.kind, o.object, x)
    BY <1>2, <2>5, CalledWhole
  <2>7. /\ Whole(i, x.object, o.kind) /\ Honest(i, o.kind, o.object, x)
        /\ EndedAt(i, o.object) # Units(i)!Never => EndedAt(i, x.object) = EndedAt(i, o.object)
    BY <2>6 DEF Changed
  <2>8. IsList(q.buffer) /\ (x.events = <<>> => q.buffer = o.buffer)
    <3>1. CASE x.events = <<>>
      BY <1>2, <2>2, <3>1, Joined
    <3>2. ASSUME NEW b, x.events = <<b>> PROVE IsList(q.buffer) /\ x.events # <<>>
      <4>1. IsList(o.buffer \o <<b>>)
        BY <1>2, Joined
      <4>2. q.buffer = o.buffer \o <<b>>
        BY <2>2, <3>2
      <4> QED
        BY <3>2, <4>1, <4>2
    <3> QED
      BY <2>7, <3>1, <3>2 DEF Honest
  <2>9. UnitOfWork(i, q)
    BY <1>2, <2>2, <2>4, <2>7, <2>8 DEF UnitOfWork
  <2>10. ASSUME q.kind \notin overlapped \union {"none"}
         PROVE  /\ Follows(i, q.object, row[q.kind])
                /\ q.kind \notin quiet' => Knows(i, q.kind, Units(i)!Learn(told[q.kind], Pending(q)), q.object)
    <3>1. Faithful(i, o)
      BY <1>1, <2>2, <2>10 DEF UnitsInv
    <3>2. Follows(i, q.object, row[q.kind])
      BY <2>2, <2>7, <3>1 DEF Faithful, Follows
    <3>3. ASSUME q.kind \notin quiet'
          PROVE  Knows(i, q.kind, Units(i)!Learn(told[q.kind], Pending(q)), q.object)
      <4>1. Knows(i, o.kind, Units(i)!Learn(told[o.kind], o.collected \o o.buffer), o.object)
        BY <1>3, <2>2, <3>1, <3>3 DEF Faithful, Pending
      <4>2. o.kind # "invitation" \/ x.events # <<>>
        BY <1>1, <2>2, <2>3, <2>8, <3>3
      <4>3. Knows(i, o.kind, Units(i)!Learn(told[o.kind], o.collected \o (o.buffer \o x.events)), x.object)
        BY <1>2, <2>7, <4>1, <4>2, HonestKnows
      <4> QED
        BY <2>2, <4>3 DEF Pending
    <3> QED
      BY <3>2, <3>3
  <2> QED
    BY <1>1, <1>3, <2>1, <2>2, <2>9, <2>10, UnitKeeps
<1> QED
  BY <1>4, <1>5, <1>6

\* Who pulls the events of an aggregate has them to publish.
LEMMA PullKeeps ==
  ASSUME NEW i, Units(i)!AggregatesAssumption, UnitsInv(i), NEW s \in i.sessions, Units(i)!Pull(s)
  PROVE  UnitsInv(i)'
<1> DEFINE o == session[s]
           q == [o EXCEPT !.collected = @ \o o.buffer, !.buffer = <<>>]
<1>1. UnitOfWork(i, o) /\ UNCHANGED <<row, told, now, overlapped, quiet>>
  BY DEF Units!Pull, UnitsInv
<1>2. session' = [session EXCEPT ![s] = q]
  BY <1>1 DEF Units!Pull, UnitsInv, UnitOfWork
<1>3. /\ DOMAIN q = {"kind", "object", "buffer", "collected", "calls"} /\ q.kind = o.kind /\ q.object = o.object
      /\ q.calls = o.calls /\ q.collected = o.collected \o o.buffer /\ q.buffer = <<>>
  <2> HIDE DEF o
  <2> QED
    BY <1>1 DEF UnitOfWork
<1> HIDE DEF q
<1>4. IsList(o.collected) /\ IsList(o.buffer)
  BY <1>1 DEF UnitOfWork
<1>5. IsList(o.collected \o o.buffer)
  BY <1>4, Joined
<1>6. Pending(q) = Pending(o)
  <2>1. (o.collected \o o.buffer) \o <<>> = o.collected \o o.buffer
    BY <1>5, NoList, Joined
  <2> QED
    BY <1>3, <2>1 DEF Pending
<1>7. UnitOfWork(i, q)
  BY <1>1, <1>3, <1>5, NoList DEF UnitOfWork
<1>8. q.kind \notin overlapped \union {"none"} =>
        /\ Follows(i, q.object, row[q.kind])
        /\ q.kind \notin quiet' => Knows(i, q.kind, Units(i)!Learn(told[q.kind], Pending(q)), q.object)
  BY <1>1, <1>3, <1>6 DEF UnitsInv, Faithful
<1>9. quiet \subseteq quiet' /\ quiet' \subseteq i.kinds
  BY <1>1 DEF UnitsInv
<1> HIDE DEF o
<1> QED
  BY <1>1, <1>2, <1>3, <1>7, <1>8, <1>9, UnitKeeps DEF o

\* Who commits leaves a row that ends when what it held does, and tells of what
\* it has changed; no other unit of work holds the row unless they overlapped.
LEMMA CommitKeeps ==
  ASSUME NEW i, Units(i)!AggregatesAssumption, UnitsInv(i), NEW s \in i.sessions, Units(i)!Commit(s)
  PROVE  UnitsInv(i)' /\ Units(i)!EndedStaysEnded
<1> DEFINE o == session[s]
           r == Units(i)!ToEntity(o.object)
           known == Units(i)!Learn(told[o.kind], o.collected)
<1>1. /\ o.kind # "none" /\ o.buffer = <<>> /\ row' = [row EXCEPT ![o.kind] = r] /\ told' = [told EXCEPT ![o.kind] = known]
      /\ session' = [session EXCEPT ![s] = Units(i)!Idle] /\ UNCHANGED <<now, overlapped, quiet>>
  BY DEF Units!Commit
<1>2. UnitOfWork(i, o) /\ o.kind \in i.kinds /\ Whole(i, o.object, o.kind) /\ IsList(o.collected)
  BY <1>1 DEF UnitsInv, UnitOfWork
<1>3. Mapped(i, o.kind, o.object, r, Units(i)!ToDomain(r)) /\ Stored(i, o.kind, r)
  BY <1>2, MappedWhole, InstanceKinds DEF Stored
<1>4. Pending(o) = o.collected
  BY <1>1, <1>2, NoList, Joined DEF Pending
<1> HIDE DEF r, known
<1>5. /\ DOMAIN row' = i.kinds /\ row'[o.kind] = r /\ \A k \in i.kinds \ {o.kind} : row'[k] = row[k]
      /\ DOMAIN told' = i.kinds /\ told'[o.kind] = known /\ \A k \in i.kinds \ {o.kind} : told'[k] = told[k]
  BY <1>1, <1>2 DEF UnitsInv
<1>6. DOMAIN session' = i.sessions /\ session'[s] = Units(i)!Idle /\ \A p \in i.sessions \ {s} : session'[p] = session[p]
  BY <1>1 DEF UnitsInv
<1>7. r.kind = o.kind /\ r # Units(i)!None
  <2>1. r.kind = o.kind
    <3>1. SoundRow(i, o.kind, r)
      BY <1>3 DEF Mapped
    <3> QED
      BY <3>1 DEF SoundRow
  <2>2. Units(i)!None.kind = "none"
    BY DEF Units!None
  <2> QED
    BY <1>1, <2>1, <2>2
<1>8. ASSUME NEW k \in i.kinds, k = o.kind
      PROVE  RowInv(i, k)'
  <2>1. ASSUME o.kind \notin overlapped \union quiet
        PROVE  KnowsRow(i, o.kind, known, r)
    <3>1. Knows(i, o.kind, known, o.object)
      BY <1>1, <1>4, <2>1 DEF UnitsInv, Faithful, known
    <3>2. \A f \in EventFields(o.kind) : r[f] = Heard(i, f, o.object[f])
      BY <1>3 DEF Mapped
    <3> QED
      BY <3>1, <3>2 DEF Knows, KnowsRow
  <2> HIDE DEF o
  <2> QED
    BY <1>1, <1>3, <1>5, <1>7, <1>8, <2>1 DEF RowInv
<1>9. ASSUME NEW k \in i.kinds \ {o.kind}
      PROVE  RowInv(i, k)'
  <2>1. RowInv(i, k) /\ row'[k] = row[k] /\ told'[k] = told[k]
    BY <1>5 DEF UnitsInv
  <2> QED
    BY <1>1, <2>1 DEF RowInv
<1>10. ASSUME NEW p \in i.sessions, session'[p].kind \notin overlapped' \union {"none"}
       PROVE  Faithful(i, session[p])'
  <2>1. p # s /\ session'[p] = session[p] /\ session[p].kind # o.kind
    BY <1>1, <1>6, <1>10, IdleUnit DEF UnitsInv
  <2>2. session[p].kind \in i.kinds /\ Faithful(i, session[p])
    BY <1>1, <1>10, <2>1 DEF UnitsInv, UnitOfWork
  <2>3. row'[session[p].kind] = row[session[p].kind] /\ told'[session[p].kind] = told[session[p].kind]
    BY <1>5, <2>1, <2>2
  <2> QED
    BY <1>1, <2>1, <2>2, <2>3 DEF Faithful
<1>11. UnitsInv(i)'
  <2>1. /\ \A p \in i.sessions : UnitOfWork(i, session'[p])
        /\ \A p, q \in i.sessions : p # q /\ session'[p].kind = session'[q].kind => session'[p].kind \in overlapped' \union {"none"}
    BY <1>1, <1>6, IdleUnit DEF UnitsInv
  <2>2. \A k \in i.kinds : RowInv(i, k)'
    BY <1>8, <1>9
  <2>3. now' \in 0 .. i.time /\ overlapped' \subseteq i.kinds /\ quiet' \subseteq i.kinds
    BY <1>1 DEF UnitsInv
  <2> QED
    BY <1>5, <1>6, <1>10, <2>1, <2>2, <2>3 DEF UnitsInv
<1>12. Units(i)!EndedStaysEnded
  <2> SUFFICES ASSUME NEW k \in i.kinds \ overlapped'
               PROVE  /\ row[k].kind = "apiKey" /\ row[k].revokedAt # Units(i)!Never => row'[k].revokedAt = row[k].revokedAt
                      /\ row[k].kind = "invitation" /\ row[k].consumedAt # Units(i)!Never => row'[k].consumedAt = row[k].consumedAt
    BY DEF Units!EndedStaysEnded
  <2>1. CASE k # o.kind
    BY <1>5, <2>1
  <2>2. CASE k = o.kind /\ row[k].kind \in {"apiKey", "invitation"}
    <3>1. row[k] # Units(i)!None
      BY <2>2 DEF Units!None
    <3>2. Stored(i, k, row[k]) /\ k \in AggregateKinds
      BY <3>1, InstanceKinds DEF UnitsInv, RowInv
    <3>3. row[k].kind = k /\ r.kind = k
      <4>1. SoundRow(i, k, row[k])
        BY <3>2, StoredRow
      <4> QED
        BY <1>7, <2>2, <4>1 DEF SoundRow
    <3>4. Follows(i, o.object, row[k]) /\ EndedAt(i, r) = EndedAt(i, o.object)
      BY <1>1, <1>3, <2>2 DEF UnitsInv, Faithful, Mapped
    <3>5. EndedAt(i, row[k]) # Units(i)!Never => EndedAt(i, r) = EndedAt(i, row[k])
      BY <3>1, <3>4 DEF Follows
    <3> QED
      BY <1>5, <2>2, <3>3, <3>5 DEF EndedAt
  <2>3. CASE row[k].kind \notin {"apiKey", "invitation"}
    BY <2>3
  <2> QED
    BY <2>1, <2>2, <2>3
<1> QED
  BY <1>11, <1>12

LEMMA SameRows == ASSUME NEW i, UNCHANGED row PROVE Units(i)!EndedStaysEnded
  BY DEF Units!EndedStaysEnded

LEMMA UnitsNext ==
  ASSUME NEW i, Units(i)!AggregatesAssumption, UnitsInv(i), Units(i)!Next
  PROVE  UnitsInv(i)' /\ Units(i)!EndedStaysEnded
<1>1. ASSUME NEW s \in i.sessions, NEW k \in i.kinds, Units(i)!New(s, k)
      PROVE  UnitsInv(i)' /\ UNCHANGED row
  BY <1>1, NewKeeps DEF Units!New
<1>2. ASSUME NEW s \in i.sessions, NEW k \in i.kinds, Units(i)!Load(s, k)
      PROVE  UnitsInv(i)' /\ UNCHANGED row
  BY <1>2, LoadKeeps DEF Units!Load
<1>3. ASSUME NEW s \in i.sessions, Units(i)!Call(s)
      PROVE  UnitsInv(i)' /\ UNCHANGED row
  BY <1>3, CallKeeps DEF Units!Call
<1>4. ASSUME NEW s \in i.sessions, Units(i)!Pull(s)
      PROVE  UnitsInv(i)' /\ UNCHANGED row
  BY <1>4, PullKeeps DEF Units!Pull
<1>5. ASSUME NEW s \in i.sessions, Units(i)!Abandon(s)
      PROVE  UnitsInv(i)' /\ UNCHANGED row
  <2>1. session' = [session EXCEPT ![s] = Units(i)!Idle] /\ UNCHANGED <<row, told, now, overlapped, quiet>>
    BY <1>5 DEF Units!Abandon
  <2>2. quiet \subseteq quiet' /\ quiet' \subseteq i.kinds
    BY <2>1 DEF UnitsInv
  <2> QED
    BY <2>1, <2>2, IdleUnit, UnitKeeps
<1>6. CASE Units(i)!Tick
  <2>1. now < i.time /\ now' = now + 1 /\ UNCHANGED <<row, told, session, overlapped, quiet>>
    BY <1>6 DEF Units!Tick
  <2>2. now' \in 0 .. i.time
    BY <2>1, InstanceKinds DEF UnitsInv
  <2>3. \A k \in i.kinds : RowInv(i, k)'
    BY <2>1 DEF UnitsInv, RowInv
  <2>4. \A s \in i.sessions : session'[s].kind \notin overlapped' \union {"none"} => Faithful(i, session[s])'
    BY <2>1 DEF UnitsInv, Faithful
  <2>5. UnitsInv(i)'
    BY <2>1, <2>2, <2>3, <2>4 DEF UnitsInv
  <2> QED
    BY <2>1, <2>5, SameRows
<1> QED
  BY <1>1, <1>2, <1>3, <1>4, <1>5, <1>6, CommitKeeps, SameRows DEF Units!Next

LEMMA UnitsStutter ==
  ASSUME NEW i, UnitsInv(i), UNCHANGED aggregateVars
  PROVE  UnitsInv(i)' /\ Units(i)!EndedStaysEnded
<1>1. \A k \in i.kinds : RowInv(i, k)'
  BY DEF UnitsInv, RowInv, aggregateVars
<1>2. \A s \in i.sessions : session'[s].kind \notin overlapped' \union {"none"} => Faithful(i, session[s])'
  BY DEF UnitsInv, Faithful, aggregateVars
<1> QED
  BY <1>1, <1>2, SameRows DEF UnitsInv, aggregateVars

\* What the invariant says of rows, of what subscribers know and of what is held.
UnitsAreSound(i) ==
    Units(i)!TypeOK /\ Units(i)!SubscribersKnowTheRow /\ Units(i)!BundlesAreSound /\ Units(i)!PendingIsAcceptable

LEMMA UnitsInvSuffices ==
  ASSUME NEW i, Units(i)!AggregatesAssumption, UnitsInv(i)
  PROVE  UnitsAreSound(i)
<1>1. ASSUME NEW k \in i.kinds, row[k] # Units(i)!None
      PROVE  SoundRow(i, k, row[k])
  BY <1>1, StoredRow, InstanceKinds DEF UnitsInv, RowInv
<1>2. Units(i)!TypeOK
  <2>1. \A k \in i.kinds : row[k] = Units(i)!None \/ (row[k].kind = k /\ ("name" \in DOMAIN row[k] => row[k].name # ""))
    BY <1>1 DEF SoundRow
  <2> QED
    BY <2>1 DEF UnitsInv, UnitOfWork, Units!TypeOK
<1>3. Units(i)!SubscribersKnowTheRow
  <2>1. ASSUME NEW k \in i.kinds \ (overlapped \union quiet), row[k] # Units(i)!None, NEW f \in DOMAIN told[k]
        PROVE  IF f = "roleIds" THEN Units(i)!Range(told[k][f]) = row[k][f] ELSE told[k][f] = row[k][f]
    BY <2>1 DEF UnitsInv, RowInv, KnowsRow, Heard
  <2> QED
    BY <2>1 DEF Units!SubscribersKnowTheRow
<1>4. Units(i)!BundlesAreSound
  <2> SUFFICES ASSUME NEW k \in i.kinds
               PROVE  /\ row[k].kind \in {"membership", "invitation"} => row[k].roleIds # {}
                      /\ row[k].kind \in {"role", "apiKey"} => row[k].permissions # {}
                      /\ row[k].kind = "apiKey" => i.manage \notin row[k].permissions
                      /\ row[k].kind = "role" => row[k].isSystem = (row[k].name \in Units(i)!SystemRoleNames)
                      /\ row[k].kind = "role" /\ row[k].isSystem =>
                            row[k].permissions = Units(i)!Range(Units(i)!PermissionsFor(row[k].name))
    BY DEF Units!BundlesAreSound
  <2>1. CASE row[k] = Units(i)!None
    BY <2>1 DEF Units!None
  <2>2. CASE row[k] # Units(i)!None
    <3>1. SoundRow(i, k, row[k]) /\ row[k].kind = k
      BY <1>1, <2>2 DEF SoundRow
    <3> QED
      BY <3>1 DEF SoundRow
  <2> QED
    BY <2>1, <2>2
<1>5. Units(i)!PendingIsAcceptable
  <2>1. ASSUME NEW s \in i.sessions, session[s].kind = "invitation"
        PROVE  Units(i)!Consume(session[s].object, now) # {} <=> Units(i)!InvitationActive(session[s].object, now)
    <3>1. session[s].object.expiresAt = i.expiresAt /\ now \in 0 .. i.time
      BY <2>1 DEF UnitsInv, UnitOfWork, Whole
    <3>2. i.expiresAt <= now <=> ~(i.expiresAt > now)
      BY <3>1, InstanceKinds
    <3> QED
      BY <3>1, <3>2 DEF Units!Consume, Units!InvitationActive
  <2> QED
    BY <2>1 DEF Units!PendingIsAcceptable
<1> QED
  BY <1>2, <1>3, <1>4, <1>5 DEF UnitsAreSound

\* The instance a part of the run explores, and its invariant.
PartInv ==
    /\ part = "named" => UnitsInv(Named)
    /\ part = "bundles" => UnitsInv(Bundles)
    /\ part \in {"endingKey", "endingInvitation"} => UnitsInv(Ending)

LEMMA InitPartInv == EdgeInit => PartInv
<1> SUFFICES ASSUME EdgeInit PROVE PartInv
  OBVIOUS
<1>1. /\ part = "named" => Units(Named)!Init
      /\ part = "bundles" => Units(Bundles)!Init
      /\ part \in {"endingKey", "endingInvitation"} => Units(Ending)!Init
  BY DEF EdgeInit
<1> QED
  BY <1>1, InitUnits, UnitsAssumption DEF PartInv

LEMMA PartNext ==
  ASSUME PartInv, [EdgeNext]_<<part, vars, edgeVars, aggregateVars, accountVars>>
  PROVE  PartInv' /\ (part \in {"endingKey", "endingInvitation"} => Units(Ending)!EndedStaysEnded)
<1>1. part' = part
  BY DEF EdgeNext, Scoping, Requesting, Working, Registering
<1>2. CASE Working
  <2>1. part = "named" => UnitsInv(Named)'
    BY <1>2, UnitsNext, UnitsAssumption DEF Working, PartInv
  <2>2. part = "bundles" => UnitsInv(Bundles)'
    BY <1>2, UnitsNext, UnitsAssumption DEF Working, PartInv
  <2>3. part \in {"endingKey", "endingInvitation"} => UnitsInv(Ending)' /\ Units(Ending)!EndedStaysEnded
    BY <1>2, UnitsNext, UnitsAssumption DEF Working, PartInv
  <2> QED
    BY <1>1, <2>1, <2>2, <2>3 DEF PartInv
<1>3. CASE UNCHANGED aggregateVars
  BY <1>1, <1>3, UnitsStutter DEF PartInv
<1> QED
  BY <1>2, <1>3 DEF EdgeNext, Scoping, Requesting, Registering

-----------------------------------------------------------------------------
(* Accounts: an address is stored in its one normal form whichever way it    *)
(* came, so the unique address makes one account per person, and the one     *)
(* password of the account is the one last chosen for the person.  What is   *)
(* half done and what is stored stays inside what the schemas admit, so the  *)
(* domain refuses nothing and no answer is refused on its way out.           *)

Mail(p) == <<"email", p>>

UsersInv(i) ==
    /\ IsFiniteSet(users) /\ Cardinality(users) <= i.users
    /\ \A u \in users :
          /\ u.id \in 1 .. Cardinality(users)
          /\ \E p \in i.persons : u.email = Mail(p)
          /\ Book(i)!Lex(u.name) \in Book(i)!Strings
    /\ \A u, v \in users : u.id = v.id \/ u.email = v.email => u = v

PasswordsInv(i) ==
    /\ chosen \in [i.persons -> Book(i)!Passwords \union {Book(i)!None}]
    /\ secrets \subseteq Nat \X Book(i)!Passwords
    /\ \A x \in secrets : \E u \in users : u.id = x[1]
    /\ \A u \in users, p \in i.persons, w \in Book(i)!Passwords :
          u.email = Mail(p) => (<<u.id, w>> \in secrets <=> chosen[p] = w)
    /\ \A p \in i.persons : (\A u \in users : u.email # Mail(p)) => chosen[p] = Book(i)!None

TenancyInv(i) ==
    /\ invited \subseteq {Mail(p) : p \in i.persons}
    /\ invited # {} => memberships # {}
    /\ \A m \in memberships : (\E u \in users : u.id = m[1]) /\ m[2] \in {{1}, {2}}
    /\ memberships = {} => roles = {}
    /\ memberships # {} => {1, 2} \subseteq {r.id : r \in roles}

\* A name as the contract admits it, and an address as it parses.
NameAdmitted(i, v) == Book(i)!Lex(v) \in Book(i)!Strings \ {"blank", "empty"}
MailAdmitted(i, v) == \E p \in i.persons, l \in {"email", "EMAIL"} : v = <<l, p>>

RowOf(i, x, fields) ==
    /\ DOMAIN x = fields
    /\ NameAdmitted(i, x.name)
    /\ x.permissions \subseteq Book(i)!PermissionName /\ x.permissions # {}

RowsInv(i) ==
    /\ \A r \in roles : RowOf(i, r, {"id", "name", "system", "permissions"})
    /\ \A k \in keys :
          /\ RowOf(i, k, {"id", "name", "permissions", "dates"})
          /\ k.dates \subseteq {"expiresAt", "revokedAt", "lastUsedAt"}

SlotsInv(i) ==
    /\ DOMAIN slot = i.slots
    /\ \A s \in i.slots :
          \/ slot[s] = Book(i)!Free
          \/ /\ slot[s].op \in {"createUser", "register", "seed"}
             /\ MailAdmitted(i, slot[s].cmd.email) /\ NameAdmitted(i, slot[s].cmd.displayName)
             /\ slot[s].op = "register" => slot[s].cmd.password \in Book(i)!Passwords

CleanInv == refused = {} /\ lost = {}

BookInv(i) == UsersInv(i) /\ PasswordsInv(i) /\ TenancyInv(i) /\ RowsInv(i) /\ SlotsInv(i) /\ CleanInv

\* The list of a finite set is a sequence of its elements: its recursive
\* definition has a solution on the subsets of every size, and every solution
\* is made of sequences.
LEMMA ListOfSet ==
  ASSUME NEW i, NEW A, IsFiniteSet(A)
  PROVE  Book(i)!AsList(A) \in Seq(A)
<1> DEFINE Pick(s) == CHOOSE x \in s : TRUE
           Step(f, s) == IF s = {} THEN <<>> ELSE Append(f[s \ {Pick(s)}], Pick(s))
           Small(n) == {s \in SUBSET A : Cardinality(s) <= n}
           Solved == {n \in Nat : \E f : f = [s \in Small(n) |-> Step(f, s)]}
           list == CHOOSE f : f = [s \in SUBSET A |-> Step(f, s)]
           Typed == {n \in Nat : \A s \in Small(n) : list[s] \in Seq(A)}
<1>1. \A s \in SUBSET A : IsFiniteSet(s) /\ Cardinality(s) \in Nat /\ Cardinality(s) <= Cardinality(A)
                          /\ (Cardinality(s) = 0 <=> s = {})
  BY FS_Subset, FS_CardinalityType, FS_EmptySet
<1>2. \A s \in SUBSET A : s # {} => /\ Pick(s) \in s /\ s \ {Pick(s)} \in SUBSET A
                                    /\ Cardinality(s \ {Pick(s)}) = Cardinality(s) - 1
  BY <1>1, FS_RemoveElement
<1> HIDE DEF Pick
<1>3. ASSUME NEW n \in Nat, NEW s \in Small(n + 1), s # {}
      PROVE  s \ {Pick(s)} \in Small(n) /\ s \ {Pick(s)} \in Small(n + 1) /\ Pick(s) \in A
  BY <1>1, <1>2, <1>3
<1>4. Small(0) = {{}} /\ Small(Cardinality(A)) = SUBSET A
  BY <1>1
<1>5. Cardinality(A) \in Solved
  <2>1. 0 \in Solved
    <3> DEFINE f == [s \in Small(0) |-> <<>>]
    <3>1. f = [s \in Small(0) |-> Step(f, s)]
      BY <1>4
    <3> QED
      BY <3>1
  <2>2. ASSUME NEW n \in Nat, n \in Solved
        PROVE  n + 1 \in Solved
    <3>1. PICK f : f = [s \in Small(n) |-> Step(f, s)]
      BY <2>2
    <3> DEFINE g == [s \in Small(n + 1) |-> IF s \in Small(n) THEN f[s] ELSE Step(f, s)]
    <3>2. ASSUME NEW s \in Small(n + 1)
          PROVE  g[s] = Step(g, s)
      <4>1. CASE s = {}
        BY <1>1, <3>1, <4>1
      <4>2. CASE s # {}
        <5>1. g[s \ {Pick(s)}] = f[s \ {Pick(s)}]
          BY <1>3, <4>2
        <5>2. g[s] = Step(f, s)
          BY <3>1
        <5> HIDE DEF g
        <5> QED
          BY <4>2, <5>1, <5>2
      <4> QED
        BY <4>1, <4>2
    <3>3. g = [s \in Small(n + 1) |-> g[s]]
      OBVIOUS
    <3> HIDE DEF g
    <3>4. g = [s \in Small(n + 1) |-> Step(g, s)]
      BY <3>2, <3>3
    <3> HIDE DEF Step, Small
    <3>5. \E h : h = [s \in Small(n + 1) |-> Step(h, s)]
      BY <3>4, Zenon
    <3> QED
      BY <3>5
  <2> HIDE DEF Solved
  <2> QED
    BY <1>1, <2>1, <2>2, NatSetInduction
<1>6. list = [s \in SUBSET A |-> Step(list, s)]
  <2>1. \E f : f = [s \in SUBSET A |-> Step(f, s)]
    BY <1>4, <1>5
  <2> QED
    BY <2>1
<1>7. Book(i)!AsList(A) = list[A]
  BY DEF Book!AsList, Pick
<1> HIDE DEF list
<1>8. Cardinality(A) \in Typed
  <2>1. 0 \in Typed
    BY <1>4, <1>6
  <2>2. ASSUME NEW n \in Nat, n \in Typed
        PROVE  n + 1 \in Typed
    <3>1. ASSUME NEW s \in Small(n + 1)
          PROVE  list[s] \in Seq(A)
      <4>1. CASE s = {}
        BY <1>6, <4>1
      <4>2. CASE s # {}
        <5>1. list[s] = Append(list[s \ {Pick(s)}], Pick(s))
          BY <1>6, <4>2
        <5>2. list[s \ {Pick(s)}] \in Seq(A) /\ Pick(s) \in A
          BY <1>3, <2>2, <4>2
        <5> QED
          BY <5>1, <5>2
      <4> QED
        BY <4>1, <4>2
    <3> QED
      BY <3>1
  <2> HIDE DEF Typed
  <2> QED
    BY <1>1, <2>1, <2>2, NatSetInduction
<1> QED
  BY <1>4, <1>7, <1>8

LEMMA Values ==
  ASSUME NEW i, NEW l, NEW v
  PROVE  Book(i)!Lex(Book(i)!V(l, v)) = l /\ Book(i)!Of(Book(i)!V(l, v)) = v
BY DEF Book!Lex, Book!Of, Book!V

\* What the fields of a schema admit.
LEMMA Fields ==
  ASSUME NEW i, NEW t, NEW v
  PROVE  /\ Book(i)!Admits(Book(i)!One(t), v) <=> Book(i)!Lex(v) \in Book(i)!Lexes[t]
         /\ Book(i)!Admits(Book(i)!Opt(t), v) <=> Book(i)!Lex(v) \in Book(i)!Lexes[t]
         /\ Book(i)!Admits(Book(i)!Many(t), v)
              <=> Len(v) >= 0 /\ \A j \in DOMAIN v : Book(i)!Lex(v[j]) \in Book(i)!Lexes[t]
         /\ Book(i)!Admits([Book(i)!Many(t) EXCEPT !.opt = TRUE], v)
              <=> Len(v) >= 0 /\ \A j \in DOMAIN v : Book(i)!Lex(v[j]) \in Book(i)!Lexes[t]
         /\ Book(i)!Admits(Book(i)!Some(t), v)
              <=> Len(v) >= 1 /\ \A j \in DOMAIN v : Book(i)!Lex(v[j]) \in Book(i)!Lexes[t]
         /\ Book(i)!Admits(Book(i)!Perhaps(t), v)
              <=> Len(v) >= 1 /\ \A j \in DOMAIN v : Book(i)!Lex(v[j]) \in Book(i)!Lexes[t]
         /\ ~Book(i)!One(t).opt /\ Book(i)!Opt(t).opt /\ [Book(i)!Many(t) EXCEPT !.opt = TRUE].opt
         /\ ~Book(i)!Many(t).opt /\ ~Book(i)!Some(t).opt /\ Book(i)!Perhaps(t).opt
         /\ ~Book(i)!One(t).list /\ ~Book(i)!Opt(t).list /\ Book(i)!Some(t).list /\ Book(i)!Perhaps(t).list
         /\ Book(i)!One(t).type = t /\ Book(i)!Opt(t).type = t
<1> DEFINE Shape(f, list, min, opt) ==
             /\ DOMAIN f = {"type", "list", "min", "opt"}
             /\ f.type = t /\ (f.list <=> list) /\ f.min = min /\ (f.opt <=> opt)
<1>1. Shape(Book(i)!One(t), FALSE, 0, FALSE)
  BY DEF Book!One
<1>2. ASSUME NEW f, NEW min, NEW list, Shape(f, list, min, FALSE)
      PROVE  Shape([f EXCEPT !.opt = TRUE], list, min, TRUE)
  BY <1>2
<1>3. Shape(Book(i)!Opt(t), FALSE, 0, TRUE)
  BY <1>1, <1>2 DEF Book!Opt
<1>4. Shape(Book(i)!Many(t), TRUE, 0, FALSE)
  BY <1>1 DEF Book!Many
<1>5. Shape([Book(i)!Many(t) EXCEPT !.opt = TRUE], TRUE, 0, TRUE)
  BY <1>2, <1>4
<1>6. Shape(Book(i)!Some(t), TRUE, 1, FALSE)
  BY <1>4 DEF Book!Some
<1>7. Shape(Book(i)!Perhaps(t), TRUE, 1, TRUE)
  BY <1>2, <1>6 DEF Book!Perhaps
<1> QED
  BY <1>1, <1>3, <1>4, <1>5, <1>6, <1>7 DEF Book!Admits

\* What the input schemas let through, and what the mappers make of it.
LEMMA Admission ==
  ASSUME NEW i, NEW v
  PROVE  /\ Book(i)!Admits(Book(i)!One("email"), v) <=> Book(i)!Lex(v) \in {"email", "EMAIL"}
         /\ Book(i)!Admits(Book(i)!One("name"), v) <=> NameAdmitted(i, v)
         /\ Book(i)!Admits(Book(i)!Opt("name"), v) <=> NameAdmitted(i, v)
         /\ Book(i)!Admits(Book(i)!One("secret8"), v) <=> Book(i)!Lex(v) = "long"
         /\ Book(i)!Admits(Book(i)!Opt("secret8"), v) <=> Book(i)!Lex(v) = "long"
         /\ Book(i)!Admits(Book(i)!One("secret1"), v) <=> Book(i)!Lex(v) \in Book(i)!Strings \ {"empty"}
         /\ Book(i)!Admits(Book(i)!One("id"), v) <=> Book(i)!Lex(v) = "uuid"
         /\ Book(i)!Admits(Book(i)!One("string"), v) <=> Book(i)!Lex(v) \in Book(i)!Strings
         /\ Book(i)!Trimmed("email", v) = v /\ Book(i)!Trimmed("secret8", v) = v
         /\ NameAdmitted(i, v) => NameAdmitted(i, Book(i)!Trimmed("name", v)) /\ NameAdmitted(i, Book(i)!Trim(v))
<1>1. /\ Book(i)!Lexes["email"] = {"email", "EMAIL"} /\ Book(i)!Lexes["secret8"] = {"long"}
      /\ Book(i)!Lexes["name"] = Book(i)!Strings \ {"blank", "empty"}
      /\ Book(i)!Lexes["secret1"] = Book(i)!Strings \ {"empty"}
      /\ Book(i)!Lexes["id"] = {"uuid"} /\ Book(i)!Lexes["string"] = Book(i)!Strings
  BY DEF Book!Lexes
<1>2. /\ Book(i)!Trimmed("email", v) = v /\ Book(i)!Trimmed("secret8", v) = v
      /\ NameAdmitted(i, v) => NameAdmitted(i, Book(i)!Trimmed("name", v)) /\ NameAdmitted(i, Book(i)!Trim(v))
  BY DEF Book!Trimmed, Book!Trim, NameAdmitted, Book!V, Book!Lex, Book!Strings
<1>3. ASSUME NEW t
      PROVE  /\ Book(i)!Admits(Book(i)!One(t), v) <=> Book(i)!Lex(v) \in Book(i)!Lexes[t]
             /\ Book(i)!Admits(Book(i)!Opt(t), v) <=> Book(i)!Lex(v) \in Book(i)!Lexes[t]
  BY Fields
<1>4. NameAdmitted(i, v) <=> Book(i)!Lex(v) \in Book(i)!Lexes["name"]
  BY <1>1 DEF NameAdmitted
<1> QED
  BY <1>1, <1>2, <1>3, <1>4

LEMMA CreateBodies ==
  ASSUME NEW i, NEW email, NEW name,
         Book(i)!Valid(Book(i)!createUserInputSchema, [email |-> email, displayName |-> name])
  PROVE  LET body == [email |-> email, displayName |-> name]
             cmd == Book(i)!CreateUserMapper(Book(i)!Parsed(Book(i)!createUserInputSchema, body))
         IN  /\ Book(i)!Lex(email) \in {"email", "EMAIL"} /\ cmd.email = email
             /\ NameAdmitted(i, cmd.displayName)
<1>1. ASSUME NEW t PROVE ~Book(i)!One(t).list /\ Book(i)!One(t).type = t
  BY Fields
<1> QED
  BY <1>1, Admission DEF Book!Valid, Book!Parsed, Book!createUserInputSchema, Book!CreateUserMapper

LEMMA RegisterBodies ==
  ASSUME NEW i, NEW email, NEW name, NEW password,
         Book(i)!Valid(Book(i)!registerUserInputSchema,
                       [email |-> email, displayName |-> name, password |-> password])
  PROVE  LET body == [email |-> email, displayName |-> name, password |-> password]
             cmd == Book(i)!RegisterUserMapper(Book(i)!Parsed(Book(i)!registerUserInputSchema, body))
         IN  /\ Book(i)!Lex(email) \in {"email", "EMAIL"} /\ cmd.email = email
             /\ NameAdmitted(i, cmd.displayName)
             /\ Book(i)!Lex(password) = "long" /\ cmd.password = password
<1>1. ASSUME NEW t PROVE ~Book(i)!One(t).list /\ Book(i)!One(t).type = t
  BY Fields
<1> QED
  BY <1>1, Admission DEF Book!Valid, Book!Parsed, Book!registerUserInputSchema, Book!RegisterUserMapper

PermissionsAdmitted(i, ps) == ps \subseteq Book(i)!PermissionName /\ ps # {}

LEMMA ListBodies ==
  ASSUME NEW i, NEW l \in Book(i)!Lists,
         \/ Book(i)!Admits(Book(i)!Some("permission"), l)
         \/ Book(i)!Admits(Book(i)!Perhaps("permission"), l)
  PROVE  PermissionsAdmitted(i, Book(i)!PermissionsOf(l))
<1>1. Len(l) >= 1 /\ \A j \in DOMAIN l : Book(i)!Lex(l[j]) \in Book(i)!Lexes["permission"]
  BY Fields
<1>2. Book(i)!Lexes["permission"] = {"permission"}
  BY DEF Book!Lexes
<1>3. l # <<>>
  BY <1>1
<1>4. PICK p : l = <<Book(i)!permissionSchema(p)>>
  BY <1>3 DEF Book!Lists
<1>5. DOMAIN l = {1} /\ l[1] = Book(i)!permissionSchema(p)
  BY <1>4
<1>6. p \in Book(i)!PermissionName /\ Book(i)!Of(l[1]) = p
  BY <1>1, <1>2, <1>5 DEF Book!permissionSchema, Book!Lex, Book!Of, Book!V
<1>7. Book(i)!PermissionsOf(l) = {p}
  BY <1>5, <1>6 DEF Book!PermissionsOf
<1> QED
  BY <1>6, <1>7 DEF PermissionsAdmitted

LEMMA RowBodies ==
  ASSUME NEW i, NEW schema \in {Book(i)!createRoleInputSchema, Book(i)!createApiKeyInputSchema},
         NEW body \in Book(i)!RoleBodies(schema)
  PROVE  LET in == Book(i)!Parsed(schema, body)
         IN  NameAdmitted(i, Book(i)!Trim(in.name)) /\ PermissionsAdmitted(i, Book(i)!PermissionsOf(in.permissions))
<1>1. PICK n \in Book(i)!Named, l \in Book(i)!Lists : body = [name |-> n, permissions |-> l]
  BY DEF Book!RoleBodies
<1>2. /\ {"name", "permissions"} \subseteq DOMAIN schema
      /\ schema.name = Book(i)!One("name") /\ schema.permissions = Book(i)!Some("permission")
  BY DEF Book!createRoleInputSchema, Book!createApiKeyInputSchema
<1>3. DOMAIN body = {"name", "permissions"} /\ body.name = n /\ body.permissions = l
  BY <1>1
<1>4. Book(i)!Admits(Book(i)!One("name"), n) /\ Book(i)!Admits(Book(i)!Some("permission"), l)
  BY <1>2, <1>3 DEF Book!RoleBodies, Book!Valid
<1>5. Book(i)!Parsed(schema, body).name = Book(i)!Trimmed("name", n) /\ Book(i)!Parsed(schema, body).permissions = l
  <2>1. ~Book(i)!One("name").list /\ Book(i)!One("name").type = "name" /\ Book(i)!Some("permission").list
    BY Fields
  <2> QED
    BY <1>2, <1>3, <2>1 DEF Book!Parsed
<1> QED
  BY <1>4, <1>5, Admission, ListBodies

LEMMA UpdatedBodies ==
  ASSUME NEW i, NEW schema \in {Book(i)!updateRoleInputSchema, Book(i)!updateApiKeyInputSchema},
         NEW body \in Book(i)!UpdateBodies(schema)
  PROVE  LET in == Book(i)!Parsed(schema, body)
         IN  /\ "name" \in DOMAIN in => NameAdmitted(i, Book(i)!Trim(in.name))
             /\ "permissions" \in DOMAIN in => PermissionsAdmitted(i, Book(i)!PermissionsOf(in.permissions))
<1>1. /\ DOMAIN schema = {"name", "permissions"}
      /\ schema.name = Book(i)!Opt("name") /\ schema.permissions = Book(i)!Perhaps("permission")
  BY DEF Book!updateRoleInputSchema, Book!updateApiKeyInputSchema
<1>2. "permissions" \in DOMAIN body => body.permissions \in Book(i)!Lists
  BY DEF Book!UpdateBodies, Book!RoleBodies
<1>3. /\ "name" \in DOMAIN body => Book(i)!Admits(Book(i)!Opt("name"), body.name)
      /\ "permissions" \in DOMAIN body => Book(i)!Admits(Book(i)!Perhaps("permission"), body.permissions)
  BY <1>1 DEF Book!UpdateBodies, Book!Valid
<1>4. /\ DOMAIN Book(i)!Parsed(schema, body) \subseteq DOMAIN body
      /\ "name" \in DOMAIN Book(i)!Parsed(schema, body) =>
            Book(i)!Parsed(schema, body).name = Book(i)!Trimmed("name", body.name)
      /\ "permissions" \in DOMAIN Book(i)!Parsed(schema, body) =>
            Book(i)!Parsed(schema, body).permissions = body.permissions
  <2>1. ~Book(i)!Opt("name").list /\ Book(i)!Opt("name").type = "name" /\ Book(i)!Perhaps("permission").list
    BY Fields
  <2> QED
    BY <1>1, <2>1 DEF Book!Parsed
<1> QED
  BY <1>2, <1>3, <1>4, Admission, ListBodies

LEMMA OtherBodies ==
  ASSUME NEW i
  PROVE  /\ \A email : Book(i)!Valid(Book(i)!forgotPasswordInputSchema, [email |-> email])
                         <=> Book(i)!Lex(email) \in {"email", "EMAIL"}
         /\ \A email, password : Book(i)!Valid(Book(i)!loginInputSchema, [email |-> email, password |-> password])
               <=> Book(i)!Lex(email) \in {"email", "EMAIL"} /\ Book(i)!Lex(password) \in Book(i)!Strings \ {"empty"}
         /\ \A email, ids : Book(i)!Valid(Book(i)!inviteMemberInputSchema, [email |-> email, roleIds |-> ids])
               => Book(i)!Lex(email) \in {"email", "EMAIL"}
         /\ \A id : ~Book(i)!Valid(Book(i)!attachMemberInputSchema, [userId |-> id, roleIds |-> <<>>])
<1>1. \A email : Book(i)!Valid(Book(i)!forgotPasswordInputSchema, [email |-> email])
                   <=> Book(i)!Lex(email) \in {"email", "EMAIL"}
  BY Admission DEF Book!Valid, Book!forgotPasswordInputSchema
<1>2. \A email, password : Book(i)!Valid(Book(i)!loginInputSchema, [email |-> email, password |-> password])
         <=> Book(i)!Lex(email) \in {"email", "EMAIL"} /\ Book(i)!Lex(password) \in Book(i)!Strings \ {"empty"}
  BY Admission DEF Book!Valid, Book!loginInputSchema
<1>3. \A email, ids : Book(i)!Valid(Book(i)!inviteMemberInputSchema, [email |-> email, roleIds |-> ids])
         => Book(i)!Lex(email) \in {"email", "EMAIL"}
  BY Admission DEF Book!Valid, Book!inviteMemberInputSchema
<1>4. \A id : ~Book(i)!Valid(Book(i)!attachMemberInputSchema, [userId |-> id, roleIds |-> <<>>])
  <2>1. ~Book(i)!Admits(Book(i)!Some("id"), <<>>)
    <3>1. ~(Len(<<>>) >= 1)
      OBVIOUS
    <3> QED
      BY <3>1, Fields
  <2> QED
    BY <2>1 DEF Book!Valid, Book!attachMemberInputSchema
<1> QED
  BY <1>1, <1>2, <1>3, <1>4

\* What the mappers make of the rows is what the output schemas demand.
LEMMA Listed ==
  ASSUME NEW i, NEW t, NEW A, IsFiniteSet(A), \A a \in A : Book(i)!Lex(a) \in Book(i)!Lexes[t]
  PROVE  /\ Book(i)!Admits(Book(i)!Many(t), Book(i)!AsList(A))
         /\ Book(i)!Admits([Book(i)!Many(t) EXCEPT !.opt = TRUE], Book(i)!AsList(A))
<1> DEFINE l == Book(i)!AsList(A)
<1>1. l \in Seq(A)
  BY ListOfSet
<1> HIDE DEF l
<1>2. Len(l) >= 0 /\ \A j \in DOMAIN l : Book(i)!Lex(l[j]) \in Book(i)!Lexes[t]
  BY <1>1
<1>3. /\ Book(i)!Admits(Book(i)!Many(t), l)
      /\ Book(i)!Admits([Book(i)!Many(t) EXCEPT !.opt = TRUE], l)
  BY <1>2, Fields
<1> QED
  BY <1>3 DEF l

LEMMA PermissionLists ==
  ASSUME NEW i, NEW ps \in SUBSET Book(i)!PermissionName
  PROVE  Book(i)!Admits(Book(i)!Many("permission"), Book(i)!AsList({Book(i)!permissionSchema(p) : p \in ps}))
<1> DEFINE Wire(p) == <<"permission", p>>
           All == {Wire(p) : p \in Book(i)!PermissionName}
<1>1. {Book(i)!permissionSchema(p) : p \in ps} \subseteq All
  BY DEF Book!permissionSchema, Book!V
<1>2. IsFiniteSet(All)
  <2>1. All = ({Wire("tenancy.members.read")} \union {Wire("tenancy.members.invite")}
                \union {Wire("tenancy.members.manage")} \union {Wire("tenancy.tenant.read")})
              \union ({Wire("authorization.roles.read")} \union {Wire("authorization.roles.manage")}
                \union {Wire("identity.users.read")} \union {Wire("identity.api_keys.manage")})
    BY DEF Book!PermissionName
  <2> HIDE DEF Wire, All
  <2> QED
    BY <2>1, FS_Singleton, FS_Union
<1>3. Book(i)!Lexes["permission"] = {"permission"} /\ \A a \in All : Book(i)!Lex(a) = "permission"
  BY DEF Book!Lexes, Book!Lex
<1> HIDE DEF All
<1> QED
  BY <1>1, <1>2, <1>3, FS_Subset, Listed

LEMMA IdLists ==
  ASSUME NEW i, NEW rs \in SUBSET {1, 2}
  PROVE  /\ Book(i)!Admits(Book(i)!Many("id"), Book(i)!AsList({Book(i)!IdValue(r) : r \in rs}))
         /\ Book(i)!Admits([Book(i)!Many("id") EXCEPT !.opt = TRUE], Book(i)!AsList({Book(i)!IdValue(r) : r \in rs}))
<1>1. {Book(i)!IdValue(r) : r \in rs} \subseteq {Book(i)!IdValue(1)} \union {Book(i)!IdValue(2)}
  OBVIOUS
<1>2. IsFiniteSet({Book(i)!IdValue(r) : r \in rs})
  <2> DEFINE Both == {Book(i)!IdValue(1)} \union {Book(i)!IdValue(2)}
  <2>1. IsFiniteSet(Both)
    BY FS_Singleton, FS_Union
  <2> QED
    BY <1>1, <2>1, FS_Subset
<1>3. Book(i)!Lexes["id"] = {"uuid"} /\ \A a \in {Book(i)!IdValue(r) : r \in rs} : Book(i)!Lex(a) = "uuid"
  BY DEF Book!Lexes, Book!Lex, Book!IdValue, Book!V
<1> QED
  BY <1>2, <1>3, Listed

LEMMA SmallAnswers ==
  ASSUME NEW i, NEW a, NEW b, NEW c, NEW d, NEW e
  PROVE  /\ Book(i)!Valid(Book(i)!createUserOutputSchema, Book(i)!UserIdOutput(a))
         /\ Book(i)!Valid(Book(i)!attachMemberOutputSchema, Book(i)!UserIdOutput(a))
         /\ Book(i)!Valid(Book(i)!acceptInvitationOutputSchema,
              [userId |-> Book(i)!IdValue(a), membershipId |-> Book(i)!IdValue(b), tenantId |-> Book(i)!IdValue(c)])
         /\ Book(i)!Valid(Book(i)!createTenantOutputSchema,
              [id |-> Book(i)!IdValue(a), ownerMembershipId |-> Book(i)!IdValue(b), roleIds_owner |-> Book(i)!IdValue(c),
               roleIds_admin |-> Book(i)!IdValue(d), roleIds_member |-> Book(i)!IdValue(e)])
         /\ Book(i)!Valid(Book(i)!createApiKeyOutputSchema,
              [id |-> Book(i)!IdValue(a), token |-> Book(i)!V("word", "bsk")])
<1>1. \A n : Book(i)!Admits(Book(i)!One("id"), Book(i)!IdValue(n))
  BY Admission DEF Book!IdValue, Book!V, Book!Lex
<1>2. Book(i)!Admits(Book(i)!One("string"), Book(i)!V("word", "bsk"))
  BY Admission DEF Book!V, Book!Lex, Book!Strings
<1>3. /\ Book(i)!Valid(Book(i)!createUserOutputSchema, Book(i)!UserIdOutput(a))
      /\ Book(i)!Valid(Book(i)!attachMemberOutputSchema, Book(i)!UserIdOutput(a))
  BY <1>1 DEF Book!Valid, Book!createUserOutputSchema, Book!attachMemberOutputSchema, Book!UserIdOutput
<1>4. Book(i)!Valid(Book(i)!acceptInvitationOutputSchema,
              [userId |-> Book(i)!IdValue(a), membershipId |-> Book(i)!IdValue(b), tenantId |-> Book(i)!IdValue(c)])
  BY <1>1 DEF Book!Valid, Book!acceptInvitationOutputSchema
<1>5. Book(i)!Valid(Book(i)!createTenantOutputSchema,
              [id |-> Book(i)!IdValue(a), ownerMembershipId |-> Book(i)!IdValue(b), roleIds_owner |-> Book(i)!IdValue(c),
               roleIds_admin |-> Book(i)!IdValue(d), roleIds_member |-> Book(i)!IdValue(e)])
  BY <1>1 DEF Book!Valid, Book!createTenantOutputSchema
<1>6. Book(i)!Valid(Book(i)!createApiKeyOutputSchema,
              [id |-> Book(i)!IdValue(a), token |-> Book(i)!V("word", "bsk")])
  BY <1>1, <1>2 DEF Book!Valid, Book!createApiKeyOutputSchema
<1> QED
  BY <1>3, <1>4, <1>5, <1>6

LEMMA RoleAnswers ==
  ASSUME NEW i, NEW r, NameAdmitted(i, r.name), r.permissions \subseteq Book(i)!PermissionName
  PROVE  Book(i)!Valid(Book(i)!roleOutputSchema, Book(i)!RolesMapper(r))
<1> DEFINE out == Book(i)!RolesMapper(r)
<1>1. Book(i)!Admits(Book(i)!One("id"), out.id) /\ Book(i)!Admits(Book(i)!One("string"), out.name)
  BY Admission DEF Book!RolesMapper, Book!IdValue, Book!V, Book!Lex, NameAdmitted
<1>2. Book(i)!Admits(Book(i)!Many("permission"), out.permissions)
  BY PermissionLists DEF Book!RolesMapper
<1>3. Book(i)!Admits(Book(i)!One("boolean"), out.isSystem)
  <2>1. Book(i)!Lexes["boolean"] = {"flag"} /\ Book(i)!Lex(out.isSystem) = "flag"
    BY DEF Book!Lexes, Book!RolesMapper, Book!V, Book!Lex
  <2> QED
    BY <2>1, Fields
<1>4. DOMAIN out = {"id", "name", "isSystem", "permissions"}
  BY DEF Book!RolesMapper
<1> HIDE DEF out
<1> QED
  BY <1>1, <1>2, <1>3, <1>4 DEF Book!Valid, Book!roleOutputSchema, out

LEMMA KeyAnswers ==
  ASSUME NEW i, NEW k, NameAdmitted(i, k.name), k.permissions \subseteq Book(i)!PermissionName,
         k.dates \subseteq {"expiresAt", "revokedAt", "lastUsedAt"}
  PROVE  Book(i)!Valid(Book(i)!apiKeyOutputSchema, Book(i)!ApiKeysMapper(k))
<1> DEFINE out == Book(i)!ApiKeysMapper(k)
           dates == {"expiresAt", "revokedAt", "lastUsedAt"}
<1>1. DOMAIN out = {"id", "name", "prefix", "permissions"} \union k.dates
  BY DEF Book!ApiKeysMapper
<1>2. /\ Book(i)!Admits(Book(i)!One("id"), out.id) /\ Book(i)!Admits(Book(i)!One("string"), out.name)
      /\ Book(i)!Admits(Book(i)!One("string"), out.prefix)
  BY Admission DEF Book!ApiKeysMapper, Book!IdValue, Book!V, Book!Lex, Book!Strings, NameAdmitted
<1>3. Book(i)!Admits(Book(i)!Many("permission"), out.permissions)
  BY PermissionLists DEF Book!ApiKeysMapper
<1>4. ASSUME NEW f \in dates
      PROVE  Book(i)!Opt("datetime").opt /\ (f \in k.dates => Book(i)!Admits(Book(i)!Opt("datetime"), out[f]))
  <2>1. Book(i)!Lexes["datetime"] = {"instant"}
    BY DEF Book!Lexes
  <2>2. f \in k.dates => Book(i)!Lex(out[f]) = "instant"
    BY DEF Book!ApiKeysMapper, Book!V, Book!Lex
  <2> QED
    BY <2>1, <2>2, Fields
<1>5. /\ DOMAIN Book(i)!apiKeyOutputSchema = {"id", "name", "prefix", "permissions"} \union dates
      /\ \A f \in dates : Book(i)!apiKeyOutputSchema[f] = Book(i)!Opt("datetime")
      /\ Book(i)!apiKeyOutputSchema.id = Book(i)!One("id") /\ Book(i)!apiKeyOutputSchema.name = Book(i)!One("string")
      /\ Book(i)!apiKeyOutputSchema.prefix = Book(i)!One("string")
      /\ Book(i)!apiKeyOutputSchema.permissions = Book(i)!Many("permission")
  BY DEF Book!apiKeyOutputSchema
<1> HIDE DEF out
<1> QED
  BY <1>1, <1>2, <1>3, <1>4, <1>5 DEF Book!Valid, out

LEMMA MemberAnswers ==
  ASSUME NEW i, BookInv(i), NEW m \in memberships, NEW pii \in BOOLEAN
  PROVE  Book(i)!Valid(Book(i)!tenantMemberSchema, Book(i)!TenantMembersMapper(m, pii))
<1>0. PICK out : out = Book(i)!TenantMembersMapper(m, pii)
  OBVIOUS
<1> DEFINE known == {"membershipId", "userId", "roleIds", "status"}
           user == {"user_email", "user_displayName"}
<1>1. /\ known \subseteq DOMAIN out /\ DOMAIN out \subseteq known \union user
      /\ out.membershipId = Book(i)!IdValue(m[1]) /\ out.userId = Book(i)!IdValue(m[1])
      /\ out.roleIds = Book(i)!AsList({Book(i)!IdValue(x) : x \in m[2]})
      /\ out.status = Book(i)!V("active", "status")
      /\ "user_email" \in DOMAIN out => out.user_email = Book(i)!UserOf(m[1]).email
      /\ "user_displayName" \in DOMAIN out => out.user_displayName = Book(i)!UserOf(m[1]).name
  BY <1>0 DEF Book!TenantMembersMapper
<1>2. Book(i)!Admits(Book(i)!One("id"), out.membershipId) /\ Book(i)!Admits(Book(i)!One("id"), out.userId)
  BY <1>1, Admission, Values DEF Book!IdValue
<1>3. Book(i)!Admits(Book(i)!Many("id"), out.roleIds)
  <2>1. m[2] \in SUBSET {1, 2}
    BY DEF BookInv, TenancyInv
  <2>2. Book(i)!Admits(Book(i)!Many("id"), Book(i)!AsList({Book(i)!IdValue(x) : x \in m[2]}))
    BY <2>1, IdLists
  <2> QED
    BY <1>1, <2>2
<1>4. Book(i)!Admits(Book(i)!One("membership"), out.status)
  <2>1. Book(i)!Lexes["membership"] = {"active", "suspended", "invited"}
    BY DEF Book!Lexes
  <2>3. out.status = Book(i)!V("active", "status")
    BY <1>1
  <2>2. Book(i)!Lex(out.status) = "active"
    BY <2>3, Values
  <2> QED
    BY <2>1, <2>2, Fields
<1>5. Book(i)!UserOf(m[1]) \in users
  BY DEF BookInv, TenancyInv, Book!UserOf
<1>6. /\ "user_email" \in DOMAIN out => Book(i)!Admits(Book(i)!Opt("email"), out.user_email)
      /\ "user_displayName" \in DOMAIN out => Book(i)!Admits(Book(i)!Opt("string"), out.user_displayName)
  <2>1. /\ Book(i)!Lexes["email"] = {"email", "EMAIL"} /\ Book(i)!Lexes["string"] = Book(i)!Strings
    BY DEF Book!Lexes
  <2>2. Book(i)!Lex(Book(i)!UserOf(m[1]).email) = "email" /\ Book(i)!Lex(Book(i)!UserOf(m[1]).name) \in Book(i)!Strings
    BY <1>5 DEF BookInv, UsersInv, Mail, Book!Lex
  <2>4. ASSUME NEW t, NEW x
        PROVE  Book(i)!Admits(Book(i)!Opt(t), x) <=> Book(i)!Lex(x) \in Book(i)!Lexes[t]
    BY Fields
  <2>3. /\ Book(i)!Admits(Book(i)!Opt("email"), Book(i)!UserOf(m[1]).email)
        /\ Book(i)!Admits(Book(i)!Opt("string"), Book(i)!UserOf(m[1]).name)
    BY <2>1, <2>2, <2>4
  <2> QED
    BY <1>1, <2>3
<1>7. Book(i)!Opt("email").opt /\ Book(i)!Opt("string").opt
  BY Fields
<1>8. Book(i)!Valid(Book(i)!tenantMemberSchema, out)
  BY <1>1, <1>2, <1>3, <1>4, <1>6, <1>7 DEF Book!Valid, Book!tenantMemberSchema
<1> QED
  BY <1>0, <1>8

LEMMA MeAnswers ==
  ASSUME NEW i, BookInv(i), NEW u \in users
  PROVE  Book(i)!Valid(Book(i)!meOutputSchema, Book(i)!MeMapper(u.id))
<1> DEFINE own == {m \in memberships : m[1] = u.id}
           user == {"user_id", "user_email", "user_displayName", "user_status", "effectivePermissions"}
           there == {"membership_membershipId", "membership_tenantId", "membership_roleIds", "membership_status"}
           ids == UNION {m[2] : m \in own}
           ps == Book(i)!EffectivePermissions(u.id)
<1>1. PICK out : out = Book(i)!MeMapper(u.id)
  OBVIOUS
<1>2. /\ user \subseteq DOMAIN out /\ DOMAIN out \subseteq user \union there
      /\ out.user_id = Book(i)!IdValue(u.id) /\ out.user_email = Book(i)!UserOf(u.id).email
      /\ out.user_displayName = Book(i)!UserOf(u.id).name /\ out.user_status = Book(i)!V("active", "status")
      /\ out.effectivePermissions = Book(i)!AsList({Book(i)!permissionSchema(p) : p \in ps})
      /\ "membership_roleIds" \in DOMAIN out =>
            out.membership_roleIds = Book(i)!AsList({Book(i)!IdValue(r) : r \in ids})
      /\ "membership_membershipId" \in DOMAIN out => out.membership_membershipId = Book(i)!IdValue(u.id)
      /\ "membership_tenantId" \in DOMAIN out => out.membership_tenantId = Book(i)!IdValue(u.id)
      /\ "membership_status" \in DOMAIN out => out.membership_status = Book(i)!V("active", "status")
  BY <1>1 DEF Book!MeMapper
<1> HIDE DEF own, ids, ps
<1>3. ASSUME NEW t, NEW x
      PROVE  /\ Book(i)!Admits(Book(i)!One(t), x) <=> Book(i)!Lex(x) \in Book(i)!Lexes[t]
             /\ Book(i)!Admits(Book(i)!Opt(t), x) <=> Book(i)!Lex(x) \in Book(i)!Lexes[t]
             /\ Book(i)!Opt(t).opt /\ [Book(i)!Many(t) EXCEPT !.opt = TRUE].opt
  BY Fields
<1>4. /\ Book(i)!Lexes["id"] = {"uuid"} /\ Book(i)!Lexes["email"] = {"email", "EMAIL"}
      /\ Book(i)!Lexes["string"] = Book(i)!Strings /\ Book(i)!Lexes["status"] = {"active", "suspended"}
      /\ Book(i)!Lexes["membership"] = {"active", "suspended", "invited"}
  BY DEF Book!Lexes
<1>5. Book(i)!Lex(Book(i)!IdValue(u.id)) = "uuid" /\ Book(i)!Lex(Book(i)!V("active", "status")) = "active"
  BY Values DEF Book!IdValue
<1>6. /\ Book(i)!Lex(Book(i)!UserOf(u.id).email) = "email"
      /\ Book(i)!Lex(Book(i)!UserOf(u.id).name) \in Book(i)!Strings
  <2>1. Book(i)!UserOf(u.id) \in users
    BY DEF Book!UserOf
  <2> QED
    BY <2>1 DEF BookInv, UsersInv, Mail, Book!Lex
<1>7. Book(i)!Admits(Book(i)!One("id"), out.user_id) /\ Book(i)!Admits(Book(i)!One("status"), out.user_status)
  BY <1>2, <1>3, <1>4, <1>5
<1>8. Book(i)!Admits(Book(i)!One("email"), out.user_email) /\ Book(i)!Admits(Book(i)!One("string"), out.user_displayName)
  BY <1>2, <1>3, <1>4, <1>6
<1>9. Book(i)!Admits(Book(i)!Many("permission"), out.effectivePermissions)
  <2>1. ps \in SUBSET Book(i)!PermissionName
    BY DEF BookInv, RowsInv, RowOf, Book!EffectivePermissions, ps
  <2>2. Book(i)!Admits(Book(i)!Many("permission"), Book(i)!AsList({Book(i)!permissionSchema(p) : p \in ps}))
    BY <2>1, PermissionLists
  <2> QED
    BY <1>2, <2>2
<1>10. "membership_roleIds" \in DOMAIN out =>
          Book(i)!Admits([Book(i)!Many("id") EXCEPT !.opt = TRUE], out.membership_roleIds)
  <2>1. ids \in SUBSET {1, 2}
    BY DEF BookInv, TenancyInv, ids, own
  <2>2. Book(i)!Admits([Book(i)!Many("id") EXCEPT !.opt = TRUE], Book(i)!AsList({Book(i)!IdValue(r) : r \in ids}))
    BY <2>1, IdLists
  <2> QED
    BY <1>2, <2>2
<1>11. /\ "membership_membershipId" \in DOMAIN out => Book(i)!Admits(Book(i)!Opt("id"), out.membership_membershipId)
       /\ "membership_tenantId" \in DOMAIN out => Book(i)!Admits(Book(i)!Opt("id"), out.membership_tenantId)
       /\ "membership_status" \in DOMAIN out => Book(i)!Admits(Book(i)!Opt("membership"), out.membership_status)
  BY <1>2, <1>3, <1>4, <1>5
<1>12. /\ Book(i)!Opt("id").opt /\ Book(i)!Opt("membership").opt
       /\ [Book(i)!Many("id") EXCEPT !.opt = TRUE].opt
  BY <1>3
<1>13. Book(i)!Valid(Book(i)!meOutputSchema, out)
  <2>1. ASSUME NEW f \in DOMAIN Book(i)!meOutputSchema
        PROVE  IF f \in DOMAIN out THEN Book(i)!Admits(Book(i)!meOutputSchema[f], out[f])
                                   ELSE Book(i)!meOutputSchema[f].opt
    <3> DEFINE set == Book(i)!meOutputSchema
    <3>1. /\ DOMAIN set = user \union there
          /\ set.user_id = Book(i)!One("id") /\ set.user_email = Book(i)!One("email")
          /\ set.user_displayName = Book(i)!One("string") /\ set.user_status = Book(i)!One("status")
          /\ set.membership_membershipId = Book(i)!Opt("id") /\ set.membership_tenantId = Book(i)!Opt("id")
          /\ set.membership_roleIds = [Book(i)!Many("id") EXCEPT !.opt = TRUE]
          /\ set.membership_status = Book(i)!Opt("membership")
          /\ set.effectivePermissions = Book(i)!Many("permission")
      BY DEF Book!meOutputSchema
    <3>2. CASE f \in user
      BY <1>2, <1>7, <1>8, <1>9, <3>1, <3>2
    <3>3. CASE f \in there
      BY <1>10, <1>11, <1>12, <3>1, <3>3
    <3> QED
      BY <3>1, <3>2, <3>3
  <2> QED
    BY <2>1 DEF Book!Valid
<1> QED
  BY <1>1, <1>13

\* What each part of the invariant depends on.
LEMMA PartsRest ==
  ASSUME NEW i, BookInv(i)
  PROVE  /\ users' = users => UsersInv(i)'
         /\ users' = users /\ secrets' = secrets /\ chosen' = chosen => PasswordsInv(i)'
         /\ users' = users /\ memberships' = memberships /\ roles' = roles /\ invited' = invited => TenancyInv(i)'
         /\ roles' = roles /\ keys' = keys => RowsInv(i)'
         /\ slot' = slot => SlotsInv(i)'
         /\ refused' = refused /\ lost' = lost => CleanInv'
<1>1. users' = users => UsersInv(i)'
  BY DEF BookInv, UsersInv
<1>2. users' = users /\ secrets' = secrets /\ chosen' = chosen => PasswordsInv(i)'
  BY DEF BookInv, PasswordsInv
<1>3. users' = users /\ memberships' = memberships /\ roles' = roles /\ invited' = invited => TenancyInv(i)'
  BY DEF BookInv, TenancyInv
<1>4. roles' = roles /\ keys' = keys => RowsInv(i)'
  BY DEF BookInv, RowsInv
<1>5. slot' = slot => SlotsInv(i)'
  BY DEF BookInv, SlotsInv
<1>6. refused' = refused /\ lost' = lost => CleanInv'
  BY DEF BookInv, CleanInv
<1> QED
  BY <1>1, <1>2, <1>3, <1>4, <1>5, <1>6

LEMMA InitBookInv ==
  ASSUME NEW i, Book(i)!AccountsAssumption, Book(i)!Init
  PROVE  BookInv(i)
<1>1. i.users \in Nat
  BY DEF Book!AccountsAssumption
<1>2. UsersInv(i)
  BY <1>1, FS_EmptySet DEF Book!Init, UsersInv
<1>3. PasswordsInv(i)
  BY DEF Book!Init, PasswordsInv
<1>4. TenancyInv(i) /\ RowsInv(i) /\ CleanInv
  BY DEF Book!Init, TenancyInv, RowsInv, CleanInv
<1>5. SlotsInv(i)
  BY DEF Book!Init, SlotsInv
<1> QED
  BY <1>2, <1>3, <1>4, <1>5 DEF BookInv

\* A new account is for a person who had none and so has no password yet.
LEMMA NewAccount ==
  ASSUME NEW i, Book(i)!AccountsAssumption, BookInv(i), NEW p \in i.persons, \A u \in users : u.email # Mail(p),
         Cardinality(users) < i.users, NEW name, Book(i)!Lex(name) \in Book(i)!Strings,
         users' = users \union {[id |-> Cardinality(users) + 1, email |-> Mail(p), name |-> name]},
         \/ UNCHANGED <<secrets, chosen>>
         \/ \E w \in Book(i)!Passwords :
               /\ secrets' = secrets \union {<<Cardinality(users) + 1, w>>}
               /\ chosen' = [chosen EXCEPT ![p] = w]
  PROVE  UsersInv(i)' /\ PasswordsInv(i)'
<1> DEFINE id == Cardinality(users) + 1
<1>1. PICK new : new = [id |-> id, email |-> Mail(p), name |-> name]
  OBVIOUS
<1>2. new.id = id /\ new.email = Mail(p) /\ new.name = name /\ users' = users \union {new}
  BY <1>1
<1>3. i.users \in Nat /\ Cardinality(users) \in Nat /\ id \in Nat \ {0}
  BY FS_CardinalityType DEF Book!AccountsAssumption, BookInv, UsersInv
<1>4. \A u \in users : u.id \in 1 .. Cardinality(users) /\ u.id # id
  BY <1>3 DEF BookInv, UsersInv
<1>5. new \notin users
  BY <1>2, <1>4
<1>6. IsFiniteSet(users') /\ Cardinality(users') = id
  <2>1. IsFiniteSet(users)
    BY DEF BookInv, UsersInv
  <2>2. IsFiniteSet(users \union {new}) /\ Cardinality(users \union {new}) = Cardinality(users) + 1
    BY <1>5, <2>1, FS_AddElement
  <2> QED
    BY <1>2, <2>2
<1>7. UsersInv(i)'
  <2>1. IsFiniteSet(users') /\ Cardinality(users') <= i.users
    BY <1>3, <1>6
  <2>2. \A u \in users' :
          /\ u.id \in 1 .. Cardinality(users')
          /\ \E q \in i.persons : u.email = Mail(q)
          /\ Book(i)!Lex(u.name) \in Book(i)!Strings
    BY <1>2, <1>3, <1>4, <1>6 DEF BookInv, UsersInv
  <2>3. \A u, v \in users' : u.id = v.id \/ u.email = v.email => u = v
    BY <1>2, <1>4 DEF BookInv, UsersInv
  <2> QED
    BY <2>1, <2>2, <2>3 DEF UsersInv
<1>8. /\ chosen \in [i.persons -> Book(i)!Passwords \union {Book(i)!None}]
      /\ secrets \subseteq Nat \X Book(i)!Passwords /\ \A x \in secrets : \E u \in users : u.id = x[1]
      /\ \A u \in users, q \in i.persons, w \in Book(i)!Passwords :
            u.email = Mail(q) => (<<u.id, w>> \in secrets <=> chosen[q] = w)
      /\ \A q \in i.persons : (\A u \in users : u.email # Mail(q)) => chosen[q] = Book(i)!None
  BY DEF BookInv, PasswordsInv
<1>9. \A w : <<id, w>> \notin secrets
  <2>1. SUFFICES ASSUME NEW w, <<id, w>> \in secrets PROVE FALSE
    OBVIOUS
  <2>2. PICK u \in users : u.id = <<id, w>>[1]
    BY <1>8, <2>1
  <2> QED
    BY <1>4, <2>2
<1>10. chosen[p] = Book(i)!None /\ Book(i)!None \notin Book(i)!Passwords
  <2>1. Book(i)!None \notin Book(i)!Passwords
    BY DEF Book!None, Book!Passwords, Book!V
  <2> QED
    BY <1>8, <2>1
<1>11. \A q \in i.persons : Mail(q) = Mail(p) => q = p
  BY DEF Mail
<1>12. CASE UNCHANGED <<secrets, chosen>>
  <2>1. \A x \in secrets : \E u \in users' : u.id = x[1]
    BY <1>2, <1>8
  <2>2. ASSUME NEW u \in users', NEW q \in i.persons, NEW w \in Book(i)!Passwords, u.email = Mail(q)
        PROVE  <<u.id, w>> \in secrets <=> chosen[q] = w
    BY <1>2, <1>8, <1>9, <1>10, <1>11, <2>2
  <2>3. ASSUME NEW q \in i.persons, \A u \in users' : u.email # Mail(q)
        PROVE  chosen[q] = Book(i)!None
    BY <1>2, <1>8, <2>3
  <2> QED
    BY <1>7, <1>8, <1>12, <2>1, <2>2, <2>3 DEF PasswordsInv
<1>13. ASSUME NEW w \in Book(i)!Passwords, secrets' = secrets \union {<<id, w>>}, chosen' = [chosen EXCEPT ![p] = w]
       PROVE  PasswordsInv(i)'
  <2>1. chosen' \in [i.persons -> Book(i)!Passwords \union {Book(i)!None}] /\ secrets' \subseteq Nat \X Book(i)!Passwords
    BY <1>3, <1>8, <1>13
  <2>2. \A x \in secrets' : \E u \in users' : u.id = x[1]
    BY <1>2, <1>8, <1>13
  <2>3. ASSUME NEW u \in users', NEW q \in i.persons, NEW z \in Book(i)!Passwords, u.email = Mail(q)
        PROVE  <<u.id, z>> \in secrets' <=> chosen'[q] = z
    <3>1. CASE u = new
      <4>1. q = p /\ chosen'[q] = w
        BY <1>2, <1>8, <1>11, <1>13, <2>3, <3>1
      <4>2. <<u.id, z>> \in secrets' <=> z = w
        BY <1>2, <1>9, <1>13, <3>1
      <4> QED
        BY <4>1, <4>2
    <3>2. CASE u \in users
      <4>1. q # p /\ chosen'[q] = chosen[q]
        BY <1>8, <1>13, <2>3, <3>2
      <4>2. <<u.id, z>> \in secrets' <=> <<u.id, z>> \in secrets
        BY <1>4, <1>13, <3>2
      <4> QED
        BY <1>8, <2>3, <3>2, <4>1, <4>2
    <3> QED
      BY <1>2, <3>1, <3>2
  <2>4. ASSUME NEW q \in i.persons, \A u \in users' : u.email # Mail(q)
        PROVE  chosen'[q] = Book(i)!None
    <3>1. q # p /\ chosen'[q] = chosen[q]
      BY <1>2, <1>8, <1>13, <2>4
    <3> QED
      BY <1>2, <1>8, <2>4, <3>1
  <2> QED
    BY <2>1, <2>2, <2>3, <2>4 DEF PasswordsInv
<1> QED
  BY <1>7, <1>12, <1>13

\* Accounts counts as the rest of the project does.
LEMMA Counted ==
  ASSUME NEW i, NEW S
  PROVE  Book(i)!Cardinality(S) = Cardinality(S)
BY DEF Book!Cardinality, Book!IsFiniteSet, Cardinality, IsFiniteSet

LEMMA Addresses ==
  ASSUME NEW i, NEW v, MailAdmitted(i, v)
  PROVE  \E p \in i.persons : /\ Book(i)!Of(v) = p /\ Book(i)!NormalizeEmail(v) = Mail(p)
                              /\ ~Book(i)!EmailRefused(v)
<1>1. PICK p \in i.persons, l \in {"email", "EMAIL"} : v = <<l, p>>
  BY DEF MailAdmitted
<1>2. Book(i)!Lex(v) = l /\ Book(i)!Of(v) = p
  BY <1>1 DEF Book!Lex, Book!Of
<1>3. Book(i)!NormalizeEmail(v) = Mail(p)
  <2>1. CASE l = "email"
    BY <1>1, <1>2, <2>1 DEF Book!NormalizeEmail, Mail
  <2>2. CASE l = "EMAIL"
    BY <1>2, <2>2 DEF Book!NormalizeEmail, Book!V, Mail
  <2> QED
    BY <2>1, <2>2
<1> QED
  BY <1>2, <1>3 DEF Book!EmailRefused

\* CreateUser, Register and the seeder find an address free.
LEMMA FindKeeps ==
  ASSUME NEW i, Book(i)!AccountsAssumption, BookInv(i), NEW s \in i.slots,
         Book(i)!CreateUser(s) \/ Book(i)!Register(s) \/ Book(i)!Seed(s)
  PROVE  BookInv(i)'
<1>1. UNCHANGED <<users, secrets, chosen, invited, memberships, roles, keys, lost>>
  BY DEF Book!CreateUser, Book!Register, Book!Seed, Book!tenant, Book!histories
<1>2. ASSUME NEW op \in {"createUser", "register", "seed"}, NEW cmd, slot' = [slot EXCEPT ![s] = [op |-> op, cmd |-> cmd]],
             MailAdmitted(i, cmd.email), NameAdmitted(i, cmd.displayName),
             op = "register" => cmd.password \in Book(i)!Passwords
      PROVE  SlotsInv(i)'
  <2>1. slot'[s].op = op /\ slot'[s].cmd = cmd /\ DOMAIN slot' = i.slots
    BY <1>2 DEF BookInv, SlotsInv
  <2>2. \A t \in i.slots : t # s => slot'[t] = slot[t]
    BY <1>2 DEF BookInv, SlotsInv
  <2> QED
    BY <1>2, <2>1, <2>2 DEF BookInv, SlotsInv
<1>3. \A email \in Book(i)!Emails : Book(i)!Lex(email) \in {"email", "EMAIL"} => MailAdmitted(i, email)
  BY DEF Book!Emails, MailAdmitted, Book!Lex, Book!V
<1>4. CASE Book(i)!CreateUser(s)
  <2>1. PICK email \in Book(i)!Emails, name \in Book(i)!DisplayNames :
          LET body == [email |-> email, displayName |-> name]
              cmd == Book(i)!CreateUserMapper(Book(i)!Parsed(Book(i)!createUserInputSchema, body))
          IN /\ Book(i)!Valid(Book(i)!createUserInputSchema, body)
             /\ slot' = [slot EXCEPT ![s] = [op |-> "createUser", cmd |-> cmd]]
    BY <1>4 DEF Book!CreateUser
  <2> DEFINE body == [email |-> email, displayName |-> name]
             cmd == Book(i)!CreateUserMapper(Book(i)!Parsed(Book(i)!createUserInputSchema, body))
  <2>4. Book(i)!Lex(email) \in {"email", "EMAIL"} /\ cmd.email = email /\ NameAdmitted(i, cmd.displayName)
    BY <2>1, CreateBodies
  <2>5. slot' = [slot EXCEPT ![s] = [op |-> "createUser", cmd |-> cmd]]
    BY <2>1
  <2> HIDE DEF cmd
  <2>2. SlotsInv(i)'
    BY <1>2, <1>3, <2>4, <2>5
  <2>3. refused' = refused
    BY <1>4 DEF Book!CreateUser, Book!histories
  <2> QED
    BY <1>1, <2>2, <2>3, PartsRest DEF BookInv
<1>5. CASE Book(i)!Register(s)
  <2>1. PICK email \in Book(i)!Emails, name \in Book(i)!DisplayNames, password \in Book(i)!Passwords :
          LET body == [email |-> email, displayName |-> name, password |-> password]
              cmd == Book(i)!RegisterUserMapper(Book(i)!Parsed(Book(i)!registerUserInputSchema, body))
          IN /\ Book(i)!Valid(Book(i)!registerUserInputSchema, body)
             /\ refused' = refused \union Book(i)!PasswordErrors(cmd.password)
             /\ IF Book(i)!PasswordErrors(cmd.password) # {} THEN slot' = slot
                ELSE slot' = [slot EXCEPT ![s] = [op |-> "register", cmd |-> cmd]]
    BY <1>5 DEF Book!Register
  <2> DEFINE body == [email |-> email, displayName |-> name, password |-> password]
             cmd == Book(i)!RegisterUserMapper(Book(i)!Parsed(Book(i)!registerUserInputSchema, body))
  <2>2. /\ Book(i)!Lex(email) \in {"email", "EMAIL"} /\ cmd.email = email /\ NameAdmitted(i, cmd.displayName)
        /\ Book(i)!Lex(password) = "long" /\ cmd.password = password
    <3>1. Book(i)!Valid(Book(i)!registerUserInputSchema, body)
      BY <2>1
    <3> QED
      BY <3>1, RegisterBodies
  <2> HIDE DEF cmd
  <2>3. Book(i)!PasswordErrors(cmd.password) = {}
    BY <2>2 DEF Book!PasswordErrors
  <2>4. refused' = refused /\ slot' = [slot EXCEPT ![s] = [op |-> "register", cmd |-> cmd]]
    BY <2>1, <2>3 DEF cmd
  <2>5. SlotsInv(i)'
    BY <1>2, <1>3, <2>2, <2>4
  <2> QED
    BY <1>1, <2>4, <2>5, PartsRest DEF BookInv
<1>6. CASE Book(i)!Seed(s)
  <2>1. PICK cmd : /\ cmd = [email |-> Book(i)!V("email", "dev"), displayName |-> Book(i)!V("word", "Dev")]
                   /\ slot' = [slot EXCEPT ![s] = [op |-> "seed", cmd |-> cmd]] /\ refused' = refused
    BY <1>6 DEF Book!Seed, Book!histories
  <2>2. MailAdmitted(i, cmd.email) /\ NameAdmitted(i, cmd.displayName)
    BY <2>1 DEF Book!AccountsAssumption, MailAdmitted, NameAdmitted, Book!V, Book!Lex, Book!Strings
  <2>3. SlotsInv(i)'
    BY <1>2, <2>1, <2>2
  <2> QED
    BY <1>1, <2>1, <2>3, PartsRest DEF BookInv
<1> QED
  BY <1>4, <1>5, <1>6

\* Save stores what was found free, unless it meets the unique key.
LEMMA SaveKeeps ==
  ASSUME NEW i, Book(i)!AccountsAssumption, BookInv(i), NEW s \in i.slots, Book(i)!Save(s)
  PROVE  BookInv(i)'
<1>1. PICK cmd, op : cmd = slot[s].cmd /\ op = slot[s].op
  OBVIOUS
<1>2. /\ op \in {"createUser", "register", "seed"}
      /\ MailAdmitted(i, cmd.email) /\ NameAdmitted(i, cmd.displayName)
      /\ op = "register" => cmd.password \in Book(i)!Passwords
  <2>1. slot[s] # Book(i)!Free
    BY DEF Book!Save
  <2> QED
    BY <1>1, <2>1 DEF BookInv, SlotsInv
<1>3. PICK p \in i.persons : /\ Book(i)!Of(cmd.email) = p /\ Book(i)!NormalizeEmail(cmd.email) = Mail(p)
                             /\ ~Book(i)!EmailRefused(cmd.email)
  BY <1>2, Addresses
<1>4. Book(i)!UserErrors(cmd) = {}
  BY <1>2, <1>3 DEF Book!UserErrors, Book!Blank, NameAdmitted
<1>5. PICK new : new = Book(i)!NewUser(cmd)
  OBVIOUS
<1>6. new = [id |-> Cardinality(users) + 1, email |-> Mail(p), name |-> Book(i)!Trim(cmd.displayName)]
  BY <1>3, <1>5, Counted DEF Book!NewUser
<1>7. /\ Cardinality(users) < i.users /\ slot' = [slot EXCEPT ![s] = Book(i)!Free]
      /\ UNCHANGED <<invited, memberships, roles, keys>>
      /\ IF \E u \in users : u.email = new.email
         THEN UNCHANGED <<users, secrets, chosen, lost, refused>>
         ELSE /\ users' = users \union {new}
              /\ IF op = "register"
                 THEN /\ secrets' = secrets \union {<<new.id, cmd.password>>}
                      /\ Book(i)!Chooses(Book(i)!Of(cmd.email), cmd.password)
                 ELSE UNCHANGED <<secrets, chosen>>
              /\ Book(i)!Serialize("createUser",
                   Book(i)!Valid(Book(i)!createUserOutputSchema, Book(i)!UserIdOutput(new.id)))
              /\ UNCHANGED refused
  BY <1>1, <1>4, <1>5, Counted DEF Book!Save, Book!tenant
<1>8. SlotsInv(i)'
  <2>1. DOMAIN slot' = i.slots /\ slot'[s] = Book(i)!Free /\ \A t \in i.slots : t # s => slot'[t] = slot[t]
    BY <1>7 DEF BookInv, SlotsInv
  <2> QED
    BY <2>1 DEF BookInv, SlotsInv
<1>9. CASE \E u \in users : u.email = new.email
  BY <1>7, <1>8, <1>9, PartsRest DEF BookInv
<1>10. CASE ~\E u \in users : u.email = new.email
  <2>1. new.id = Cardinality(users) + 1 /\ new.email = Mail(p)
    BY <1>6
  <2>2. Book(i)!Lex(Book(i)!Trim(cmd.displayName)) \in Book(i)!Strings
    BY <1>2, Admission DEF NameAdmitted
  <2>3. UsersInv(i)' /\ PasswordsInv(i)'
    <3>1. \/ UNCHANGED <<secrets, chosen>>
          \/ \E w \in Book(i)!Passwords :
               /\ secrets' = secrets \union {<<Cardinality(users) + 1, w>>}
               /\ chosen' = [chosen EXCEPT ![p] = w]
      BY <1>2, <1>3, <1>7, <1>10, <2>1 DEF Book!Chooses
    <3>2. /\ \A u \in users : u.email # Mail(p)
          /\ users' = users \union {[id |-> Cardinality(users) + 1, email |-> Mail(p),
                                     name |-> Book(i)!Trim(cmd.displayName)]}
      BY <1>6, <1>7, <1>10, <2>1
    <3> QED
      BY <1>7, <2>2, <3>1, <3>2, NewAccount
  <2>4. TenancyInv(i)'
    BY <1>7, <1>10 DEF BookInv, TenancyInv
  <2>5. CleanInv'
    BY <1>7, <1>10, SmallAnswers DEF BookInv, CleanInv, Book!Serialize
  <2> QED
    BY <1>7, <1>8, <2>3, <2>4, <2>5, PartsRest DEF BookInv
<1> QED
  BY <1>9, <1>10

\* SetOrChangePassword replaces the one password of the account.
LEMMA SetPasswordKeeps ==
  ASSUME NEW i, Book(i)!AccountsAssumption, BookInv(i), NEW u \in users, Book(i)!SetPassword(u)
  PROVE  BookInv(i)'
<1>1. UNCHANGED <<users, invited, slot, memberships, roles, keys, lost>>
  BY DEF Book!SetPassword, Book!tenant
<1> DEFINE Body(password, current) ==
             [f \in {"password"} \union {g \in {"currentPassword"} : current # Book(i)!None} |->
                IF f = "password" THEN password ELSE current]
<1>2. PICK password \in Book(i)!Passwords, current \in Book(i)!Passwords \union {Book(i)!None} :
         /\ Book(i)!Valid(Book(i)!setOrChangePasswordInputSchema, Body(password, current))
         /\ refused' = refused \union Book(i)!PasswordErrors(password)
         /\ IF Book(i)!PasswordErrors(password) # {} THEN UNCHANGED <<secrets, chosen>>
            ELSE /\ secrets' = (secrets \ {x \in secrets : x[1] = u.id}) \union {<<u.id, password>>}
                 /\ Book(i)!Chooses(Book(i)!Of(u.email), password)
  BY DEF Book!SetPassword
<1>3. Book(i)!Lex(password) = "long"
  <2>1. "password" \in DOMAIN Body(password, current) /\ Body(password, current).password = password
    OBVIOUS
  <2> HIDE DEF Body
  <2>2. Book(i)!Admits(Book(i)!One("secret8"), password)
    BY <1>2, <2>1 DEF Book!Valid, Book!setOrChangePasswordInputSchema
  <2> QED
    BY <2>2, Admission
<1>4. Book(i)!PasswordErrors(password) = {}
  BY <1>3 DEF Book!PasswordErrors
<1>5. PICK p \in i.persons : u.email = Mail(p)
  BY DEF BookInv, UsersInv
<1>6. /\ refused' = refused /\ chosen' = [chosen EXCEPT ![p] = password]
      /\ secrets' = (secrets \ {x \in secrets : x[1] = u.id}) \union {<<u.id, password>>}
  <2>1. Book(i)!Of(u.email) = p
    BY <1>5 DEF Mail, Book!Of
  <2> QED
    BY <1>2, <1>4, <2>1 DEF Book!Chooses
<1>7. PasswordsInv(i)'
  <2>1. /\ chosen \in [i.persons -> Book(i)!Passwords \union {Book(i)!None}]
        /\ secrets \subseteq Nat \X Book(i)!Passwords
        /\ \A x \in secrets : \E v \in users : v.id = x[1]
        /\ \A v \in users, q \in i.persons, w \in Book(i)!Passwords :
              v.email = Mail(q) => (<<v.id, w>> \in secrets <=> chosen[q] = w)
        /\ \A q \in i.persons : (\A v \in users : v.email # Mail(q)) => chosen[q] = Book(i)!None
    BY DEF BookInv, PasswordsInv
  <2>2. \A v \in users : v.id \in Nat /\ (v.id = u.id \/ v.email = u.email => v = u)
    BY FS_CardinalityType DEF BookInv, UsersInv
  <2>3. \A q \in i.persons : Mail(q) = Mail(p) => q = p
    BY DEF Mail
  <2>4. chosen' \in [i.persons -> Book(i)!Passwords \union {Book(i)!None}] /\ secrets' \subseteq Nat \X Book(i)!Passwords
    BY <1>6, <2>1, <2>2
  <2>5. \A x \in secrets' : \E v \in users : v.id = x[1]
    BY <1>6, <2>1
  <2>6. ASSUME NEW v \in users, NEW q \in i.persons, NEW w \in Book(i)!Passwords, v.email = Mail(q)
        PROVE  <<v.id, w>> \in secrets' <=> chosen'[q] = w
    <3>1. CASE v = u
      <4>1. chosen'[q] = password
        BY <1>5, <1>6, <2>1, <2>3, <2>6, <3>1
      <4>2. <<v.id, w>> \in secrets' <=> w = password
        BY <1>6, <3>1
      <4> QED
        BY <4>1, <4>2
    <3>2. CASE v # u
      <4>1. q # p /\ v.id # u.id
        BY <1>5, <2>2, <2>6, <3>2
      <4>2. chosen'[q] = chosen[q]
        BY <1>6, <2>1, <4>1
      <4>3. <<v.id, w>> \in secrets' <=> <<v.id, w>> \in secrets
        BY <1>6, <4>1
      <4> QED
        BY <2>1, <2>6, <4>2, <4>3
    <3> QED
      BY <3>1, <3>2
  <2>7. ASSUME NEW q \in i.persons, \A v \in users : v.email # Mail(q)
        PROVE  chosen'[q] = Book(i)!None
    <3>1. q # p /\ chosen'[q] = chosen[q]
      BY <1>5, <1>6, <2>1, <2>7
    <3> QED
      BY <2>1, <2>7, <3>1
  <2> QED
    BY <1>1, <2>4, <2>5, <2>6, <2>7 DEF PasswordsInv
<1> QED
  BY <1>1, <1>6, <1>7, PartsRest DEF BookInv

\* What an invitee sends: a new one is who was invited, with name and password.
AcceptBody(i, name, password) ==
    [f \in {"token"} \union {g \in {"displayName"} : name # Book(i)!None}
                    \union {g \in {"password"} : password # Book(i)!None} |->
       CASE f = "token" -> Book(i)!V("word", "t")
         [] f = "displayName" -> name
         [] OTHER -> password]

LEMMA AcceptBodies ==
  ASSUME NEW i, NEW name, NEW password,
         Book(i)!Valid(Book(i)!acceptInvitationInputSchema, AcceptBody(i, name, password)),
         NEW cmd, cmd = Book(i)!AcceptInvitationMapper(
                          Book(i)!Parsed(Book(i)!acceptInvitationInputSchema, AcceptBody(i, name, password))),
         {"displayName", "password"} \subseteq DOMAIN cmd
  PROVE  NameAdmitted(i, cmd.displayName) /\ cmd.password = password /\ password # Book(i)!None
<1>0. PICK body : body = AcceptBody(i, name, password)
  OBVIOUS
<1>1. PICK in : in = Book(i)!Parsed(Book(i)!acceptInvitationInputSchema, body)
  OBVIOUS
<1>2. cmd = Book(i)!AcceptInvitationMapper(in)
  BY <1>0, <1>1
<1>4. /\ {"displayName", "password"} \subseteq DOMAIN in
      /\ cmd.displayName = in.displayName /\ cmd.password = in.password
  BY <1>2 DEF Book!AcceptInvitationMapper
<1>5. /\ Book(i)!acceptInvitationInputSchema.displayName = Book(i)!Opt("name")
      /\ Book(i)!acceptInvitationInputSchema.password = Book(i)!Opt("secret8")
      /\ {"displayName", "password"} \subseteq DOMAIN Book(i)!acceptInvitationInputSchema
  BY DEF Book!acceptInvitationInputSchema
<1>6. \A t : ~Book(i)!Opt(t).list /\ Book(i)!Opt(t).type = t
  BY Fields
<1>7. /\ {"displayName", "password"} \subseteq DOMAIN body
      /\ in.displayName = Book(i)!Trimmed("name", body.displayName)
      /\ in.password = Book(i)!Trimmed("secret8", body.password)
  BY <1>1, <1>4, <1>5, <1>6 DEF Book!Parsed
<1>8. body.displayName = name /\ body.password = password /\ password # Book(i)!None
  BY <1>0, <1>7 DEF AcceptBody
<1>9. Book(i)!Admits(Book(i)!Opt("name"), name)
  BY <1>0, <1>5, <1>7, <1>8 DEF Book!Valid
<1> QED
  BY <1>4, <1>7, <1>8, <1>9, Admission

LEMMA AcceptKeeps ==
  ASSUME NEW i, Book(i)!AccountsAssumption, BookInv(i), Book(i)!Accept
  PROVE  BookInv(i)'
<1>0. PICK email \in invited, name \in Book(i)!DisplayNames \union {Book(i)!None},
           password \in Book(i)!Passwords \union {Book(i)!None} :
         LET body == AcceptBody(i, name, password)
             cmd == Book(i)!AcceptInvitationMapper(Book(i)!Parsed(Book(i)!acceptInvitationInputSchema, body))
             held == Book(i)!FindByEmail(email)
         IN /\ Book(i)!Valid(Book(i)!acceptInvitationInputSchema, body)
            /\ IF held = {}
               THEN /\ Book(i)!Cardinality(users) < i.users
                    /\ {"displayName", "password"} \subseteq DOMAIN cmd
                    /\ LET new == Book(i)!NewUser([email |-> email, displayName |-> cmd.displayName])
                       IN /\ users' = users \union {new}
                          /\ secrets' = secrets \union {<<new.id, cmd.password>>}
                          /\ memberships' = memberships \union {<<new.id, {1}>>}
                    /\ Book(i)!Chooses(Book(i)!Of(email), password)
               ELSE \E u \in held :
                       /\ \A m \in memberships : m[1] # u.id
                       /\ memberships' = memberships \union {<<u.id, {1}>>}
                       /\ UNCHANGED <<users, secrets, chosen>>
            /\ invited' = invited \ {email}
  BY Zenon DEF Book!Accept, AcceptBody
<1>1. PICK cmd : cmd = Book(i)!AcceptInvitationMapper(
                         Book(i)!Parsed(Book(i)!acceptInvitationInputSchema, AcceptBody(i, name, password)))
  OBVIOUS
<1>11. {"displayName", "password"} \subseteq DOMAIN cmd =>
          /\ NameAdmitted(i, cmd.displayName) /\ cmd.password = password
          /\ password # Book(i)!None
  BY <1>0, <1>1, AcceptBodies
<1>2. UNCHANGED <<slot, roles, keys, refused>>
  BY DEF Book!Accept
<1>3. CleanInv'
  BY <1>2, SmallAnswers DEF BookInv, CleanInv, Book!Accept, Book!Serialize
<1>4. PICK p \in i.persons : email = Mail(p)
  BY DEF BookInv, TenancyInv
<1>5. Book(i)!NormalizeEmail(email) = Mail(p) /\ Book(i)!Of(email) = p
  BY <1>4 DEF Mail, Book!NormalizeEmail, Book!Lex, Book!Of
<1>6. /\ invited' \subseteq {Mail(q) : q \in i.persons}
      /\ \A m \in memberships : (\E u \in users : u.id = m[1]) /\ m[2] \in {{1}, {2}}
      /\ {1, 2} \subseteq {r.id : r \in roles'}
  BY <1>0, <1>2 DEF BookInv, TenancyInv
<1>7. CASE Book(i)!FindByEmail(email) = {}
  <2>1. /\ NameAdmitted(i, cmd.displayName) /\ cmd.password = password
        /\ password \in Book(i)!Passwords
    BY <1>0, <1>1, <1>7, <1>11
  <2>2. PICK new : new = Book(i)!NewUser([email |-> email, displayName |-> cmd.displayName])
    OBVIOUS
  <2>3. /\ new = [id |-> Cardinality(users) + 1, email |-> Mail(p), name |-> Book(i)!Trim(cmd.displayName)]
        /\ new.id = Cardinality(users) + 1
    BY <1>5, <2>2, Counted DEF Book!NewUser
  <2>4. /\ Cardinality(users) < i.users /\ users' = users \union {new}
        /\ secrets' = secrets \union {<<new.id, password>>} /\ memberships' = memberships \union {<<new.id, {1}>>}
        /\ chosen' = [chosen EXCEPT ![p] = password]
    BY <1>0, <1>1, <1>5, <1>7, <2>1, <2>2, Counted DEF Book!Chooses
  <2>5. \A u \in users : u.email # Mail(p)
    BY <1>5, <1>7 DEF Book!FindByEmail
  <2>6. Book(i)!Lex(Book(i)!Trim(cmd.displayName)) \in Book(i)!Strings
    BY <2>1, Admission DEF NameAdmitted
  <2>7. UsersInv(i)' /\ PasswordsInv(i)'
    BY <2>1, <2>3, <2>4, <2>5, <2>6, NewAccount
  <2>8. TenancyInv(i)'
    <3>1. \A m \in memberships' : (\E u \in users' : u.id = m[1]) /\ m[2] \in {{1}, {2}}
      BY <1>6, <2>4
    <3>2. memberships' # {}
      BY <2>4
    <3> QED
      BY <1>6, <3>1, <3>2 DEF TenancyInv
  <2> QED
    BY <1>2, <1>3, <2>7, <2>8, PartsRest DEF BookInv
<1>8. CASE Book(i)!FindByEmail(email) # {}
  <2>1. PICK u \in users : memberships' = memberships \union {<<u.id, {1}>>} /\ UNCHANGED <<users, secrets, chosen>>
    BY <1>0, <1>8 DEF Book!FindByEmail
  <2>2. TenancyInv(i)'
    <3>1. \A m \in memberships' : (\E v \in users' : v.id = m[1]) /\ m[2] \in {{1}, {2}}
      BY <1>6, <2>1
    <3>2. memberships' # {}
      BY <2>1
    <3> QED
      BY <1>6, <3>1, <3>2 DEF TenancyInv
  <2> QED
    BY <1>2, <1>3, <2>1, <2>2, PartsRest DEF BookInv
<1> QED
  BY <1>7, <1>8

\* A tenant and its members.
LEMMA MembersKeep ==
  ASSUME NEW i, Book(i)!AccountsAssumption, BookInv(i),
         \/ Book(i)!Invite
         \/ \E u \in users : Book(i)!Me(u) \/ Book(i)!CreateTenant(u) \/ Book(i)!AttachMember(u)
         \/ \E pii \in BOOLEAN : Book(i)!ListMembers(pii)
  PROVE  BookInv(i)'
<1>1. CASE Book(i)!Invite
  <2>1. /\ UNCHANGED <<users, secrets, slot, memberships, roles, keys, chosen, refused, lost>> /\ memberships # {}
    BY <1>1 DEF Book!Invite, Book!tenant, Book!histories
  <2>2. PICK email \in Book(i)!Emails :
          /\ Book(i)!Valid(Book(i)!inviteMemberInputSchema, [email |-> email, roleIds |-> <<Book(i)!IdValue(1)>>])
          /\ invited' = invited \union {Book(i)!NormalizeEmail(email)}
    BY <1>1 DEF Book!Invite
  <2>3. Book(i)!Lex(email) \in {"email", "EMAIL"}
    BY <2>2, OtherBodies
  <2>4. MailAdmitted(i, email)
    BY <2>3 DEF Book!Emails, MailAdmitted, Book!Lex, Book!V
  <2>5. \E p \in i.persons : Book(i)!NormalizeEmail(email) = Mail(p)
    BY <2>4, Addresses
  <2>6. TenancyInv(i)'
    BY <2>1, <2>2, <2>5 DEF BookInv, TenancyInv
  <2> QED
    BY <2>1, <2>6, PartsRest DEF BookInv
<1>2. ASSUME NEW u \in users, Book(i)!Me(u) PROVE BookInv(i)'
  <2>1. UNCHANGED <<users, secrets, invited, slot, memberships, roles, keys, chosen, refused>>
    BY <1>2 DEF Book!Me, Book!tenant
  <2>2. lost' = lost
    BY <1>2, MeAnswers DEF Book!Me, Book!Serialize
  <2> QED
    BY <2>1, <2>2, PartsRest DEF BookInv
<1>3. ASSUME NEW u \in users, Book(i)!CreateTenant(u) PROVE BookInv(i)'
  <2>1. /\ UNCHANGED <<users, secrets, invited, slot, keys, chosen, refused>> /\ memberships = {}
        /\ roles' = Book(i)!SeededRoles /\ memberships' = {<<u.id, {2}>>}
    BY <1>3 DEF Book!CreateTenant
  <2>2. lost' = lost
    BY <1>3, SmallAnswers DEF Book!CreateTenant, Book!Serialize
  <2>3. PICK member, owner : /\ roles' = {member, owner}
          /\ member = [id |-> 1, name |-> Book(i)!V("word", "Member"), system |-> TRUE,
                       permissions |-> {"tenancy.tenant.read"}]
          /\ owner = [id |-> 2, name |-> Book(i)!V("word", "Owner"), system |-> TRUE,
                      permissions |-> Book(i)!PermissionCatalog]
    BY <2>1 DEF Book!SeededRoles, Book!Bundles
  <2>4. /\ member.id = 1 /\ member.name = Book(i)!V("word", "Member") /\ member.permissions = {"tenancy.tenant.read"}
        /\ owner.id = 2 /\ owner.name = Book(i)!V("word", "Owner") /\ owner.permissions = Book(i)!PermissionName
        /\ DOMAIN member = {"id", "name", "system", "permissions"} /\ DOMAIN owner = DOMAIN member
    BY <2>3 DEF Book!PermissionCatalog, Book!DomainCatalog
  <2>5. /\ RowOf(i, member, {"id", "name", "system", "permissions"})
        /\ RowOf(i, owner, {"id", "name", "system", "permissions"})
    <3>1. NameAdmitted(i, member.name) /\ NameAdmitted(i, owner.name)
      <4>1. \A v : Book(i)!Lex(Book(i)!V("word", v)) = "word"
        BY Values
      <4> QED
        BY <2>4, <4>1 DEF NameAdmitted, Book!Strings
    <3>2. "tenancy.tenant.read" \in Book(i)!PermissionName
      BY DEF Book!PermissionName
    <3> QED
      BY <2>4, <3>1, <3>2 DEF RowOf
  <2>6. RowsInv(i)'
    BY <2>1, <2>3, <2>5 DEF BookInv, RowsInv
  <2>7. TenancyInv(i)'
    <3>1. {1, 2} \subseteq {r.id : r \in roles'}
      BY <2>3, <2>4
    <3>2. \A m \in memberships' : (\E v \in users' : v.id = m[1]) /\ m[2] \in {{1}, {2}}
      BY <2>1
    <3>3. memberships' # {} /\ invited' \subseteq {Mail(p) : p \in i.persons}
      BY <2>1 DEF BookInv, TenancyInv
    <3> QED
      BY <3>1, <3>2, <3>3 DEF TenancyInv
  <2> QED
    BY <2>1, <2>2, <2>6, <2>7, PartsRest DEF BookInv
<1>4. ASSUME NEW u \in users, Book(i)!AttachMember(u) PROVE BookInv(i)'
  <2>1. UNCHANGED <<users, secrets, invited, slot, roles, keys, chosen, refused>> /\ memberships # {}
    BY <1>4 DEF Book!AttachMember
  <2>2. lost' = lost
    BY <1>4, SmallAnswers DEF Book!AttachMember, Book!Serialize
  <2>3. PICK ids \in {<<Book(i)!IdValue(1)>>, <<Book(i)!IdValue(1), Book(i)!IdValue(1)>>, <<>>} :
          /\ Book(i)!Valid(Book(i)!attachMemberInputSchema, [userId |-> Book(i)!IdValue(u.id), roleIds |-> ids])
          /\ memberships' = memberships \union {<<u.id, Book(i)!PermissionsOf(ids)>>}
    BY <1>4 DEF Book!AttachMember
  <2>4. ids # <<>>
    BY <2>3, OtherBodies
  <2>5. DOMAIN ids # {} /\ \A j \in DOMAIN ids : ids[j] = Book(i)!IdValue(1)
    BY <2>3, <2>4
  <2>6. Book(i)!PermissionsOf(ids) = {1}
    BY <2>5, Values DEF Book!PermissionsOf, Book!IdValue
  <2>7. TenancyInv(i)'
    BY <2>1, <2>3, <2>6 DEF BookInv, TenancyInv
  <2> QED
    BY <2>1, <2>2, <2>7, PartsRest DEF BookInv
<1>5. ASSUME NEW pii \in BOOLEAN, Book(i)!ListMembers(pii) PROVE BookInv(i)'
  <2>1. UNCHANGED <<users, secrets, invited, slot, memberships, roles, keys, chosen, refused>>
    BY <1>5 DEF Book!ListMembers, Book!tenant
  <2>2. lost' = lost
    BY <1>5, MemberAnswers DEF Book!ListMembers, Book!Serialize, Book!tenantMembersOutputSchema
  <2> QED
    BY <2>1, <2>2, PartsRest DEF BookInv
<1> QED
  BY <1>1, <1>2, <1>3, <1>4, <1>5

LEMMA NoErrors ==
  ASSUME NEW i, NEW name, NEW ps, NameAdmitted(i, name), PermissionsAdmitted(i, ps)
  PROVE  Book(i)!RoleErrors(name, ps) = {} /\ Book(i)!KeyErrors(name, ps) = {}
BY DEF NameAdmitted, PermissionsAdmitted, Book!RoleErrors, Book!KeyErrors, Book!Blank,
       Book!PermissionCatalog, Book!DomainCatalog

\* The custom roles of a tenant.
LEMMA RolesKeep ==
  ASSUME NEW i, BookInv(i),
         Book(i)!CreateRole \/ Book(i)!ListRoles \/ \E r \in roles : Book(i)!UpdateRole(r)
  PROVE  BookInv(i)'
<1> DEFINE fields == {"id", "name", "system", "permissions"}
<1>1. \A r \in roles : RowOf(i, r, fields)
  BY DEF BookInv, RowsInv
<1>2. UNCHANGED <<users, secrets, invited, slot, memberships, keys, chosen>>
  BY DEF Book!CreateRole, Book!ListRoles, Book!UpdateRole, Book!tenant
<1>3. ASSUME NEW name, NEW ps, NameAdmitted(i, name), PermissionsAdmitted(i, ps), NEW new,
             DOMAIN new = fields, new.name = name, new.permissions = ps,
             NEW old \in SUBSET roles, \A r \in old : r.id = new.id,
             refused' = refused \union Book(i)!RoleErrors(name, ps), NEW op,
             IF Book(i)!RoleErrors(name, ps) # {} THEN UNCHANGED <<roles, lost>>
             ELSE /\ roles' = (roles \ old) \union {new}
                  /\ Book(i)!Serialize(op, Book(i)!Valid(Book(i)!roleOutputSchema, Book(i)!RolesMapper(new))),
             roles # {}
      PROVE  BookInv(i)'
  <2>1. refused' = refused /\ roles' = (roles \ old) \union {new}
    BY <1>3, NoErrors
  <2>2. lost' = lost
    <3>1. Book(i)!Valid(Book(i)!roleOutputSchema, Book(i)!RolesMapper(new))
      BY <1>3, RoleAnswers DEF PermissionsAdmitted
    <3> QED
      BY <1>3, <3>1, NoErrors DEF Book!Serialize
  <2>3. RowsInv(i)'
    <3>1. RowOf(i, new, fields)
      BY <1>3 DEF RowOf, PermissionsAdmitted
    <3> QED
      BY <1>1, <1>2, <2>1, <3>1 DEF BookInv, RowsInv
  <2>4. TenancyInv(i)'
    <3>1. {r.id : r \in roles} \subseteq {r.id : r \in roles'}
      BY <1>3, <2>1
    <3>2. memberships # {}
      BY <1>3 DEF BookInv, TenancyInv
    <3> QED
      BY <1>2, <3>1, <3>2 DEF BookInv, TenancyInv
  <2> QED
    BY <1>2, <2>1, <2>2, <2>3, <2>4, PartsRest DEF BookInv
<1>4. CASE Book(i)!CreateRole
  <2>1. PICK body \in Book(i)!RoleBodies(Book(i)!createRoleInputSchema) :
          LET in == Book(i)!Parsed(Book(i)!createRoleInputSchema, body)
              name == Book(i)!Trim(in.name)
              ps == Book(i)!PermissionsOf(in.permissions)
              new == [id |-> Book(i)!Cardinality(roles) + 1, name |-> name, system |-> FALSE, permissions |-> ps]
          IN /\ refused' = refused \union Book(i)!RoleErrors(name, ps)
             /\ IF Book(i)!RoleErrors(name, ps) # {} THEN UNCHANGED <<roles, lost>>
                ELSE /\ roles' = roles \union {new}
                     /\ Book(i)!Serialize("createRole", Book(i)!Valid(Book(i)!roleOutputSchema, Book(i)!RolesMapper(new)))
    BY <1>4 DEF Book!CreateRole
  <2>2. PICK name, ps : /\ name = Book(i)!Trim(Book(i)!Parsed(Book(i)!createRoleInputSchema, body).name)
                        /\ ps = Book(i)!PermissionsOf(Book(i)!Parsed(Book(i)!createRoleInputSchema, body).permissions)
    OBVIOUS
  <2>3. NameAdmitted(i, name) /\ PermissionsAdmitted(i, ps)
    BY <2>2, RowBodies
  <2>4. PICK new : new = [id |-> Book(i)!Cardinality(roles) + 1, name |-> name, system |-> FALSE, permissions |-> ps]
    OBVIOUS
  <2>5. DOMAIN new = fields /\ new.name = name /\ new.permissions = ps
    BY <2>4
  <2>6. /\ refused' = refused \union Book(i)!RoleErrors(name, ps)
        /\ IF Book(i)!RoleErrors(name, ps) # {} THEN UNCHANGED <<roles, lost>>
           ELSE /\ roles' = (roles \ {}) \union {new}
                /\ Book(i)!Serialize("createRole", Book(i)!Valid(Book(i)!roleOutputSchema, Book(i)!RolesMapper(new)))
    BY <2>1, <2>2, <2>4
  <2>7. roles # {}
    BY <1>4 DEF Book!CreateRole
  <2> HIDE DEF fields
  <2> QED
    BY <1>3, <2>3, <2>5, <2>6, <2>7
<1>5. ASSUME NEW r \in roles, Book(i)!UpdateRole(r) PROVE BookInv(i)'
  <2>1. PICK body \in Book(i)!UpdateBodies(Book(i)!updateRoleInputSchema) :
          LET in == Book(i)!Parsed(Book(i)!updateRoleInputSchema, body)
              name == IF "name" \in DOMAIN in THEN Book(i)!Trim(in.name) ELSE r.name
              ps == IF "permissions" \in DOMAIN in THEN Book(i)!PermissionsOf(in.permissions) ELSE r.permissions
              new == [r EXCEPT !.name = name, !.permissions = ps]
          IN /\ refused' = refused \union Book(i)!RoleErrors(name, ps)
             /\ IF Book(i)!RoleErrors(name, ps) # {} THEN UNCHANGED <<roles, lost>>
                ELSE /\ roles' = (roles \ {r}) \union {new}
                     /\ Book(i)!Serialize("updateRole", Book(i)!Valid(Book(i)!roleOutputSchema, Book(i)!RolesMapper(new)))
    BY <1>5 DEF Book!UpdateRole
  <2>2. PICK in : in = Book(i)!Parsed(Book(i)!updateRoleInputSchema, body)
    OBVIOUS
  <2>3. PICK name, ps :
          /\ name = IF "name" \in DOMAIN in THEN Book(i)!Trim(in.name) ELSE r.name
          /\ ps = IF "permissions" \in DOMAIN in THEN Book(i)!PermissionsOf(in.permissions) ELSE r.permissions
    OBVIOUS
  <2>4. NameAdmitted(i, name) /\ PermissionsAdmitted(i, ps)
    BY <1>1, <2>2, <2>3, UpdatedBodies DEF RowOf, PermissionsAdmitted
  <2>5. PICK new : new = [r EXCEPT !.name = name, !.permissions = ps]
    OBVIOUS
  <2>6. DOMAIN new = fields /\ new.name = name /\ new.permissions = ps /\ new.id = r.id
    BY <1>1, <2>5 DEF RowOf
  <2>7. /\ refused' = refused \union Book(i)!RoleErrors(name, ps)
        /\ IF Book(i)!RoleErrors(name, ps) # {} THEN UNCHANGED <<roles, lost>>
           ELSE /\ roles' = (roles \ {r}) \union {new}
                /\ Book(i)!Serialize("updateRole", Book(i)!Valid(Book(i)!roleOutputSchema, Book(i)!RolesMapper(new)))
    BY <2>1, <2>2, <2>3, <2>5
  <2> HIDE DEF fields
  <2> QED
    BY <1>3, <2>4, <2>6, <2>7
<1>6. CASE Book(i)!ListRoles
  <2>1. UNCHANGED <<roles, refused>>
    BY <1>6 DEF Book!ListRoles, Book!tenant
  <2>2. lost' = lost
    BY <1>1, <1>6, RoleAnswers DEF Book!ListRoles, Book!Serialize, Book!tenantRolesOutputSchema, RowOf
  <2> QED
    BY <1>2, <2>1, <2>2, PartsRest DEF BookInv
<1> QED
  BY <1>4, <1>5, <1>6

\* The API keys of a tenant.
LEMMA KeysKeep ==
  ASSUME NEW i, BookInv(i),
         \/ Book(i)!CreateKey \/ Book(i)!ListKeys
         \/ \E k \in keys : Book(i)!UpdateKey(k) \/ \E f \in {"lastUsedAt", "revokedAt"} : Book(i)!DateKey(k, f)
  PROVE  BookInv(i)'
<1> DEFINE fields == {"id", "name", "permissions", "dates"}
           dates == {"expiresAt", "revokedAt", "lastUsedAt"}
<1>1. \A k \in keys : RowOf(i, k, fields) /\ k.dates \subseteq dates
  BY DEF BookInv, RowsInv
<1>2. UNCHANGED <<users, secrets, invited, slot, memberships, roles, chosen>>
  BY DEF Book!CreateKey, Book!ListKeys, Book!UpdateKey, Book!DateKey, Book!tenant, Book!histories
<1>3. ASSUME NEW new, DOMAIN new = fields, NameAdmitted(i, new.name), PermissionsAdmitted(i, new.permissions),
             new.dates \subseteq dates, NEW old, keys' = (keys \ old) \union {new}
      PROVE  RowsInv(i)'
  <2>1. RowOf(i, new, fields)
    BY <1>3 DEF RowOf, PermissionsAdmitted
  <2>2. \A k \in keys' : RowOf(i, k, fields) /\ k.dates \subseteq dates
    BY <1>1, <1>3, <2>1
  <2> QED
    BY <1>2, <2>2 DEF BookInv, RowsInv
<1>4. CASE Book(i)!CreateKey
  <2>1. PICK body \in Book(i)!RoleBodies(Book(i)!createApiKeyInputSchema), given \in {{}, {"expiresAt"}} :
          LET in == Book(i)!Parsed(Book(i)!createApiKeyInputSchema, body)
              name == Book(i)!Trim(in.name)
              ps == Book(i)!PermissionsOf(in.permissions)
          IN /\ refused' = refused \union Book(i)!KeyErrors(name, ps)
             /\ keys' = IF Book(i)!KeyErrors(name, ps) # {} THEN keys
                        ELSE keys \union {[id |-> Book(i)!Cardinality(keys) + 1, name |-> name,
                                           permissions |-> ps, dates |-> given]}
    BY <1>4 DEF Book!CreateKey
  <2>2. PICK name, ps : /\ name = Book(i)!Trim(Book(i)!Parsed(Book(i)!createApiKeyInputSchema, body).name)
                        /\ ps = Book(i)!PermissionsOf(Book(i)!Parsed(Book(i)!createApiKeyInputSchema, body).permissions)
    OBVIOUS
  <2>3. NameAdmitted(i, name) /\ PermissionsAdmitted(i, ps)
    BY <2>2, RowBodies
  <2>4. PICK new : new = [id |-> Book(i)!Cardinality(keys) + 1, name |-> name, permissions |-> ps, dates |-> given]
    OBVIOUS
  <2>5. DOMAIN new = fields /\ new.name = name /\ new.permissions = ps /\ new.dates \subseteq dates
    BY <2>4
  <2>6. refused' = refused /\ keys' = (keys \ {}) \union {new}
    BY <2>1, <2>2, <2>3, <2>4, NoErrors
  <2>7. lost' = lost
    BY <1>4, SmallAnswers DEF Book!CreateKey, Book!Serialize
  <2> HIDE DEF fields, dates
  <2> QED
    BY <1>2, <1>3, <2>3, <2>5, <2>6, <2>7, PartsRest DEF BookInv
<1>5. ASSUME NEW k \in keys, Book(i)!UpdateKey(k) PROVE BookInv(i)'
  <2>1. PICK body \in Book(i)!UpdateBodies(Book(i)!updateApiKeyInputSchema) :
          LET in == Book(i)!Parsed(Book(i)!updateApiKeyInputSchema, body)
              name == IF "name" \in DOMAIN in THEN Book(i)!Trim(in.name) ELSE k.name
              ps == IF "permissions" \in DOMAIN in THEN Book(i)!PermissionsOf(in.permissions) ELSE k.permissions
              new == [k EXCEPT !.name = name, !.permissions = ps]
          IN /\ refused' = refused \union Book(i)!KeyErrors(name, ps)
             /\ IF Book(i)!KeyErrors(name, ps) # {} THEN UNCHANGED <<keys, lost>>
                ELSE /\ keys' = (keys \ {k}) \union {new}
                     /\ Book(i)!Serialize("updateKey", Book(i)!Valid(Book(i)!apiKeyOutputSchema, Book(i)!ApiKeysMapper(new)))
    BY <1>5 DEF Book!UpdateKey
  <2>2. PICK in : in = Book(i)!Parsed(Book(i)!updateApiKeyInputSchema, body)
    OBVIOUS
  <2>3. PICK name, ps :
          /\ name = IF "name" \in DOMAIN in THEN Book(i)!Trim(in.name) ELSE k.name
          /\ ps = IF "permissions" \in DOMAIN in THEN Book(i)!PermissionsOf(in.permissions) ELSE k.permissions
    OBVIOUS
  <2>4. NameAdmitted(i, name) /\ PermissionsAdmitted(i, ps)
    BY <1>1, <2>2, <2>3, UpdatedBodies DEF RowOf, PermissionsAdmitted
  <2>5. PICK new : new = [k EXCEPT !.name = name, !.permissions = ps]
    OBVIOUS
  <2>6. DOMAIN new = fields /\ new.name = name /\ new.permissions = ps /\ new.dates = k.dates
    BY <1>1, <2>5 DEF RowOf
  <2>7. /\ refused' = refused /\ keys' = (keys \ {k}) \union {new}
        /\ Book(i)!Serialize("updateKey", Book(i)!Valid(Book(i)!apiKeyOutputSchema, Book(i)!ApiKeysMapper(new)))
    BY <2>1, <2>2, <2>3, <2>4, <2>5, NoErrors
  <2>8. lost' = lost
    <3>1. Book(i)!Valid(Book(i)!apiKeyOutputSchema, Book(i)!ApiKeysMapper(new))
      BY <1>1, <2>4, <2>6, KeyAnswers DEF PermissionsAdmitted
    <3> QED
      BY <2>7, <3>1 DEF Book!Serialize
  <2>9. RowsInv(i)'
    <3>1. new.dates \subseteq dates
      BY <1>1, <2>6
    <3> HIDE DEF fields, dates
    <3> QED
      BY <1>3, <2>4, <2>6, <2>7, <3>1
  <2> QED
    BY <1>2, <2>7, <2>8, <2>9, PartsRest DEF BookInv
<1>6. ASSUME NEW k \in keys, NEW f \in {"lastUsedAt", "revokedAt"}, Book(i)!DateKey(k, f) PROVE BookInv(i)'
  <2>1. PICK new : new = [k EXCEPT !.dates = @ \union {f}]
    OBVIOUS
  <2>2. keys' = (keys \ {k}) \union {new} /\ UNCHANGED <<refused, lost>>
    BY <1>6, <2>1 DEF Book!DateKey, Book!histories
  <2>3. DOMAIN new = fields /\ new.name = k.name /\ new.permissions = k.permissions /\ new.dates = k.dates \union {f}
    BY <1>1, <2>1 DEF RowOf
  <2>4. NameAdmitted(i, new.name) /\ PermissionsAdmitted(i, new.permissions) /\ new.dates \subseteq dates
    BY <1>1, <2>3 DEF RowOf, PermissionsAdmitted
  <2> HIDE DEF fields, dates
  <2>5. RowsInv(i)'
    BY <1>3, <2>2, <2>3, <2>4
  <2> QED
    BY <1>2, <2>2, <2>5, PartsRest DEF BookInv
<1>7. CASE Book(i)!ListKeys
  <2>1. UNCHANGED <<keys, refused>>
    BY <1>7 DEF Book!ListKeys, Book!tenant
  <2>2. lost' = lost
    <3>1. \A k \in keys : Book(i)!Valid(Book(i)!apiKeyOutputSchema, Book(i)!ApiKeysMapper(k))
      BY <1>1, KeyAnswers DEF RowOf
    <3> QED
      BY <1>7, <3>1 DEF Book!ListKeys, Book!Serialize, Book!tenantApiKeysOutputSchema
  <2> QED
    BY <1>2, <2>1, <2>2, PartsRest DEF BookInv
<1> QED
  BY <1>4, <1>5, <1>6, <1>7

LEMMA BookNext ==
  ASSUME NEW i, Book(i)!AccountsAssumption
  PROVE  BookInv(i) /\ (Book(i)!Next \/ Book(i)!People) => BookInv(i)'
<1> SUFFICES ASSUME BookInv(i), Book(i)!Next PROVE BookInv(i)'
  BY DEF Book!Next
<1>1. CASE Book(i)!People
  BY <1>1, FindKeeps, SaveKeeps, SetPasswordKeeps, AcceptKeeps, MembersKeep DEF Book!People
<1>2. CASE Book(i)!TenantObjects
  BY <1>2, RolesKeep, KeysKeep DEF Book!TenantObjects
<1> QED
  BY <1>1, <1>2 DEF Book!Next

LEMMA BookStutters == \A i : BookInv(i) /\ UNCHANGED accountVars => BookInv(i)'
BY PartsRest DEF BookInv, accountVars

LEMMA BookInvSuffices ==
  ASSUME NEW i, Book(i)!AccountsAssumption, BookInv(i)
  PROVE  /\ Book(i)!TypeOK /\ Book(i)!OneAccountPerPerson /\ Book(i)!ContractGuardsDomain
         /\ Book(i)!NoAnswerIsLost /\ Book(i)!LoginKnowsThePassword
<1>1. \A p \in i.persons : Book(i)!Of(Mail(p)) = p
  BY DEF Mail, Book!Of
<1>2. Book(i)!TypeOK
  <2>1. \A u \in users : u.id \in 1 .. i.users /\ Book(i)!Of(u.email) \in i.persons
    BY <1>1, FS_CardinalityType DEF BookInv, UsersInv, Book!AccountsAssumption
  <2>2. \A x \in secrets : \E u \in users : u.id = x[1]
    BY DEF BookInv, PasswordsInv
  <2>3. \A m \in memberships : (\E u \in users : u.id = m[1]) /\ m[2] \subseteq {r.id : r \in roles}
    BY DEF BookInv, TenancyInv
  <2>4. \A k \in keys : k.dates \subseteq {"expiresAt", "revokedAt", "lastUsedAt"}
    BY DEF BookInv, RowsInv
  <2> QED
    BY <2>1, <2>2, <2>3, <2>4 DEF Book!TypeOK
<1>3. Book(i)!OneAccountPerPerson
  BY <1>1 DEF BookInv, UsersInv, Book!OneAccountPerPerson
<1>4. Book(i)!ContractGuardsDomain /\ Book(i)!NoAnswerIsLost
  BY DEF BookInv, CleanInv, Book!ContractGuardsDomain, Book!NoAnswerIsLost
<1>5. Book(i)!LoginKnowsThePassword
  <2>1. SUFFICES ASSUME NEW email \in Book(i)!Emails, NEW password \in Book(i)!Passwords,
                        Book(i)!Valid(Book(i)!forgotPasswordInputSchema, [email |-> email])
                 PROVE  Book(i)!LoginSucceeds(email, password) <=> chosen[Book(i)!Of(email)] = password
    BY DEF Book!LoginKnowsThePassword
  <2>2. Book(i)!Lex(email) \in {"email", "EMAIL"}
    BY <2>1, OtherBodies
  <2>3. MailAdmitted(i, email)
    BY <2>2 DEF Book!Emails, MailAdmitted, Book!Lex, Book!V
  <2>4. PICK p \in i.persons : Book(i)!Of(email) = p /\ Book(i)!NormalizeEmail(email) = Mail(p)
    BY <2>3, Addresses
  <2>5. Book(i)!Lex(password) \in {"long", "short"}
    BY DEF Book!Passwords, Book!Lex, Book!V
  <2>6. Book(i)!Valid(Book(i)!loginInputSchema, [email |-> email, password |-> password])
    BY <2>2, <2>5, OtherBodies DEF Book!Strings
  <2>7. Book(i)!LoginSucceeds(email, password) <=> \E u \in users : u.email = Mail(p) /\ <<u.id, password>> \in secrets
    BY <2>4, <2>6 DEF Book!LoginSucceeds, Book!FindByEmail
  <2>8. Book(i)!None \notin Book(i)!Passwords
    BY DEF Book!None, Book!Passwords, Book!V
  <2>9. (\E u \in users : u.email = Mail(p) /\ <<u.id, password>> \in secrets) <=> chosen[p] = password
    <3>1. /\ \A u \in users : u.email = Mail(p) => (<<u.id, password>> \in secrets <=> chosen[p] = password)
          /\ (\A u \in users : u.email # Mail(p)) => chosen[p] = Book(i)!None
      BY DEF BookInv, PasswordsInv
    <3>2. chosen[p] = password => \E u \in users : u.email = Mail(p) /\ <<u.id, password>> \in secrets
      BY <2>8, <3>1
    <3>3. (\E u \in users : u.email = Mail(p) /\ <<u.id, password>> \in secrets) => chosen[p] = password
      BY <3>1
    <3> QED
      BY <3>2, <3>3
  <2> QED
    BY <2>4, <2>7, <2>9
<1> QED
  BY <1>2, <1>3, <1>4, <1>5

-----------------------------------------------------------------------------
(* The theorems.                                                            *)

\* AlsTenantContext and TenantAwareRepository, for any number of concurrent
\* branches: outside withoutTenantScope a branch reads and writes rows of the
\* tenant it was admitted to only, and its scope is what its nesting says.
THEOREM TenantsStayIsolated == Spec => [](TypeOK /\ TenantIsolation /\ ScopeMatchesNesting)
BY InitScopeInv, NextScopeInv, ScopeInvImplies, PTL DEF Spec

\* The same of the run that explores the scopes beside the other components.
THEOREM ScopesAreKeptApart == EdgeSpec => []ScopesStayApart
<1> DEFINE Inv == part = "scope" => ScopeInv
<1>1. EdgeInit => Inv
  BY InitScopeInv DEF EdgeInit
<1>2. Inv /\ [EdgeNext]_<<part, vars, edgeVars, aggregateVars, accountVars>> => Inv'
  BY NextScopeInv DEF EdgeNext, Scoping, Requesting, Working, Registering
<1>3. Inv => ScopesStayApart
  BY ScopeInvImplies DEF ScopesStayApart
<1> QED
  BY <1>1, <1>2, <1>3, PTL DEF EdgeSpec

\* Every route of the API, with any number of requests at once, changes of
\* rights and failures: it has its effect and replays an answer only for a caller
\* who had the right in the tenant concerned, and answers beside its document
\* only for the reasons all routes share.
THEOREM RoutesDecideRight ==
  ASSUME NEW i, Edge(i)!EdgeAssumption
  PROVE  Edge(i)!Spec => [](/\ Edge(i)!TypeOK /\ Edge(i)!EffectNeedsRight
                            /\ Edge(i)!ReplayNeedsRight /\ Edge(i)!UndeclaredHasReason)
<1>1. Edge(i)!Init => PipelineInv(i)
  BY InitPipelineInv
<1>2. PipelineInv(i) /\ [Edge(i)!Next]_(Edge(i)!vars) => PipelineInv(i)'
  <2>1. UNCHANGED Edge(i)!vars => UNCHANGED edgeVars
    BY DEF Edge!vars, Edge!bounds, edgeVars
  <2> QED
    BY <2>1, PipelineNext, PipelineStutters
<1>3. PipelineInv(i) => /\ Edge(i)!TypeOK /\ Edge(i)!EffectNeedsRight
                        /\ Edge(i)!ReplayNeedsRight /\ Edge(i)!UndeclaredHasReason
  BY PipelineInvSuffices
<1> QED
  BY <1>1, <1>2, <1>3, PTL DEF Edge!Spec

\* The same of the parts the run explores.
THEOREM EdgeDecides == EdgeSpec => []EdgeDecidesRight
<1> DEFINE DecidesInv == /\ part = "pipeline" => PipelineInv(Pipeline)
                         /\ part = "rights" => PipelineInv(Rights)
<1>1. EdgeInit => DecidesInv
  <2>1. EdgeInit /\ part = "pipeline" => Edge(Pipeline)!Init
    BY DEF EdgeInit
  <2>2. EdgeInit /\ part = "rights" => Edge(Rights)!Init
    BY DEF EdgeInit
  <2> QED
    BY <2>1, <2>2, InitPipelineInv, EdgeAssumption
<1>2. DecidesInv /\ [EdgeNext]_<<part, vars, edgeVars, aggregateVars, accountVars>> => DecidesInv'
  <2> SUFFICES ASSUME DecidesInv, [EdgeNext]_<<part, vars, edgeVars, aggregateVars, accountVars>> PROVE DecidesInv'
    OBVIOUS
  <2>1. part' = part
    BY DEF EdgeNext, Scoping, Requesting, Working, Registering
  <2>2. CASE Requesting
    <3>1. part = "pipeline" => PipelineInv(Pipeline)'
      BY <2>2, PipelineNext, EdgeAssumption DEF Requesting
    <3>2. part = "rights" => PipelineInv(Rights)'
      BY <2>2, PipelineNext, EdgeAssumption DEF Requesting
    <3> QED
      BY <2>1, <3>1, <3>2
  <2>3. CASE UNCHANGED edgeVars
    BY <2>1, <2>3, PipelineStutters
  <2> QED
    BY <2>2, <2>3 DEF EdgeNext, Scoping, Working, Registering
<1>3. DecidesInv => EdgeDecidesRight
  BY PipelineInvSuffices DEF EdgeDecidesRight
<1> QED
  BY <1>1, <1>2, <1>3, PTL DEF EdgeSpec

\* The aggregates of the domain, for any kinds of them, any units of work, names,
\* addresses, roles and permissions, and any number of calls: whoever follows the
\* events knows the row, unless units of work overlapped on it or an expired
\* invitation was superseded; no sequence of calls stores a bundle of roles or
\* permissions that authorization could not rely on; and what counts as pending
\* can be accepted.
THEOREM AggregatesAreSound ==
  ASSUME NEW i, Units(i)!AggregatesAssumption
  PROVE  Units(i)!Spec => [](/\ Units(i)!TypeOK /\ Units(i)!SubscribersKnowTheRow
                             /\ Units(i)!BundlesAreSound /\ Units(i)!PendingIsAcceptable)
<1>1. Units(i)!Init => UnitsInv(i)
  BY InitUnits
<1>2. UnitsInv(i) /\ [Units(i)!Next]_(Units(i)!vars) => UnitsInv(i)'
  <2>1. UNCHANGED Units(i)!vars => UNCHANGED aggregateVars
    BY DEF Units!vars, aggregateVars
  <2> QED
    BY <2>1, UnitsNext, UnitsStutter
<1>3. UnitsInv(i) => /\ Units(i)!TypeOK /\ Units(i)!SubscribersKnowTheRow
                     /\ Units(i)!BundlesAreSound /\ Units(i)!PendingIsAcceptable
  BY UnitsInvSuffices DEF UnitsAreSound
<1> QED
  BY <1>1, <1>2, <1>3, PTL DEF Units!Spec

\* ApiKey.revoke, Invitation.consume: what has ended is never ended again or made
\* valid, unless two units of work overlapped on it.
THEOREM EndedStaysEndedAlways ==
  ASSUME NEW i, Units(i)!AggregatesAssumption
  PROVE  Units(i)!Spec => [][Units(i)!EndedStaysEnded]_aggregateVars
<1>1. Units(i)!Init => UnitsInv(i)
  BY InitUnits
<1>2. UnitsInv(i) /\ [Units(i)!Next]_(Units(i)!vars) => UnitsInv(i)' /\ Units(i)!EndedStaysEnded
  <2>1. UNCHANGED Units(i)!vars => UNCHANGED aggregateVars
    BY DEF Units!vars, aggregateVars
  <2> QED
    BY <2>1, UnitsNext, UnitsStutter
<1> QED
  BY <1>1, <1>2, PTL DEF Units!Spec

\* The same of the parts of the run that call the aggregates.
THEOREM AggregatesAreSoundHere == EdgeSpec => []AggregatesStaySound
<1>1. PartInv => AggregatesStaySound
  <2>1. part = "named" /\ PartInv => UnitsAreSound(Named)
    BY UnitsInvSuffices, UnitsAssumption DEF PartInv
  <2>2. part = "bundles" /\ PartInv => UnitsAreSound(Bundles)
    BY UnitsInvSuffices, UnitsAssumption DEF PartInv
  <2>3. part \in {"endingKey", "endingInvitation"} /\ PartInv => UnitsAreSound(Ending)
    BY UnitsInvSuffices, UnitsAssumption DEF PartInv
  <2> QED
    BY <2>1, <2>2, <2>3 DEF AggregatesStaySound, UnitsAreSound
<1>2. PartInv /\ [EdgeNext]_<<part, vars, edgeVars, aggregateVars, accountVars>> => PartInv'
  BY PartNext
<1> QED
  BY <1>1, <1>2, InitPartInv, PTL DEF EdgeSpec

\* The same of the parts of the run whose aggregates end.
THEOREM EndedStaysEndedHere == EdgeSpec => EndedStaysEnded
<1>1. PartInv /\ [EdgeNext]_<<part, vars, edgeVars, aggregateVars, accountVars>> =>
        PartInv' /\ (part \in {"endingKey", "endingInvitation"} => Units(Ending)!EndedStaysEnded)
  BY PartNext
<1> QED
  BY <1>1, InitPartInv, PTL DEF EdgeSpec, EndedStaysEnded

\* CreateUser, RegisterUser, AcceptInvitation, the seeder and the rest of the API,
\* for any number of people, rows and requests half done: a person has one account
\* and signs in with the password last accepted for them and no other, whatever
\* way the address is written; what the contract admits the domain accepts, and
\* every answer passes its own schema.
THEOREM AccountsAreSound ==
  ASSUME NEW i, Book(i)!AccountsAssumption
  PROVE  Book(i)!Spec => [](/\ Book(i)!TypeOK /\ Book(i)!OneAccountPerPerson /\ Book(i)!ContractGuardsDomain
                            /\ Book(i)!NoAnswerIsLost /\ Book(i)!LoginKnowsThePassword)
<1>1. Book(i)!Init => BookInv(i)
  BY InitBookInv
<1>2. BookInv(i) /\ [Book(i)!Next]_(Book(i)!vars) => BookInv(i)'
  <2>1. UNCHANGED Book(i)!vars => UNCHANGED accountVars
    BY DEF Book!vars, accountVars
  <2> QED
    BY <2>1, BookNext, BookStutters
<1>3. BookInv(i) => /\ Book(i)!TypeOK /\ Book(i)!OneAccountPerPerson /\ Book(i)!ContractGuardsDomain
                    /\ Book(i)!NoAnswerIsLost /\ Book(i)!LoginKnowsThePassword
  BY BookInvSuffices
<1> QED
  BY <1>1, <1>2, <1>3, PTL DEF Book!Spec

\* The same of the people and the rows of the run.
THEOREM AccountsAreSoundHere == EdgeSpec => []AccountsStaySound
<1> DEFINE Inv == (part = "people" => BookInv(People)) /\ (part = "objects" => BookInv(Objects))
<1>1. EdgeInit => Inv
  <2>1. EdgeInit /\ part = "people" => Book(People)!Init
    BY DEF EdgeInit
  <2>2. EdgeInit /\ part = "objects" => Book(Objects)!Init
    BY DEF EdgeInit
  <2> QED
    BY <2>1, <2>2, InitBookInv, BookAssumption
<1>2. Inv /\ [EdgeNext]_<<part, vars, edgeVars, aggregateVars, accountVars>> => Inv'
  <2> SUFFICES ASSUME Inv, [EdgeNext]_<<part, vars, edgeVars, aggregateVars, accountVars>> PROVE Inv'
    OBVIOUS
  <2>1. part' = part
    BY DEF EdgeNext, Scoping, Requesting, Working, Registering
  <2>2. CASE Registering
    <3>1. part = "people" => BookInv(People)'
      BY <2>2, BookNext, BookAssumption DEF Registering
    <3>2. part = "objects" => BookInv(Objects)'
      BY <2>2, BookNext, BookAssumption DEF Registering
    <3> QED
      BY <2>1, <3>1, <3>2
  <2>3. CASE UNCHANGED accountVars
    BY <2>1, <2>3, BookStutters
  <2> QED
    BY <2>2, <2>3 DEF EdgeNext, Scoping, Requesting, Working
<1>3. Inv => AccountsStaySound
  BY BookInvSuffices, BookAssumption DEF AccountsStaySound
<1> QED
  BY <1>1, <1>2, <1>3, PTL DEF EdgeSpec
=============================================================================
