----------------------------- MODULE Aggregates -----------------------------
(* The aggregates of packages/domain: what their public methods accept, change *)
(* and record, the rows they are mapped to and loaded from, and the events a   *)
(* unit of work pulls from them, publishes and commits.  One aggregate of each *)
(* kind; the sessions are units of work that hold a copy of it.                *)
EXTENDS Integers, Sequences, FiniteSets, TLC

CONSTANTS
    Kind,       \* the kinds of this instance
    Session,
    Entered,    \* names as entered: subset of the domain of Trim
    Address,    \* email addresses as entered: subset of the domain of NormalizeEmail
    RoleId,
    PermissionCatalog, \* sequence: PermissionCatalog.all
    ManagePermission,  \* ApiKey.managePermission
    ExpiresAt,  \* of invitations and keys
    MaxTime,    \* bound: the clock
    MaxCalls    \* bound: method calls of a unit of work

(* The elements of a list. *)
Range(list) == {list[n] : n \in DOMAIN list}

AggregatesAssumption ==
    /\ Kind \subseteq {"user", "tenant", "membership", "role", "apiKey", "invitation"}
    /\ PermissionCatalog \in Seq(Range(PermissionCatalog))
    /\ ManagePermission \in Range(PermissionCatalog) /\ Range(PermissionCatalog) # {ManagePermission}
    /\ {ExpiresAt, MaxTime, MaxCalls} \subseteq Nat

Never == -1
None == [kind |-> "none"]

----------------------------------------------------------------------------
(* The values of the shared kernel. *)
Trim == "" :> "" @@ " " :> "" @@ "Ops" :> "Ops" @@ " Ops " :> "Ops" @@ " Owner" :> "Owner" @@ "owner" :> "owner"

SystemRoleNames == {"Owner", "Admin", "Member"}

(* The normalized address, or "" where the pattern does not match. *)
NormalizeEmail == "" :> "" @@ "nobody" :> "" @@ " A@B.co" :> "a@b.co" @@ "a@b.co" :> "a@b.co"

(* Guard.againstEmpty: the trimmed name, or nothing. *)
NameOf(entered) == {Trim[entered]} \ {""}
EmailOf(entered) == {NormalizeEmail[entered]} \ {""}

(* What a list has of a set, each once and in its first order: a recursive     *)
(* function, that proofs can unfold, where a fold would take an operator.       *)
Among(list, set) ==
    LET picked[n \in 0 .. Len(list)] ==
          IF n = 0 THEN <<>>
          ELSE IF list[n] \in set \ Range(picked[n - 1]) THEN Append(picked[n - 1], list[n])
          ELSE picked[n - 1]
    IN picked[Len(list)]

(* normalizeRoleIds: the distinct ids in their first order; none is refused. *)
NormalizeRoleIds(ids) == {Among(ids, RoleId)} \ {<<>>}

(* Role.#normalize: the catalog filtered by the permissions; none is refused. *)
NormalizePermissions(permissions) == {Among(PermissionCatalog, permissions)} \ {<<>>}

(* ApiKey.#normalizePermissions: none, or the one that manages keys, is refused. *)
KeyPermissions(permissions) == IF permissions = {} \/ ManagePermission \in permissions THEN {} ELSE {permissions}

RoleIds == UNION {[1 .. n -> RoleId] : n \in 0 .. 2}
Permissions == SUBSET Range(PermissionCatalog)

----------------------------------------------------------------------------
(* Calls.  A method maps an aggregate to the set of its outcomes: empty when   *)
(* it throws, else one aggregate and the event it records; the event's body    *)
(* are the fields it tells its subscribers.                                    *)
Tells(o, body) == [object |-> o, events |-> <<body>>]
Quiet(o) == [object |-> o, events |-> <<>>]

(* suspend and activate of users, tenants and memberships. *)
SetStatus(o, status) ==
    IF o.status = status THEN {} ELSE {Tells([o EXCEPT !.status = status], [status |-> status])}

StatusCalls(o) == {SetStatus(o, s) : s \in {"active", "suspended"}}

UserCreate ==
    {{Tells([kind |-> "user", email |-> e, name |-> n, status |-> "active"], [email |-> e, status |-> "active"])
        : e \in EmailOf(a), n \in NameOf(x)} : a \in Address, x \in Entered}

TenantCreate ==
    {{Tells([kind |-> "tenant", name |-> n, status |-> "active"], [name |-> n, status |-> "active"])
        : n \in NameOf(x)} : x \in Entered}

TenantCallsUntold(o) ==
    StatusCalls(o) \union {{Quiet([o EXCEPT !.name = n]) : n \in NameOf(x)} : x \in Entered}

TenantCalls(o) ==
    StatusCalls(o) \union {{Tells([o EXCEPT !.name = n], [name |-> n]) : n \in NameOf(x)} : x \in Entered}

MembershipCreate ==
    {{Tells([kind |-> "membership", roleIds |-> r, status |-> "active"], [roleIds |-> r, status |-> "active"])
        : r \in NormalizeRoleIds(ids)} : ids \in RoleIds}

MembershipCalls(o) ==
    StatusCalls(o) \union {{Tells([o EXCEPT !.roleIds = r], [roleIds |-> r]) : r \in NormalizeRoleIds(ids)} : ids \in RoleIds}

(* SystemRoles.permissionsFor of an instance's catalog: Owner has all of it. *)
PermissionsFor(name) ==
    CASE name = "Owner" -> PermissionCatalog
      [] name = "Admin" -> Among(PermissionCatalog, {ManagePermission})
      [] name = "Member" -> Among(PermissionCatalog, Range(PermissionCatalog) \ {ManagePermission})

RoleNameOf(entered) == NameOf(entered) \ SystemRoleNames

RoleCreate ==
    {{Tells([kind |-> "role", name |-> n, isSystem |-> TRUE, permissions |-> PermissionsFor(n)],
            [name |-> n, isSystem |-> TRUE])} : n \in SystemRoleNames}
    \union
    {{Tells([kind |-> "role", name |-> n, isSystem |-> FALSE, permissions |-> p], [name |-> n, isSystem |-> FALSE])
        : n \in RoleNameOf(x), p \in NormalizePermissions(ps)} : x \in Entered, ps \in Permissions}

(* rename and replacePermissions assert first that the role is mutable. *)
RoleCalls(o) ==
    IF o.isSystem THEN {{}}
    ELSE {{Tells([o EXCEPT !.name = n], [name |-> n]) : n \in RoleNameOf(x)} : x \in Entered}
         \union {{Tells([o EXCEPT !.permissions = p], <<>>) : p \in NormalizePermissions(ps)} : ps \in Permissions}

ApiKeyCreate ==
    {{Tells([kind |-> "apiKey", name |-> n, permissions |-> p, expiresAt |-> t, revokedAt |-> Never, lastUsedAt |-> Never],
            [revokedAt |-> Never])
        : n \in NameOf(x), p \in KeyPermissions(ps)} : x \in Entered, ps \in Permissions, t \in {Never, ExpiresAt}}

ApiKeyCallsAnyTime(o, now) ==
    {{Quiet([o EXCEPT !.lastUsedAt = now])}, {Tells([o EXCEPT !.revokedAt = now], [revokedAt |-> now])}}

(* rename and recordLastUsed record nothing. *)
ApiKeyCalls(o, now) ==
    {{Quiet([o EXCEPT !.lastUsedAt = now])}}
    \union
    IF o.revokedAt # Never THEN {{}}
    ELSE {{Quiet([o EXCEPT !.name = n]) : n \in NameOf(x)} : x \in Entered}
         \union {{Tells([o EXCEPT !.permissions = p], <<>>) : p \in KeyPermissions(ps)} : ps \in Permissions}
         \union {{Tells([o EXCEPT !.revokedAt = now], [revokedAt |-> now])}}

InvitationCreate ==
    {{Tells([kind |-> "invitation", email |-> e, roleIds |-> r, expiresAt |-> ExpiresAt, consumedAt |-> Never],
            [email |-> e, consumedAt |-> Never])
        : e \in EmailOf(a), r \in NormalizeRoleIds(ids)} : a \in Address, ids \in RoleIds}

Consume(o, now) ==
    IF o.consumedAt # Never \/ o.expiresAt <= now THEN {}
    ELSE {Tells([o EXCEPT !.consumedAt = now], [consumedAt |-> now])}

(* An expired invitation makes room for a new one, and nobody is told. *)
Supersede(o, now) == IF o.consumedAt # Never THEN {} ELSE {Quiet([o EXCEPT !.consumedAt = now])}

InvitationActive(o, now) == o.consumedAt = Never /\ o.expiresAt > now

(* InviteMember supersedes a pending invitation that is not active any more. *)
InvitationCalls(o, now) == {Consume(o, now), IF InvitationActive(o, now) THEN {} ELSE Supersede(o, now)}

Create(kind) ==
    CASE kind = "user" -> UserCreate
      [] kind = "tenant" -> TenantCreate
      [] kind = "membership" -> MembershipCreate
      [] kind = "role" -> RoleCreate
      [] kind = "apiKey" -> ApiKeyCreate
      [] kind = "invitation" -> InvitationCreate

Calls(o, now) ==
    CASE o.kind = "user" -> StatusCalls(o)
      [] o.kind = "tenant" -> TenantCalls(o)
      [] o.kind = "membership" -> MembershipCalls(o)
      [] o.kind = "role" -> RoleCalls(o)
      [] o.kind = "apiKey" -> ApiKeyCalls(o, now)
      [] o.kind = "invitation" -> InvitationCalls(o, now)

----------------------------------------------------------------------------
(* Rows: the mappers, and the child rows of memberships, roles, invitations,   *)
(* which are a set: no column keeps their order.                               *)
MembershipRow(o) == [o EXCEPT !.roleIds = Range(@)]
InvitationRow(o) == [o EXCEPT !.roleIds = Range(@)]
RoleRow(o) == [o EXCEPT !.permissions = Range(@)]

ToEntity(o) ==
    CASE o.kind = "membership" -> MembershipRow(o)
      [] o.kind = "invitation" -> InvitationRow(o)
      [] o.kind = "role" -> RoleRow(o)
      [] OTHER -> o

(* reconstitute takes ids in the order of the query; a role's permissions pass *)
(* through the catalog once more.                                              *)
AsList(set) == CHOOSE list \in [1 .. Cardinality(set) -> set] : Range(list) = set
MembershipOf(r) == [r EXCEPT !.roleIds = AsList(@)]
InvitationOf(r) == [r EXCEPT !.roleIds = AsList(@)]
RoleOf(r) == [r EXCEPT !.permissions = Among(PermissionCatalog, r.permissions)]

ToDomain(r) ==
    CASE r.kind = "membership" -> MembershipOf(r)
      [] r.kind = "invitation" -> InvitationOf(r)
      [] r.kind = "role" -> RoleOf(r)
      [] OTHER -> r

----------------------------------------------------------------------------
VARIABLES
    row,        \* [Kind -> stored row]
    told,       \* [Kind -> what a subscriber of all its events knows]
    session,    \* [Session -> [kind, object, buffer, collected, calls]]
    now,
    overlapped, \* history: kinds two units of work have held at once
    quiet       \* history: kinds of which a pending invitation was superseded

vars == <<row, told, session, now, overlapped, quiet>>

Idle == [kind |-> "none", object |-> None, buffer |-> <<>>, collected |-> <<>>, calls |-> 0]

Init ==
    /\ row = [k \in Kind |-> None]
    /\ told = [k \in Kind |-> <<>>]
    /\ session = [s \in Session |-> Idle]
    /\ now = 0
    /\ overlapped = {} /\ quiet = {}

Hold(s, k, o, events) ==
    /\ session' = [session EXCEPT ![s] = [Idle EXCEPT !.kind = k, !.object = o, !.buffer = events]]
    /\ overlapped' = IF \E q \in Session : session[q].kind = k THEN overlapped \union {k} ELSE overlapped

(* The factory of a new aggregate; a factory that throws holds nothing. *)
New(s, k) ==
    /\ session[s].kind = "none" /\ row[k] = None
    /\ \E outcome \in Create(k) : \E x \in outcome : Hold(s, k, x.object, x.events)
    /\ UNCHANGED <<row, told, now, quiet>>

(* findById: reconstitute records nothing. *)
Load(s, k) ==
    /\ session[s].kind = "none" /\ row[k] # None
    /\ Hold(s, k, ToDomain(row[k]), <<>>)
    /\ UNCHANGED <<row, told, now, quiet>>

(* A method call; one that throws ends the unit of work. *)
Call(s) ==
    LET q == session[s] IN
    /\ q.kind # "none" /\ q.calls < MaxCalls
    /\ \E outcome \in Calls(q.object, now) :
        \/ outcome = {} /\ session' = [session EXCEPT ![s] = Idle]
        \/ \E x \in outcome :
            session' = [session EXCEPT ![s].object = x.object, ![s].buffer = @ \o x.events, ![s].calls = @ + 1]
    /\ quiet' = IF q.kind = "invitation" /\ session'[s].kind = q.kind /\ session'[s].buffer = q.buffer
                THEN quiet \union {q.kind} ELSE quiet
    /\ UNCHANGED <<row, told, now, overlapped>>

(* AggregateRoot.pullEvents by DomainEventCollector.collect. *)
Pull(s) ==
    /\ session[s].buffer # <<>>
    /\ session' = [session EXCEPT ![s].collected = @ \o session[s].buffer, ![s].buffer = <<>>]
    /\ UNCHANGED <<row, told, now, overlapped, quiet>>

(* What is known once an event is heard: its fields replace those of before. *)
Told(known, body) ==
    [f \in DOMAIN known \union DOMAIN body |-> IF f \in DOMAIN body THEN body[f] ELSE known[f]]

Learn(known, events) ==
    LET after[n \in 0 .. Len(events)] == IF n = 0 THEN known ELSE Told(after[n - 1], events[n])
    IN after[Len(events)]

(* save, and the publication of what was collected, in one transaction. *)
Commit(s) ==
    LET q == session[s] IN
    /\ q.kind # "none" /\ q.buffer = <<>>
    /\ row' = [row EXCEPT ![q.kind] = ToEntity(q.object)]
    /\ told' = [told EXCEPT ![q.kind] = Learn(@, q.collected)]
    /\ session' = [session EXCEPT ![s] = Idle]
    /\ UNCHANGED <<now, overlapped, quiet>>

Abandon(s) ==
    /\ session[s].kind # "none"
    /\ session' = [session EXCEPT ![s] = Idle]
    /\ UNCHANGED <<row, told, now, overlapped, quiet>>

Tick ==
    /\ now < MaxTime /\ now' = now + 1
    /\ UNCHANGED <<row, told, session, overlapped, quiet>>

Next ==
    \/ \E s \in Session :
        \/ \E k \in Kind : New(s, k) \/ Load(s, k)
        \/ Call(s) \/ Pull(s) \/ Commit(s) \/ Abandon(s)
    \/ Tick

Spec == Init /\ [][Next]_vars

----------------------------------------------------------------------------
TypeOK ==
    /\ \A k \in Kind : row[k] = None \/ (row[k].kind = k /\ ("name" \in DOMAIN row[k] => row[k].name # ""))
    /\ \A s \in Session : session[s].kind \in Kind \union {"none"} /\ session[s].calls \in 0 .. MaxCalls
    /\ now \in 0 .. MaxTime /\ overlapped \subseteq Kind /\ quiet \subseteq Kind

(* Whoever follows the events of an aggregate knows its row: every change of a  *)
(* field that events carry is told, in order and once, unless two units of work *)
(* held the aggregate at the same time or an expired invitation was superseded. *)
SubscribersKnowTheRow ==
    \A k \in Kind \ (overlapped \union quiet) :
        row[k] # None =>
            \A f \in DOMAIN told[k] : IF f = "roleIds" THEN Range(told[k][f]) = row[k][f] ELSE told[k][f] = row[k][f]

(* No sequence of calls, of any units of work, stores a role, a key or a        *)
(* membership that authorization could not rely on: no bundle is empty, a key   *)
(* never manages keys, a custom role never bears the name of a system role, and *)
(* a system role has its own permissions.                                       *)
BundlesAreSound ==
    \A k \in Kind :
        LET r == row[k] IN
        /\ r.kind \in {"membership", "invitation"} => r.roleIds # {}
        /\ r.kind \in {"role", "apiKey"} => r.permissions # {}
        /\ r.kind = "apiKey" => ManagePermission \notin r.permissions
        /\ r.kind = "role" => r.isSystem = (r.name \in SystemRoleNames)
        /\ r.kind = "role" /\ r.isSystem => r.permissions = Range(PermissionsFor(r.name))

(* isActive and consume agree at every instant, the one of the deadline too: an *)
(* invitation that the listing shows as pending can be accepted, no other can.  *)
PendingIsAcceptable ==
    \A s \in Session :
        session[s].kind = "invitation" => (Consume(session[s].object, now) # {} <=> InvitationActive(session[s].object, now))

(* A key that was revoked, and an invitation that was consumed, is so for good, *)
(* at the time it happened, as long as units of work do not overlap on it.      *)
EndedStaysEnded ==
    \A k \in Kind \ overlapped' :
        /\ row[k].kind = "apiKey" /\ row[k].revokedAt # Never => row'[k].revokedAt = row[k].revokedAt
        /\ row[k].kind = "invitation" /\ row[k].consumedAt # Never => row'[k].consumedAt = row[k].consumedAt
=============================================================================
