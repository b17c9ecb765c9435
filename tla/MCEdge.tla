------------------------------- MODULE MCEdge -------------------------------
(* Small instances of what stands between a request and a row for TLC: the   *)
(* tenant scope of the repositories, the pipeline of the API, the aggregates *)
(* of the domain, and the contracts through which accounts are made.  In the *)
(* models they share no state, so they are explored side by side: the        *)
(* component "part" names takes steps and the others rest in an initial      *)
(* state.                                                                    *)
EXTENDS TenantScope, ApiRoutes, TLC

CONSTANTS
    Slot,           \* open requests, units of work
    Entered, Address, RoleId, ExpiresAt, MaxTime, MaxCalls

VARIABLES
    request, granted, members, stored, requests, changes, faults,
    row, told, session, now, overlapped, quiet,
    users, secrets, memberships, roles, keys, invited, slot, chosen, refused, lost, raced,
    part            \* the component that takes steps

edgeVars == <<request, granted, members, stored, requests, changes, faults>>
aggregateVars == <<row, told, session, now, overlapped, quiet>>
accountVars == <<users, secrets, memberships, roles, keys, invited, slot, chosen, refused, lost, raced>>

-----------------------------------------------------------------------------
(* ApiEdge: one request of every route, and a failure; or two at once of a   *)
(* route that needs a right in the tenant of its path, and a change of rights. *)

Edge(i) == INSTANCE ApiEdge WITH
    Route <- i.routes, MaxRequests <- i.requests, MaxChanges <- i.changes, MaxFaults <- i.faults

Pipeline == [routes |-> DOMAIN Routes, requests |-> 1, changes |-> 0, faults |-> 1]

Rights == [routes |-> {"createCustomRole"}, requests |-> 2, changes |-> 1, faults |-> 0]

-----------------------------------------------------------------------------
(* Aggregates: a unit of work that calls two methods of a user, a tenant, a  *)
(* membership or a custom role; or two at once, and a clock, for the         *)
(* aggregates that end.                                                      *)

Units(i) == INSTANCE Aggregates WITH
    Kind <- i.kinds, Session <- i.sessions, Entered <- i.entered, Address <- i.addresses, RoleId <- i.roleIds,
    PermissionCatalog <- i.catalog, ManagePermission <- i.manage,
    ExpiresAt <- i.expiresAt, MaxTime <- i.time, MaxCalls <- i.calls

Named == [kinds |-> {"user", "tenant"}, sessions |-> {1}, entered |-> {" ", " Ops ", " Owner", "owner"},
          addresses |-> {"nobody", " A@B.co"}, roleIds |-> {"r1", "r2"}, catalog |-> <<"read", "manage">>,
          manage |-> "manage", expiresAt |-> 1, time |-> 0, calls |-> 3]

Bundles == [Named EXCEPT !.kinds = {"membership", "role"}]

Ending == [kinds |-> {"apiKey", "invitation"}, sessions |-> Slot, entered |-> Entered, addresses |-> Address,
           roleIds |-> RoleId, catalog |-> <<"read", "manage">>, manage |-> "manage",
           expiresAt |-> ExpiresAt, time |-> MaxTime, calls |-> MaxCalls]

(* Units of work that hold aggregates of one kind. *)
OnlyOf(kind, calls) ==
    \A s \in Slot : session'[s].kind \in {"none", kind} /\ session'[s].calls <= calls

-----------------------------------------------------------------------------
(* Accounts: people and their addresses; or the roles and keys of a tenant.  *)

Book(i) == INSTANCE Accounts WITH
    Persons <- i.persons, Secrets <- i.secrets, Lexicon <- i.lexicon, Slots <- i.slots, Dev <- "dev",
    MaxUsers <- i.users, MaxRoles <- i.objects, MaxKeys <- i.objects, members <- memberships

People == [persons |-> {"ann", "dev"}, secrets |-> {"s1", "s2"}, lexicon |-> {"EMAIL", "padded email", "tldless"},
           slots |-> {1, 2}, users |-> 2, objects |-> 0]

Objects == [persons |-> {"dev"}, secrets |-> {"s1"}, lexicon |-> {"email"}, slots |-> {1}, users |-> 1, objects |-> 1]

-----------------------------------------------------------------------------
ASSUME EdgeAssumption == Edge(Pipeline)!EdgeAssumption /\ Edge(Rights)!EdgeAssumption
ASSUME UnitsAssumption == \A i \in {Named, Bundles, Ending} : Units(i)!AggregatesAssumption
ASSUME BookAssumption == Book(People)!AccountsAssumption /\ Book(Objects)!AccountsAssumption

EdgeInit ==
    /\ part \in {"scope", "pipeline", "rights", "named", "bundles", "endingKey", "endingInvitation", "people", "objects"}
    /\ Init
    /\ IF part = "pipeline" THEN Edge(Pipeline)!Init ELSE Edge(Rights)!Init
    /\ part \notin {"pipeline", "rights"} => granted = {} /\ members = {}
    /\ CASE part = "bundles" -> Units(Bundles)!Init
         [] part \in {"endingKey", "endingInvitation"} -> Units(Ending)!Init
         [] OTHER -> Units(Named)!Init
    /\ IF part = "objects" THEN Book(Objects)!Init ELSE Book(People)!Init

Scoping ==
    /\ part = "scope" /\ Next
    /\ UNCHANGED <<part, edgeVars, aggregateVars, accountVars>>

Requesting ==
    /\ \/ part = "pipeline" /\ Edge(Pipeline)!Next
       \/ part = "rights" /\ Edge(Rights)!Next
    /\ UNCHANGED <<part, vars, aggregateVars, accountVars>>

Working ==
    /\ \/ part = "named" /\ Units(Named)!Next
       \/ part = "bundles" /\ Units(Bundles)!Next
       \/ part = "endingKey" /\ Units(Ending)!Next /\ OnlyOf("apiKey", 1)
       \/ part = "endingInvitation" /\ Units(Ending)!Next /\ OnlyOf("invitation", 2)
    /\ UNCHANGED <<part, vars, edgeVars, accountVars>>

Registering ==
    /\ \/ part = "people" /\ Book(People)!People
       \/ part = "objects" /\ Book(Objects)!Next
    /\ UNCHANGED <<part, vars, edgeVars, aggregateVars>>

EdgeNext == Scoping \/ Requesting \/ Working \/ Registering

EdgeSpec == EdgeInit /\ [][EdgeNext]_<<part, vars, edgeVars, aggregateVars, accountVars>>

EdgeSymmetry == Permutations(Tenant) \union Permutations(Slot)

-----------------------------------------------------------------------------
(* Properties.                                                              *)

\* What TenantScope promises: outside withoutTenantScope no chain reads or
\* writes a row of another tenant than its own, and every chain's scope is the
\* one its own nesting gives it, whatever its siblings do.
ScopesStayApart == part = "scope" => TypeOK /\ TenantIsolation /\ ScopeMatchesNesting

\* What ApiEdge promises: a route answers with an error its document leaves out
\* only for the reasons that are common to all, and nobody causes an effect or is
\* given a stored answer without the right in the tenant concerned.
EdgeDecidesRight ==
    /\ part = "pipeline" => Edge(Pipeline)!TypeOK /\ Edge(Pipeline)!UndeclaredHasReason
    /\ part = "rights" => Edge(Rights)!TypeOK /\ Edge(Rights)!EffectNeedsRight /\ Edge(Rights)!ReplayNeedsRight

\* What Aggregates promises: who follows the events knows the row, no sequence
\* of calls makes an unsound bundle of roles or permissions, and what counts as
\* pending can be accepted.
AggregatesStaySound ==
    /\ part = "named" => Units(Named)!TypeOK /\ Units(Named)!SubscribersKnowTheRow
    /\ part = "bundles" => Units(Bundles)!TypeOK /\ Units(Bundles)!SubscribersKnowTheRow /\ Units(Bundles)!BundlesAreSound
    /\ part \in {"endingKey", "endingInvitation"} =>
        /\ Units(Ending)!TypeOK /\ Units(Ending)!SubscribersKnowTheRow
        /\ Units(Ending)!BundlesAreSound /\ Units(Ending)!PendingIsAcceptable

\* ApiKey.revoke, Invitation.consume: what has ended stays ended, through every
\* later unit of work that did not overlap another.
EndedStaysEnded ==
    [][(part \in {"endingKey", "endingInvitation"}) => Units(Ending)!EndedStaysEnded]_<<part, aggregateVars>>

\* What Accounts promises: a person has one account and one password, what the
\* contract admits the domain accepts, and every answer passes its own schema.
AccountsStaySound ==
    /\ part = "people" =>
        /\ Book(People)!TypeOK /\ Book(People)!OneAccountPerPerson /\ Book(People)!ContractGuardsDomain
        /\ Book(People)!NoAnswerIsLost /\ Book(People)!LoginKnowsThePassword
    /\ part = "objects" => Book(Objects)!ContractGuardsDomain /\ Book(Objects)!NoAnswerIsLost
=============================================================================
