----------------------------- MODULE Migrations -----------------------------
(***************************************************************************)
(* The one ordered timeline of TypeORM migrations, the entities the code   *)
(* reads and writes the tables with, the one-shot runner that applies and  *)
(* reverts, and the deployments around it.                                 *)
(*                                                                         *)
(* A schema is what the entities rely on: for each table the columns an    *)
(* INSERT must name (NOT NULL without a default) and those it may name, the *)
(* unique keys and the other indexes.  A migration is a pair of sequences   *)
(* of statements; a statement that does not apply fails the run, which is   *)
(* one transaction.  Column types are left out.                            *)
(*                                                                         *)
(* Deployments follow docs/infrastructure/staging.md: the image of a new   *)
(* build migrates, then the services are recreated, and a rollback points  *)
(* the services to the previous build and leaves the database alone.       *)
(***************************************************************************)
EXTENDS Integers, Sequences

CONSTANTS
    Tenants,        \* the tenants that may be created
    Runners,        \* concurrent invocations of the migration runner
    Builds,         \* for each build, how many migrations it registers
    MaxReverts      \* bound: calls of migration:revert

BuildsAssumption ==
    /\ Builds \in Seq(1..16) /\ Builds # <<>>
    /\ MaxReverts \in Nat

VARIABLES
    schema,         \* the database: [table -> [must, may, keys, idx]]
    executed,       \* TypeORM's table of executed migrations, by position
    grants,         \* <<tenant, system role, permission>> rows of role_permissions
    createdBy,      \* tenant |-> the build that created it, 0: not created
    build,          \* the build the services run
    image,          \* the build whose image runs the migrations
    runner,         \* runner |-> the pending migrations it read, or none
    failed,         \* a run or a revert ended with an error
    reverts,        \* bound on the reverts
    late            \* history: tenants a build created after a backfill newer than it

vars == <<schema, executed, grants, createdBy, build, image, runner, failed,
          reverts, late>>

-----------------------------------------------------------------------------
(* Schemas and statements *)

Empty == <<>>

CreateTable(t, must, may, keys) ==
    [op |-> "create", t |-> t, must |-> must, may |-> may, keys |-> keys]
DropTable(t) == [op |-> "drop", t |-> t]
AddColumn(t, c) == [op |-> "add", t |-> t, c |-> c]
DropColumn(t, c) == [op |-> "remove", t |-> t, c |-> c]
CreateIndex(t, i) == [op |-> "index", t |-> t, i |-> i]
DropIndex(i) == [op |-> "unindex", i |-> i]
Grant(ps) == [op |-> "grant", ps |-> ps]
Revoke(ps) == [op |-> "revoke", ps |-> ps]

Columns(table) == table.must \cup table.may

\* When PostgreSQL accepts the statement.
Applies(s, st) ==
    CASE st.op = "create" -> st.t \notin DOMAIN s
      [] st.op = "drop" -> st.t \in DOMAIN s
      [] st.op = "add" -> st.t \in DOMAIN s /\ st.c \notin Columns(s[st.t])
      [] st.op = "remove" -> st.t \in DOMAIN s /\ st.c \in Columns(s[st.t])
      [] st.op = "index" -> st.t \in DOMAIN s /\ \A t \in DOMAIN s : st.i \notin s[t].idx
      [] st.op = "unindex" -> \E t \in DOMAIN s : st.i \in s[t].idx
      [] OTHER -> "role_permissions" \in DOMAIN s

Applied(s, st) ==
    CASE st.op = "create" ->
           [t \in DOMAIN s \cup {st.t} |->
              IF t = st.t THEN [must |-> st.must, may |-> st.may, keys |-> st.keys, idx |-> {}] ELSE s[t]]
      [] st.op = "drop" -> [t \in DOMAIN s \ {st.t} |-> s[t]]
      [] st.op = "add" -> [s EXCEPT ![st.t].may = @ \cup {st.c}]
      [] st.op = "remove" ->
           [s EXCEPT ![st.t] = [must |-> @.must \ {st.c}, may |-> @.may \ {st.c}, keys |-> @.keys, idx |-> @.idx]]
      [] st.op = "index" -> [s EXCEPT ![st.t].idx = @ \cup {st.i}]
      [] st.op = "unindex" -> [t \in DOMAIN s |-> [s[t] EXCEPT !.idx = @ \ {st.i}]]
      [] OTHER -> s

\* A list of statements in one transaction: the schema it leaves, or none.
Execute(s, sts) ==
    LET after[n \in 0 .. Len(sts)] ==
          IF n = 0 THEN {s}
          ELSE {Applied(x, sts[n]) : x \in {y \in after[n - 1] : Applies(y, sts[n])}}
    IN after[Len(sts)]

\* The permissions the statements of one kind are about.
PermissionsOf(sts, op) == UNION {sts[n].ps : n \in {k \in DOMAIN sts : sts[k].op = op}}

-----------------------------------------------------------------------------
(* The migrations *)

CreateUsers ==
    [up |-> <<CreateTable("users", {"id", "email", "display_name", "status"}, {},
                          {{"id"}, {"email"}})>>,
     down |-> <<DropTable("users")>>]

CreateRoles ==
    [up |-> <<CreateTable("roles", {"id", "tenant_id", "name", "is_system"}, {},
                          {{"id"}, {"tenant_id", "name"}}),
              CreateTable("role_permissions", {"role_id", "permission"}, {},
                          {{"role_id", "permission"}})>>,
     down |-> <<DropTable("role_permissions"), DropTable("roles")>>]

CreateTenantsAndMemberships ==
    [up |-> <<CreateTable("tenants", {"id", "tenant_id", "name", "status"}, {}, {{"id"}}),
              CreateIndex("tenants", "tenants.tenant_id"),
              CreateTable("memberships", {"id", "tenant_id", "user_id", "status"}, {},
                          {{"id"}, {"tenant_id", "user_id"}}),
              CreateTable("membership_roles", {"membership_id", "role_id"}, {},
                          {{"membership_id", "role_id"}})>>,
     down |-> <<DropTable("membership_roles"), DropTable("memberships"),
                DropIndex("tenants.tenant_id"), DropTable("tenants")>>]

CreateCredentials ==
    [up |-> <<CreateTable("user_local_passwords", {"user_id", "password_hash"}, {},
                          {{"user_id"}}),
              CreateTable("refresh_sessions",
                          {"id", "user_id", "family_id", "token_hash", "expires_at"},
                          {"revoked_at"}, {{"id"}, {"token_hash"}}),
              CreateIndex("refresh_sessions", "refresh_sessions.family_id"),
              CreateIndex("refresh_sessions", "refresh_sessions.user_id"),
              CreateTable("password_reset_tokens",
                          {"user_id", "token_hash", "expires_at"}, {"consumed_at"},
                          {{"user_id"}, {"token_hash"}})>>,
     down |-> <<DropTable("password_reset_tokens"), DropTable("refresh_sessions"),
                DropTable("user_local_passwords")>>]

CreateInvitations ==
    [up |-> <<CreateTable("invitations",
                          {"id", "tenant_id", "email", "token_hash", "expires_at",
                           "invited_by_user_id"},
                          {"consumed_at"}, {{"id"}, {"token_hash"}}),
              CreateIndex("invitations", "invitations.pending"),
              CreateTable("invitation_roles", {"invitation_id", "role_id"}, {},
                          {{"invitation_id", "role_id"}})>>,
     down |-> <<DropTable("invitation_roles"), DropIndex("invitations.pending"),
                DropTable("invitations")>>]

MemberPermissions == {"tenancy.members.invite", "tenancy.members.manage"}

BackfillAdminPermissions ==
    [up |-> <<Grant(MemberPermissions)>>, down |-> <<Revoke(MemberPermissions)>>]

CreateOutbox ==
    [up |-> <<CreateTable("outbox",
                          {"id", "event_type", "payload", "status", "created_at"},
                          {"tenant_id", "processed_at", "attempt_count"}, {{"id"}}),
              CreateIndex("outbox", "outbox.pending")>>,
     down |-> <<DropIndex("outbox.pending"), DropTable("outbox")>>]

AUDIT_MIGRATION_TABLES ==
    <<"users", "user_local_passwords", "refresh_sessions", "password_reset_tokens",
      "tenants", "memberships", "membership_roles", "invitations",
      "invitation_roles", "roles", "role_permissions">>

\* One column of every table, in any order: the code goes from table to table and
\* the transaction shows neither order.
AddColumns(ts, c) == [n \in 1..Len(ts) |-> AddColumn(ts[n], c)]
DropColumns(ts, c) == [n \in 1..Len(ts) |-> DropColumn(ts[n], c)]

\* Mutant: a down that leaves a column of its up behind.
AuditHalfReverted ==
    [up |-> AddColumns(AUDIT_MIGRATION_TABLES, "created_at") \o AddColumns(AUDIT_MIGRATION_TABLES, "updated_at")
              \o <<AddColumn("roles", "version"), AddColumn("memberships", "version"),
                   AddColumn("outbox", "updated_at")>>,
     down |-> <<DropColumn("memberships", "version"), DropColumn("roles", "version")>>
                \o DropColumns(AUDIT_MIGRATION_TABLES, "updated_at")
                \o DropColumns(AUDIT_MIGRATION_TABLES, "created_at")]

AddAuditAndVersionColumns ==
    [up |-> AddColumns(AUDIT_MIGRATION_TABLES, "created_at") \o AddColumns(AUDIT_MIGRATION_TABLES, "updated_at")
              \o <<AddColumn("roles", "version"), AddColumn("memberships", "version"),
                   AddColumn("outbox", "updated_at")>>,
     down |-> <<DropColumn("outbox", "updated_at"), DropColumn("memberships", "version"),
                DropColumn("roles", "version")>>
                \o DropColumns(AUDIT_MIGRATION_TABLES, "updated_at")
                \o DropColumns(AUDIT_MIGRATION_TABLES, "created_at")]

OneIndex(t, i) == [up |-> <<CreateIndex(t, i)>>, down |-> <<DropIndex(i)>>]

IndexMembershipRolesRoleId == OneIndex("membership_roles", "membership_roles.role_id")

CreateIdempotencyKeys ==
    [up |-> <<CreateTable("idempotency_keys",
                          {"id", "scope", "endpoint", "idempotency_key",
                           "request_fingerprint", "status", "expires_at",
                           "created_at", "updated_at"},
                          {"response_status", "response_body", "tenant_id", "actor_id"},
                          {{"id"}, {"scope", "endpoint", "idempotency_key"}}),
              CreateIndex("idempotency_keys", "idempotency_keys.expires_at")>>,
     down |-> <<DropIndex("idempotency_keys.expires_at"), DropTable("idempotency_keys")>>]

CreateApiKeys ==
    [up |-> <<CreateTable("api_keys",
                          {"id", "tenant_id", "created_by_user_id", "name", "prefix",
                           "secret_hash", "permissions"},
                          {"expires_at", "revoked_at", "last_used_at", "created_at",
                           "updated_at"},
                          {{"id"}, {"prefix"}, {"secret_hash"}}),
              CreateIndex("api_keys", "api_keys.tenant_id")>>,
     down |-> <<DropIndex("api_keys.tenant_id"), DropTable("api_keys")>>]

BackfillAdminApiKeysManage ==
    [up |-> <<Grant({"identity.api_keys.manage"})>>,
     down |-> <<Revoke({"identity.api_keys.manage"})>>]

IndexRefreshSessionExpiry == OneIndex("refresh_sessions", "refresh_sessions.expires_at")
IndexPasswordResetExpiry == OneIndex("password_reset_tokens", "password_reset_tokens.expires_at")
IndexInvitationExpiry == OneIndex("invitations", "invitations.expires_at")
IndexOutboxProcessing == OneIndex("outbox", "outbox.processing_updated_at")

postgresMigrations ==
    <<CreateUsers, CreateRoles, CreateTenantsAndMemberships, CreateCredentials,
      CreateInvitations, BackfillAdminPermissions, CreateOutbox,
      AddAuditAndVersionColumns, IndexMembershipRolesRoleId, CreateIdempotencyKeys,
      CreateApiKeys, BackfillAdminApiKeysManage, IndexRefreshSessionExpiry,
      IndexPasswordResetExpiry, IndexInvitationExpiry, IndexOutboxProcessing>>

-----------------------------------------------------------------------------
(* The entities: the table, the columns the code names and the keys it       *)
(* declares.                                                                 *)

Audited(t, cols, keys) ==
    [t |-> t, cols |-> cols \cup {"created_at", "updated_at"}, keys |-> keys]
Versioned(t, cols, keys) == Audited(t, cols \cup {"version"}, keys)

UserEntity == Audited("users", {"id", "email", "display_name", "status"}, {{"id"}, {"email"}})
ApiKeyEntity ==
    Audited("api_keys",
            {"id", "tenant_id", "created_by_user_id", "name", "prefix", "secret_hash",
             "permissions", "expires_at", "revoked_at", "last_used_at"},
            {{"id"}, {"prefix"}, {"secret_hash"}})
LocalPasswordEntity ==
    Audited("user_local_passwords", {"user_id", "password_hash"}, {{"user_id"}})
RefreshSessionEntity ==
    Audited("refresh_sessions",
            {"id", "user_id", "family_id", "token_hash", "expires_at", "revoked_at"},
            {{"id"}, {"token_hash"}})
PasswordResetTokenEntity ==
    Audited("password_reset_tokens",
            {"user_id", "token_hash", "expires_at", "consumed_at"},
            {{"user_id"}, {"token_hash"}})
TenantEntity == Audited("tenants", {"id", "tenant_id", "name", "status"}, {{"id"}})
MembershipEntity ==
    Versioned("memberships", {"id", "tenant_id", "user_id", "status"},
              {{"id"}, {"tenant_id", "user_id"}})
MembershipRoleEntity ==
    Audited("membership_roles", {"membership_id", "role_id"}, {{"membership_id", "role_id"}})
InvitationEntity ==
    Audited("invitations",
            {"id", "tenant_id", "email", "token_hash", "expires_at",
             "invited_by_user_id", "consumed_at"},
            {{"id"}, {"token_hash"}})
InvitationRoleEntity ==
    Audited("invitation_roles", {"invitation_id", "role_id"}, {{"invitation_id", "role_id"}})
RoleEntity ==
    Versioned("roles", {"id", "tenant_id", "name", "is_system"},
              {{"id"}, {"tenant_id", "name"}})
RolePermissionEntity ==
    Audited("role_permissions", {"role_id", "permission"}, {{"role_id", "permission"}})
OutboxEntryEntity ==
    Audited("outbox",
            {"id", "event_type", "payload", "tenant_id", "status", "processed_at",
             "attempt_count"}, {{"id"}})
IdempotencyKeyEntity ==
    Audited("idempotency_keys",
            {"id", "scope", "endpoint", "idempotency_key", "request_fingerprint",
             "status", "response_status", "response_body", "expires_at", "tenant_id",
             "actor_id"}, {{"id"}, {"scope", "endpoint", "idempotency_key"}})

postgresEntities ==
    {UserEntity, ApiKeyEntity, LocalPasswordEntity, RefreshSessionEntity,
     PasswordResetTokenEntity, TenantEntity, MembershipEntity, MembershipRoleEntity,
     InvitationEntity, InvitationRoleEntity, RoleEntity, RolePermissionEntity,
     OutboxEntryEntity, IdempotencyKeyEntity}

-----------------------------------------------------------------------------
(* The permissions of a build *)

Catalog ==
    {"tenancy.members.read", "tenancy.members.invite", "tenancy.members.manage",
     "tenancy.tenant.read", "authorization.roles.read", "authorization.roles.manage",
     "identity.users.read", "identity.api_keys.manage"}

Bundle(name) ==
    CASE name = "Owner" -> Catalog
      [] name = "Admin" -> Catalog \ {"authorization.roles.read", "authorization.roles.manage"}
      [] name = "Member" -> {"tenancy.tenant.read"}

Backfills(m) == m \in {6, 12}

\* What a backfill grants did not exist in the builds before it.
Unborn(b) ==
    (IF Builds[b] < 6 THEN MemberPermissions ELSE {})
      \cup (IF Builds[b] < 12 THEN {"identity.api_keys.manage"} ELSE {})

\* The catalog PermissionCatalog.assertKnown holds a stored permission to.
CatalogOf(b) == Catalog \ Unborn(b)

BundleOf(b, name) == Bundle(name) \ Unborn(b)

SystemRoleNames == {"Owner", "Admin", "Member"}

-----------------------------------------------------------------------------
Idle == {}

Registered(b) == 1..Builds[b]

\* The entity tables a build writes are there and take its INSERTs.
Serves(s, e) ==
    /\ e.t \in DOMAIN s
    /\ e.cols \subseteq Columns(s[e.t]) /\ s[e.t].must \subseteq e.cols
    /\ e.keys \subseteq s[e.t].keys

Init ==
    /\ schema = Empty
    /\ executed = {}
    /\ grants = {}
    /\ createdBy = [t \in Tenants |-> 0]
    /\ build = 0
    /\ image = 1
    /\ runner = [r \in Runners |-> Idle]
    /\ failed = FALSE
    /\ reverts = 0
    /\ late = {}

\* The pending migrations, each where it stands in the timeline: TypeORM sorts
\* the registered migrations by timestamp.
Migrate(s, ms) ==
    LET after[n \in 0 .. 16] ==
          IF n = 0 THEN {s}
          ELSE IF n \in ms THEN UNION {Execute(x, postgresMigrations[n].up) : x \in after[n - 1]}
          ELSE after[n - 1]
    IN after[16]

Created == {t \in Tenants : createdBy[t] # 0}

\* runMigrations(): TypeORM reads the executed migrations, then opens the
\* transaction the pending ones run in.
Open(r) ==
    /\ runner[r] = Idle
    /\ Registered(image) \ executed # {}
    /\ runner' = [runner EXCEPT ![r] = Registered(image) \ executed]
    /\ UNCHANGED <<schema, executed, grants, createdBy, build, image, failed,
                   reverts, late>>

Run(r) ==
    /\ runner[r] # Idle
    /\ \/ /\ schema' \in Migrate(schema, runner[r])
          /\ executed' = executed \cup runner[r]
          /\ grants' = grants \cup
               Created \X {"Admin"} \X UNION {PermissionsOf(postgresMigrations[m].up, "grant") : m \in runner[r]}
          /\ UNCHANGED failed
       \/ /\ Migrate(schema, runner[r]) = {}
          /\ failed' = TRUE
          /\ UNCHANGED <<schema, executed, grants>>
    /\ runner' = [runner EXCEPT ![r] = Idle]
    /\ UNCHANGED <<createdBy, build, image, reverts, late>>

\* A run whose process dies, or whose connection is lost, before COMMIT.
RunLost(r) ==
    /\ runner[r] # Idle
    /\ runner' = [runner EXCEPT ![r] = Idle]
    /\ UNCHANGED <<schema, executed, grants, createdBy, build, image, failed,
                   reverts, late>>

LastOf(ms) == CHOOSE m \in ms : \A k \in ms : k <= m

\* undoLastMigration(): the executed migration with the greatest timestamp.
\* "No migrations" is swallowed.  Nobody reverts while a run is open.  The table
\* of the tenants takes its rows with it, and roles left behind are nobody's.
Revert ==
    /\ reverts < MaxReverts
    /\ executed # {}
    /\ \A r \in Runners : runner[r] = Idle
    /\ LET undone == postgresMigrations[LastOf(executed)].down
       IN \/ /\ schema' \in Execute(schema, undone)
             /\ executed' = executed \ {LastOf(executed)}
             /\ \/ /\ "tenants" \in DOMAIN schema'
                   /\ grants' = grants \ (Tenants \X {"Admin"} \X PermissionsOf(undone, "revoke"))
                   /\ UNCHANGED <<createdBy, late>>
                \/ /\ "tenants" \notin DOMAIN schema'
                   /\ grants' = {} /\ createdBy' = [t \in Tenants |-> 0] /\ late' = {}
             /\ UNCHANGED failed
          \/ /\ Execute(schema, undone) = {}
             /\ failed' = TRUE
             /\ UNCHANGED <<schema, executed, grants, createdBy, late>>
    /\ reverts' = reverts + 1
    /\ UNCHANGED <<build, image, runner>>

-----------------------------------------------------------------------------
(* The services *)

\* The release of the next build: its image is pulled.
Release ==
    /\ image < Len(Builds)
    /\ image = build
    /\ image' = image + 1
    /\ UNCHANGED <<schema, executed, grants, createdBy, build, runner, failed,
                   reverts, late>>

\* The services of an image start.  DataSourceManager connects, migrationsRun is
\* false and nothing looks at the executed migrations.
Up ==
    /\ build # image
    /\ build' = image
    /\ UNCHANGED <<schema, executed, grants, createdBy, image, runner, failed,
                   reverts, late>>

\* The services point to the previous tag.
RollBack ==
    /\ build > 1
    /\ build' = build - 1
    /\ image' = build - 1
    /\ UNCHANGED <<schema, executed, grants, createdBy, runner, failed, reverts,
                   late>>

\* CreateTenantUseCase seeds the three system roles.
CreateTenant(t) ==
    /\ build # 0
    /\ createdBy[t] = 0
    /\ {"tenants", "roles", "role_permissions"} \subseteq DOMAIN schema
    /\ createdBy' = [createdBy EXCEPT ![t] = build]
    /\ grants' = grants \cup UNION {{t} \X {n} \X BundleOf(build, n) : n \in SystemRoleNames}
    /\ late' = IF \E m \in executed : m > Builds[build] /\ Backfills(m)
               THEN late \cup {t} ELSE late
    /\ UNCHANGED <<schema, executed, build, image, runner, failed, reverts>>

Next ==
    \/ \E r \in Runners : Open(r) \/ Run(r) \/ RunLost(r)
    \/ Revert
    \/ Release \/ Up \/ RollBack
    \/ \E t \in Tenants : CreateTenant(t)

Spec == Init /\ [][Next]_vars
-----------------------------------------------------------------------------
(* Properties *)

Timeline == {1..n : n \in 0..16}

\* Type correctness: the executed migrations are a prefix of the timeline.
TypeOK ==
    /\ DOMAIN schema \subseteq {e.t : e \in postgresEntities}
    /\ executed \in Timeline
    /\ createdBy \in [Tenants -> 0..Len(Builds)]
    /\ build \in 0..Len(Builds)
    /\ image \in 1..Len(Builds)
    /\ reverts \in 0..MaxReverts
    /\ late \subseteq Tenants

Everything == 1..16

\* Whatever ran, raced, was lost or was reverted, the database has the schema
\* the executed migrations, and only those, build from nothing: every down
\* undoes its up and a run that fails leaves nothing behind.
SchemaIsItsHistory ==
    Migrate(Empty, executed) = {schema}

\* A migrated database serves every entity of the code: each column it names is
\* there, no column needs a value it does not send, and each key it relies on
\* is unique.
EntitiesAreServed ==
    executed = Everything => \A e \in postgresEntities : Serves(schema, e)

\* With one runner at a time no run and no revert fails, from whatever prefix
\* of the timeline it starts.
NothingFails == ~failed

Holds(t, name, ps) == \A p \in ps : <<t, name, p>> \in grants

\* The backfills of AuthorizationBackfillAdmin...: once every migration ran, the
\* Admin of a tenant older than a permission holds it like one created today,
\* unless an older build created the tenant after the backfill.
BackfillsReachTheOld ==
    executed = Everything =>
        \A t \in Tenants \ late :
            createdBy[t] # 0 => Holds(t, "Admin", Bundle("Admin"))

\* system-roles.ts, of the running code: "Admin = members + tenant + users + api
\* keys".  A tenant the services of the old build create between the migration
\* and their own replacement is out of the backfill's reach.
AdminHoldsBundle ==
    executed = Everything /\ build = Len(Builds) =>
        \A t \in Tenants : createdBy[t] # 0 => Holds(t, "Admin", Bundle("Admin"))

\* docs/architecture/authorization.md, of identity.api_keys.manage: "Owner gets the
\* permission via PermissionCatalog.all; Admin is backfilled explicitly".  The
\* bundle of an Owner is stored when the tenant is created and no migration
\* touches it.
OwnerHoldsCatalog ==
    executed = Everything /\ build = Len(Builds) =>
        \A t \in Tenants : createdBy[t] # 0 => Holds(t, "Owner", Catalog)

\* docs/infrastructure/local-development.md: "schema is (re)created by TypeORM
\* migrations at app startup, not by Compose".
StartupMigrates == build # 0 => Registered(build) \subseteq executed

\* docs/infrastructure/staging.md: "roll back by pointing to the previous tag":
\* the roles in the database load under the build that runs.
RollbackLoads ==
    build # 0 /\ build = image =>
        \A g \in grants : g[3] \in CatalogOf(build)
=============================================================================
