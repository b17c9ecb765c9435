# TLA+ verification of the B2B SaaS starter kit

The repository is a modular monolith in TypeScript: a NestJS API (`apps/api`), a NestJS worker
(`apps/worker`), React front ends (`apps/web`, `apps/admin`) and packages for the domain, the use cases
and the infrastructure, over PostgreSQL, Redis and BullMQ. Most of the code maps, validates and renders.
What can go wrong in ways a test hardly reaches is where **two transactions, two processes or two
requests meet**, where one stops half-way, or where **two lists that must agree are kept apart**. This
directory models those places in TLA+, checks small instances with TLC and proves theorems about them,
for all sizes, with TLAPS.

Paths below are relative to `src/`; `pg/` stands for `packages/infrastructure/postgres/src`, `app/` for
`packages/application/src`.

## What is here

| Module | What it is | Explored by |
| --- | --- | --- |
| `EventDelivery` | abstract: what the outbox promises to a publisher | `MCOutbox` |
| `Outbox` | the transactional outbox, its relay, jobs, processor, reclaim, crashes, loss of Redis | `MCOutbox` |
| `SingleExecution` | abstract: what an idempotency key promises to callers | `MCIdempotency` |
| `Idempotency` | claim, wait, replay and complete of idempotent routes | `MCIdempotency` |
| `RefreshSessions` | login, rotation, reuse detection, logout, password change, purge | `MCRefreshSessions` |
| `PermissionCache` | effective permissions of users and keys, cached in Redis, invalidated before COMMIT | `MCIdentity`, `MCSettles` |
| `Roles` | tenants, custom roles, memberships under overlapping units of work | `MCIdentity` |
| `ApiKeys` | rename, permissions, revocation and last use of a key | `MCIdentity` |
| `Invitations` | invite, accept, attach, expiry and purge | `MCIdentity` |
| `PasswordReset` | reset tokens and the password they replace | `MCIdentity` |
| `WebSession` | browser tabs with one refresh cookie, single-flight refresh, retry after a 401 | `MCServices`, `MCSettles` |
| `RedisLock`, `RateLimiter`, `RedisPubSub` | what is kept in Redis besides the cache and the queues | `MCServices`, `MCSettles` |
| `HttpClient` | outbound calls: attempts, redirects, timers, retries | `MCServices`, `MCSettles` |
| `Processes` | boot, connections, readiness, loops and shutdown of API and worker | `MCServices`, `MCSettles` |
| `TenantScope` | the ambient tenant of asynchronous branches and the repositories that obey it | `MCEdge` |
| `ApiRoutes`, `ApiEdge` | every route with what it may answer; the interceptors in their order | `MCEdge` |
| `Aggregates` | the aggregates of the domain, their rows and their events | `MCEdge` |
| `Contracts`, `Accounts` | the schemas; users, roles and keys from request body to row and back | `MCEdge` |
| `Migrations` | the timeline of migrations, the entities, the runner and deployments | `MCTooling` |
| `CiMonitor` | the scripts that watch CI and decide what to do | `MCTooling`, `MCSettles` |
| `ImportRules`, `FolderRules`, `FileRules` | what the lint rules let a chain of imports reach, and a file declare | `MCTooling` |
| `InitProduct` | the script that renames the kit to a product | `MCTooling` |
| `OutboxProofs`, `IdempotencyProofs` | theorems about the outbox and the idempotency keys | |
| `RefreshSessionsProofs` | theorems about refresh sessions, and of the three parts of their run | |
| `PermissionCacheProofs` | theorems about the permission cache | |
| `IdentityProofs` | theorems about the cache's instances, `Roles`, `ApiKeys`, `Invitations`, `PasswordReset` | |
| `ServicesProofs` | theorems about `RedisLock`, `RateLimiter`, `RedisPubSub`, `HttpClient`, `WebSession`, `Processes` | |
| `EdgeProofs` | theorems about `TenantScope`, `ApiRoutes`, `ApiEdge`, `Aggregates`, `Accounts` | |
| `ToolingProofs` | theorems about `Migrations`, `CiMonitor`, `ImportRules`, `FolderRules`, `FileRules` | |

`PROJECT.json` lists, for machines, the components, the runs with their properties, the mutants that
show each property can fail, the source lines each definition stands for, findings, hazards and theorems.
A mutant stands right before the definition it replaces and says which slip of the code it is.

To check: `tlc -config Identity.cfg MCIdentity.tla` (and likewise), `tlapm OutboxProofs.tla` (and likewise for the
eight modules of theorems; `ToolingProofs` takes the longest, about fifteen minutes, `EdgeProofs` nine).

## Inventory

For each component: its **state**, its **operations**, **who** it meets, what is **hard**, and what
makes it **correct**.

### Transactional outbox (`Outbox`)
- State: `outbox` rows (status, updated_at); BullMQ jobs in Redis, one id per row; the relay loop and the
  processor of each worker; the schedule of the maintenance jobs, in Redis.
- Operations: `PostgresEventPublisher.publish`; `OutboxRelay.claimBatch / findById / complete / fail /
  reclaimStaleProcessing`; `OutboxRelayService.#tick`; `OutboxEventProcessorService.#process`;
  `JobScheduler.addOutboxJob`; `MaintenanceScheduler.onModuleInit`.
- Meets: every use case that publishes, in its own unit of work; the in-process event bus.
- Hard: several relays claim at once; claim and enqueue are not atomic; a job outlives, or does not
  outlive, its row's claim; stalls and lost locks run one job twice; stale reclaim races live deliveries.
- Correct: nothing uncommitted is dispatched; every committed event is delivered at least once or given
  up after its attempts; both ends are final.

### Maintenance queue (in the components it cleans)
- State: repeatable jobs in Redis. Operations: four handlers, re-added while full batches are found.
- Hard: overlap with live use of the rows it deletes or resets. Correct: deletes only what nobody needs.
- `ReclaimStaleProcessing` of `Outbox`; `Purge` of `RefreshSessions`, `Invitations` and `PasswordReset`.

### HTTP idempotency (`Idempotency`)
- State: `idempotency_keys`, unique on (scope, endpoint, key).
- Operations: `IdempotencyInterceptor.handleMarkedRoute`; `PostgresIdempotencyStore.claim / complete`.
- Meets: every `@Idempotent()` controller, whose use case joins the interceptor's transaction.
- Hard: concurrent duplicates, lock time-outs, rollbacks, lost responses, tokens changing between tries.
- Correct: one execution per key; replays are that execution's response; failures free the key.

### Refresh sessions (`RefreshSessions`)
- State: `refresh_sessions` (family, expiry, revoked_at). Operations: login, rotate-refresh, logout,
  set-or-change-password, the purge. Meets: the API's cookie and token routes; the web client's refresh.
- Hard: no lock and no version on a session; `UPDATE ... WHERE` does not see rows inserted meanwhile; the
  purge takes away what reuse detection looks for.
- Correct: an old token and its successor are never both usable; a revoked session stays dead; nothing
  usable survives logout, reuse or password change.

### Passwords and their reset (`PasswordReset`)
- State: `local_passwords`, `password_reset_tokens` (one row per user). Operations:
  request-password-reset, reset-password, set-or-change-password, the purge.
- Hard: `save()` is a SELECT and an UPDATE; the mail leaves before COMMIT; two resets with one token.
- Correct: a token resets once, the latest one works, and only its owner replaces a password.

### Authorization and its permission cache (`PermissionCache`)
- State: effective permissions per (user, tenant) and per API key in Redis, 60 s TTL.
- Operations: `getEffectivePermissions`, `getApiKeyPermissions`, `invalidate*`.
- Meets: every use case that changes roles, memberships or keys; it invalidates inside its transaction.
- Hard: delete before COMMIT, read-load-store races, a resolution in two statements.
- Correct: a lost permission is granted for a bounded time only, and then no more.

### Tenants, memberships and custom roles (`Roles`)
- State: tenants, memberships with role ids, custom roles, versions of aggregates. Operations:
  create-tenant, attach-member, replace-membership-roles, create-, update-, delete-custom-role.
- Hard: a role deleted while it is assigned; saves that take the version they have just read.
  Correct: no assignment of a missing role, no lost update. That a tenant keeps its Owner is checked with them, but
  nothing races for it: the Owner role cannot be assigned and each tenant gets one at its creation.

### Invitations (`Invitations`)
- State: invitations (status, token hash, role ids, expiry). Operations: invite, accept, attach, purge.
- Hard: double accept, invite against invite, mail before COMMIT, roles deleted meanwhile.
- Correct: one pending invitation per address, one membership per invitation, none after its end.

### API keys (`ApiKeys`)
- State: keys (permissions, revoked_at, last_used_at, expiry). Operations: create, update, revoke,
  resolve, touch. Hard: units of work that save what they loaded; the use that is recorded meanwhile.
- Correct: a revoked key stays revoked; one record of use per window.

### Tenant context and tenant-scoped repositories (`TenantScope`)
- State: an AsyncLocalStorage store per asynchronous branch. Operations: `run`, `withoutTenantScope`,
  finds and saves of `TenantAwareRepository`, `AuthPrincipalInterceptor`, the worker's dispatch.
- Hard: nesting, branches that outlive the scope they started in. Correct: no row of another tenant is
  read or written outside the hatch.

### Redis lock, rate limiter, pub/sub (`RedisLock`, `RateLimiter`, `RedisPubSub`)
- State: lease keys, window counters, listeners and channel subscriptions. Operations: acquire, release,
  consume, publish, subscribe, unsubscribe.
- Hard: answers lost after the command ran, commands sent again, leases that end under their holder,
  window borders, one connection shared by all subscribers.
- Correct: only the holder releases; the burst is bounded; a subscriber hears until it leaves.

### Outbound HTTP client (`HttpClient`)
- State: one call: its attempt, hop and timers. Operations: `request`, `#dispatch`, redirect, retry, abort.
- Hard: a time-out racing an answer; a write executed whose answer is lost. Correct: time, attempts and
  hops are bounded; a write is repeated only if the caller allowed it.

### Front-end session core (`WebSession`)
- State: access token per tab, a single-flight promise, the cookie all tabs share. Operations:
  `baseQuery`, `WebAccessTokenRefresh.run`, `restoreWebSession`, login. Meets: refresh sessions.
- Hard: several tabs on one cookie, lost responses. Correct: a call executes once; every call settles;
  a session is not taken for stolen without cause.

### HTTP edge and accounts (`ApiRoutes`, `ApiEdge`, `Contracts`, `Accounts`)
- State: per request what each interceptor decided; rows of users, secrets, roles, members, keys.
- Operations: all routes; limiter, principal, permission, idempotency, validation, handler, serializer,
  exception filter; registration and login from every form of an address.
- Hard: the order of the interceptors; statuses declared far from where they arise; an output schema that
  is checked after the commit; rules that are stated both by contract and by domain.
- Correct: no effect and no replay without the right; what the contract admits the domain admits; a stored
  answer can always be given; one account per person.

### Domain aggregates (`Aggregates`)
- State: the aggregates, their rows, their recorded events. Operations: every public method, the mappers.
- Hard: sequences of legal calls; an event that tells less than the row. Correct: who follows the events
  knows the row; what ended stays ended; bundles of roles and permissions are sound.

### Persistence (`Migrations`)
- State: the schema, the executed migrations, the build that runs, what tenants have been granted.
- Operations: `run` and `revert` of the runner, 16 pairs of `up` and `down`, release, rollback, creation
  of a tenant by an older build. Hard: two runners, backfills against live tenants, a `down` that undoes
  half. Correct: the schema is its history; entities are served; backfills reach who was there.

### Processes (`Processes`)
- State: phase, Redis client and pool of each process, the relay's drain, the two queue consumers.
- Operations: boot, module hooks, reconnection, `/live`, `/ready`, SIGTERM. Hard: outages at any moment, a
  shutdown while jobs run. Correct: no job runs without its pool; boots and shutdowns end.

### Tools (`CiMonitor`, `ImportRules`, `FolderRules`, `FileRules`, `InitProduct`)
- The CI monitor keeps budgets between polls of a pipeline that moves on, and compares what it sees with what the
  poll before saw; the lint rules accept imports
  one by one, and what matters is what chains of them reach; the product script rewrites file after file
  and can be interrupted.
- Correct: budgets hold; layers, contexts and adapters stay apart; a completed rename is whole.

### Not modelled
- **Mail adapters, file storage**: one request without state; a stub that nothing calls yet.
- **Configuration, logging, telemetry, ids, hashing**: parsed once, or wrappers of libraries.
- **Shared utilities**: pure helpers; where a model relies on one it states what it computes there.
- **User interfaces and hosts** (web, admin, desktop, mobile): rendering, routing, forms.
- **Git hooks, build configuration**: one-shot checks and settings.
- Of modelled components: cookies, CORS, static files and the request context of the edge; the OpenAPI
  documents beyond the statuses they list; contracts of operations that are not in `Accounts`; ports of
  the front end to the browser; `onModuleDestroy` of the pub/sub adapter; lint rules on style; column types.

## The models

### Outbox
One action per statement that another process can see the effect of. A use case is `Publish`, then
`Commit` or `Rollback`. The relay is `SelectPending` (`SELECT ... FOR UPDATE SKIP LOCKED`), `ClaimBatch`
(the `UPDATE` and its commit) and one `Enqueue` per row; `ClaimThrows` and `EnqueueThrows` are what
`#drainSafely` logs. The processor is `Take`, `FindById`, `Dispatch`, `Complete` or `RecordFailure`, then
`JobReturned` or `JobThrew`; each has the form that throws. The processor's catch block is `Catch`,
shared by all that end in it. `GrowStale` and `ReclaimStaleProcessing` are maintenance. BullMQ is modelled
from what the code configures: a job id is taken while a job of that id is waiting, active, or retained
(`Evict` ends the retention: BullMQ applies it when another job of the queue finishes), attempts, stalled-job recovery and lost locks. `RedisLoss` empties Redis,
the schedule of the maintenance jobs included; `Crash` stops and restarts a worker, which registers the
schedule again. Handlers of one event are one step that returns or throws: the bus runs them in order
and the first error ends the call. `deliveries` and `throws` are history.

### Idempotency
`tx[r]` is the transaction of request `r`. The unique index is modelled by what PostgreSQL does with
`INSERT ... ON CONFLICT DO NOTHING`: it waits for an uncommitted row of the same slot (`Blocked`), takes
the slot if there is none (`ClaimAcquired`), inserts nothing if the row is committed (`ClaimConflicts`),
and `lock_timeout` may end the wait (`ClaimTimesOut`). `FindExisting` is `existingClaim`. The claim, the
handler's writes and the completion become visible together (`Durable`) or not at all (`Undo`); the
response can be lost after the commit. A row names the request whose fingerprint and response it holds;
endpoint and key are one value `Key`, because all marked routes are collection routes without path
parameters. The scope of a request is taken from the token it arrives with; `SwitchToken` is a refresh or a
tenant selection. The handler is a step that succeeds or throws; everything it writes is in `effects`.

### RefreshSessions
One user. Tokens are numbered in the order of issue. A request is one transaction at a time: it reads,
writes, commits. `SaveReloads`/`SaveWrites` are TypeORM's `save()`, which looks the row up again and
updates it, updates nothing if it was deleted in between, or inserts it again. `UpdateStarts` is the
snapshot of the `UPDATE` of `revokeFamily`/`revokeAllForUser`, `UpdateWrites` its effect once the row locks
are free; rows inserted after the snapshot are not touched. Commit makes writes visible. `Purge` is the
hourly `deleteExpiredOrRevoked`, oldest first. `known` are tokens whose response arrived: only those are
presented, by whoever has them. `ended`, `reused` and `survivors` are history. Row locks of one statement
are taken together, so deadlocks between two multi-row updates, which PostgreSQL breaks by failing one
(`Fails`), do not show as waiting.

### PermissionCache
`fill` is a check that missed: `Miss`, the read of the role ids, the read of the roles (two statements,
outside any transaction), the write to Redis, each a step of `FillStep`. `tx` is a unit of work that changes a
membership, a role or a key: it writes, collects the keys to delete, deletes them one by one, commits
(`WriteStep`); so an entry is deleted before the tables change for others. A check of what is cached changes
nothing and has no action. `gone` counts, for every fact of the tables that no longer holds, how long ago it
held; the bound on staleness is stated with it. `Expire`: a key's expiry deletes no entry.

### Roles, Invitations, ApiKeys, PasswordReset
All four model the statements of overlapping units of work at READ COMMITTED: a read, the checks in the order
of the use case, then the write, which waits for a row lock or for an uncommitted row of the same unique key,
then `Commit`, which makes it visible, or `Fails`. What an aggregate was loaded with is kept in the unit of
work and written back by its save. In `Roles` that is the whole row with the version of the row just locked
(`ChildCollectionWriter`); in `ApiKeys` and `PasswordReset`, TypeORM's `save()`: it reads the row again
(`Compare`, `CompareToken`, `ComparePassword`) and writes the columns that differ from the aggregate.
`Invitations` and `PasswordReset` mail inside the unit of work. `ApiKeys` records the last use of a key outside
any unit of work, by one conditional UPDATE. Where a use case refuses, the unit of work ends without effect.
Permissions are enforced elsewhere: whoever starts a unit of work may.

### WebSession
Per tab the access token and the refresh in flight, per browser the cookie, on the server rows and families
of refresh tokens. `Send` is a query, `Answer` or `Refused` the server's answer; a refusal joins or starts a
refresh (`Run`); `Rotate` is the server's part of it, `RefreshAnswered` and `RefreshLost` what comes back. The races of two
rotations inside the server are left to `RefreshSessions`: here a rotation is one step.

### RedisLock, RateLimiter, RedisPubSub
A command is sent, evaluated by Redis and answered in separate steps; an answer may be lost, and the command
client then sends the command once more (`Resend`, `ConsumeAgain`). `RedisLock`: the key holds a token and a
TTL; `Granted` is when a client learns it has the lock. `RateLimiter`: the script's counter, and time in
quarters of a second, because Redis rounds TTL to seconds. `RedisPubSub`: the listeners of one process, the
channels of their shared connection, and messages under way; `Drop` and `Reconnect` are ioredis's.

### HttpClient
One call: `Dispatch` sets the hop's timer and sends; the peer may `Receive` (and execute) it, answer, redirect,
break off or stay silent; `Timeout` and `CallerStops` are the two signals joined to a fetch; `Backoff` begins
the next attempt. `req` ranges over all combinations of method, idempotency key and policies.

### Processes
Servers fail and return; a process boots in the order of Nest's hooks, keeps an ioredis client with a count of
retries and a pool, and leaves by a signal or a crash; Compose starts it again. The worker's relay loop and
its two queue consumers have their own steps, so that a shutdown meets them anywhere.

### TenantScope
A chain is an asynchronous branch with a stack of stores. `Handle` is a request at the edge, `DispatchEvent` an
event in the worker, `Branch` concurrent work a handler starts, `Hatch`/`LeaveHatch` `withoutTenantScope`,
`Find`, `Save` and `FindByUserAndTenant` the repositories.

### ApiRoutes and ApiEdge
`ApiRoutes` is a table: for each route its access, whether it is limited or idempotent, where it takes its tenant
from, the codes its operation can end with, and the statuses its document declares. `ApiEdge` takes a request
through the interceptors in the order `CommonModule` registers them; what an interceptor relies on enters as a
decision. `Regrant` changes what callers may do while a request is under way.

### Aggregates
A method is an operator from an aggregate to the set of its outcomes, empty when it throws. A unit of work makes
or loads an aggregate, calls methods, pulls the events and commits row and events together. `told` is what a
subscriber to all events knows. Rows and child rows are what the mappers make of the aggregate. Where the code
walks a list, the model does so with a recursive function (`Among`, `AsList`, `Learn`), which can be reasoned about.

### Contracts and Accounts
A scalar is a pair of its lexical class and what it stands for, so that ` A@B.co` and `a@b.co` are one address
in two forms. A schema says which classes a field may hold and what it transforms. An operation of `Accounts` is
the whole path: schema, mapper, use case with the domain's guards, rows, query, output schema. `refused`
collects domain errors behind a valid contract, `lost` answers that fail their own schema after the commit.
Creating a user takes two steps, `findByEmail` and the INSERT.

### Migrations
A schema is what entities rely on: tables with their columns, the columns an INSERT must name, keys, indexes. A
migration is a pair of statement lists; a statement that does not apply fails the run, which is one transaction.
`Open` reads the executed migrations, `Run` executes the pending ones, `RunLost` dies before COMMIT, `Revert` undoes
the last one and, when that drops the tenants, their rows. `Release`, `Up` and `RollBack` are the deployments of
`docs/infrastructure/staging.md`. A schema is a function on its tables, a list of statements and a run of pending
migrations are recursive functions to the set of schemas they may leave: empty when one fails.

### CiMonitor
`Poll` is one call of `ci-poll-decide.mjs` with what the orchestrator keeps of it, `Act` a flow with its gate, its
action and `ci-state-update.mjs`; CI moves on (`CiProgress`, `CiStarts`, `HumanPush`) between them. Time is in
units of 30 seconds. `Seen` is what CI wrote, as the orchestrator hands it to the next poll; `Lower` is the script's
`toLowerCase` of the classification, which `hasStateChanged` applies to what is seen now and not to what was seen
before. `BreakerBypassed` names the two ways in which a poll without news looks like progress: a tracked attempt,
and a classification in upper case. `StandstillSpendsTimeout` and `StopsAtTimeout` bound what is left then.

### ImportRules, FolderRules, FileRules
The state is a chain of imports (or a file's statements) that the rules accepted so far; the one action adds an
import (a statement) that the rules accept. Every reachable state is so a structure the linter lets through. The
rules of the plugin for contexts and slices visit `ImportDeclaration` nodes only, so the imports of `FolderRules` are
static and relative; what an `import()` reaches is not theirs to say.

### InitProduct
A text is a sequence of words, so that one identity can contain another. `ConsumeArg` parses one argument, `Plan`
refuses or plans, `RewriteFile` rewrites one file, `Interrupt` kills the process between two, `Revert` is the way
out the refusal names.

## The runs

Components that share no state are explored **side by side**: a composed MC module has the variables of all its
components, and `part` names the one that takes steps while the others rest in an initial state. The state space
is the sum of theirs, not the product, and a property says for each part what its component promises. Each
component keeps its own module, and its own properties under their own names.

| Run | Instances | Shows | Size |
| --- | --- | --- | --- |
| `outbox_safety` | 2 workers, 2 rows (one poisoned), 2 attempts, 1 stall, 3 faults | at least once, atomic publication, failed only after all attempts, final ends; duplicates only after a fault | 750,000 states |
| `outbox_live` | 1 worker, 2 rows, 2 faults, fairness | every event ends unless the schedule stays lost or a finished job of its row is kept for ever, and always without faults; `EventDelivery` is implemented | |
| `idempotency` | 4 requests (3 on one key, one of them another body), 2 faults, 1 change of token, fairness | one execution, own result, no stuck key, `SingleExecution` implemented, all are answered | 78,000 states |
| `refresh` | one instance in three parts: 2 requests at a time on 3 tokens; with a password change on 2; 1 at a time on 3 | lineage, no resurrection, survivors overlapped, serial families | 1.5 million states |
| `identity` | cache of users, of 2 users with 2 writes, of a key; roles; keys; their use; invitations; resets; 2 units of work each | `GrantsAreFresh`, `RolesStaySound`, `KeysStaySound`, `InvitationsStaySound`, `ResetsStaySound` | 1.3 million states |
| `services` | lock (2 clients), limiter, pub/sub (3 subscribers), HTTP client, 2 tabs, API and worker | `LocksAreKept`, `LimitsAreKept`, `SubscriptionsAreKept`, `CallsStayWithinBounds`, `SessionsAreKept`, `ShutdownIsOrdered` | 0.9 million states |
| `edge` | 3 branches, 2 tenants; all routes; 2 requests on one; 6 kinds of aggregates; people; roles and keys | `ScopesStayApart`, `EdgeDecidesRight`, `AggregatesStaySound`, `EndedStaysEnded`, `AccountsStaySound` | 0.65 million states |
| `tooling` | 16 migrations in 3 builds; 2 runners at once; 8 answers of CI; all chains of 5 imports; files of 4 statements; 3 runs of the script; all command lines of 4 arguments | `MigrationsStaySound`, `MonitorKeepsItsLimits`, `RulesKeepTheArchitecture`, `ProductIsRenamedWhole` | 1.3 million states |
| `settles` | cache, lock, limiter, HTTP client, one tab, worker, CI monitor, fairness | `EverythingSettles`: each comes to its end | |
| `outbox_redis_loss` | 1 worker, 1 row, 1 fault, fairness | **violated**: jobs lost with Redis are not recovered | |
| `idempotency_retry` | as `idempotency`, 1 fault, 1 change of token | **violated**: a retry under another scope executes again | |
| `api_key_revived` | as `identity` | **violated**: a revoked key becomes usable again | |

Deadlock is not checked: in each bounded instance all rows, requests, tokens or runs are used up in the end.

**Bounds.** `MaxFaults` bounds errors, crashes, losses and time-outs that code does not force.
- `Outbox`: three faults are enough for a reclaim that overlaps a lock loss that overlaps a crash. Two rows and
  `ReclaimLimit = 1` make batches split; `MaxAttempts = 2` has a first, a last and a retried attempt; one poisoned
  row exhausts them. Two workers are enough for a claim or an execution to race another one.
- `Idempotency`: four requests hold an executor, a waiter, a mismatch and an unrelated key.
- `RefreshSessions`: the parts are named by `part` in `MCRefreshSessions`, which leaves out the steps a part does not
  have (`WithinPart`); one change of the password (`MaxChanges`) has a before and an after. Three tokens hold a fork (one token rotated twice) and a line of two rotations; two requests
  hold every pair of overlapping operations. `BatchSize = 1` makes the purge leave rows behind.
- `identity`: two units of work hold every overlap of two, and a third that starts after one of them
  (`MaxRoleUnits = 3`). The key's two parts are bounded by the guard of their step in `MCIdentity`: two seconds of
  the clock where units of work overlap, one unit of work where uses do. TTL 2 and a fill of up to 1 tick let an entry be written late, expire, and be stale
  in between. Two invitations are one and its successor; two tokens, three passwords are a used token, a new one
  and a change between them. The clock runs past every expiry.
- `services`: three acquisitions per lock client are a lapsed holder, its successor and its return; a limit of 2 in
  2 seconds meets both ends of a window; three subscribers on two channels leave one without peers; two retries
  and two redirects multiply; four calls of two tabs hold a refusal, a refresh and a retry in each; two outages
  or crashes meet a boot and a shutdown.
- `edge`: three branches nest to depth 3; two tenants are one's own and another's; every route is asked once with
  every caller; a unit of work calls three methods, or two units of work share two calls. `Edge(i)` is one instance of
  `ApiEdge` for each record `i`: `Pipeline` has all routes, one request and one fault, `Rights` has
  `createCustomRole`, two requests and one change of rights. `Ending` has two units of work on one key (one call) or
  one invitation (two calls). `Units(i)` are the instances of `Aggregates` (`Named`, `Bundles`, `Ending`), `Book(i)` those of
  `Accounts` (`People`, `Objects`). In `Accounts` every field takes every lexical class its schema tells apart.
- `tooling`: `Deploy(i)` are the instances of `Migrations`. `Rollout` has three builds, which put a backfill into the
  second and the third, and two reverts, which from the first build's four migrations reach the one that drops the
  tenants; `Race` has two runners and two builds. Chains of five
  imports cross all layers; the caps of the monitor are cut down to 3 polls, 1 rerun, 2 cycles, which keeps their
  order; 12 units of time hold a standstill of 3 polls and more, counted or bypassed.

**Fairness.**
- `Outbox`: the relay's interval timer, BullMQ's worker loop, its stalled-job check and scheduled maintenance recur
  as long as a worker process lives, so each is weakly fair; a crash is followed by a restart. Maintenance runs
  only while Redis holds its schedule. The reclaim takes the oldest rows first (`ORDER BY updated_at`), so its
  fairness is per row: each stale row has its turn. `Evict` has no fairness: BullMQ applies the retention when a
  later job of the queue finishes, and on an idle queue none does. `EverySettles` says what that leaves: a row ends, or
  from some moment on has a finished job of its own that is never evicted; and without a fault every row ends.
- `Idempotency`: a request that has started goes on, as Node runs it; a lock time-out is not forced, so the answer
  does not depend on it.
- `settles`: Redis's clock runs (cache, lock, limiter); a check and a unit of work that have begun go on (cache);
  Node fires timers and resumes continuations, while the peer of a call owes nothing (HTTP client); a fetch of a
  page is answered or fails (web); boot, shutdown, reconnection and the loops of the worker go on (Processes:
  Compose restarts, ioredis retries); the orchestrator goes on polling (CI monitor). `SettlesSpec` states the same
  as the `FairSpec` of each module, for the part that runs.

Nothing that fails is fair: faults may never happen and run out. `RefreshSessions`, the aggregates, the edge, the
migrations and the tools without a loop have no liveness property: nothing in them has to happen.

## What the checks found

Three runs state what a doc, a comment or a test says and show how the code departs from it:

1. `outbox_redis_loss`. The docs say lost jobs are recovered by the reclaim of stale rows. The reclaim is
   a repeatable BullMQ job whose schedule lives in the same Redis and is registered only when a worker
   boots. After a Redis restart under running workers nothing reclaims until a worker is restarted.
2. `idempotency_retry`. A key's scope is the tenant of the access token, or the actor without one. On
   `POST /v1/tenants` both kinds of token are accepted, and a refresh drops the tenant: the retry is
   another key and the tenant is created twice.
3. `api_key_revived`. The repository saves a key as it was loaded. A rename that loaded the key before its
   revocation committed writes `revoked_at` back to NULL; the key is accepted again.

### Further disagreements
These properties stand in the modules with the words they take from the repository. TLC finds each of them
violated when it is checked alone; no listed run checks them, and what does hold in their place is in the runs.

| Property | The source says | The code does |
| --- | --- | --- |
| `Outbox!ClaimedRowGetsJob` | the relay claims and enqueues | `add()` under a retained job id has no effect; the row waits for the eviction |
| `Outbox!ReclaimedRowSettles` | lost jobs are recovered by reclaiming stale rows | a job that found its row pending completes without a dispatch and is retained; on a queue without later jobs it is never evicted, and the row is claimed and reclaimed for ever |
| `RefreshSessions!ReuseEndsFamily` | reuse of a revoked token revokes the family | the purge deletes revoked rows, whose reuse is then not seen |
| `RefreshSessions!EndedIsDead`, two requests | logout revokes the family | a rotation's successor that commits during the UPDATE survives |
| `PermissionCache!OnlyEverEffective` | permissions are the union over the roles | role ids and roles are read at two moments; a mix may be granted |
| `Roles!HeldRolesExist` | deletes an unused custom role | holders are counted without a lock and there is no foreign key |
| `Roles!NoLostUpdate` | a version mismatch surfaces as an error | the version is copied from the row just locked |
| `Invitations!JoinedRolesExist` | deletes an unused custom role | a pending invitation does not count as use |
| `PasswordReset!TokenUsedOnce` | already used tokens are refused | the token is read without a lock |
| `PasswordReset!ReplacedByItsOwner` | replaces it when currentPassword matches | the match is against what was loaded earlier |
| `PasswordReset!MailedIsPersisted` | persists the token and sends it | a purge between SELECT and UPDATE: the UPDATE matches no row |
| `WebSession!RetryIsAuthorized` | the refreshed request is retried | the refreshed token has no tenant claim, tenant routes refuse it |
| `RateLimiter!RetryAfterIsTheTtl` | uses TTL as retry-after | a TTL that rounds to 0 is taken for a missing one |
| `RedisPubSub!EverySubscriberHears` | fan-out to subscribers | one unsubscribe ends the channel for all of the process |
| `HttpClient!TimeoutIsOverall` | overall request deadline | every hop of every attempt has a new timer |
| `HttpClient!NetworkErrorMeansUnreached` | peer cannot be reached | a body that is not JSON is reported so |
| `Processes!ReadyWhenAllUp` | 200 when all are up | after twenty refusals the client gives up for good |
| `ApiEdge!AnswerIsDeclared` | documents list the errors | e.g. 409 of a revoked key's update is not listed |
| `ApiEdge!FailureIsServerError` | unknown errors become 500 | a driver error has a string code and becomes 409 |
| `ApiEdge!MemberSelectsTenant` | a token for an active membership | with a token of one tenant, selecting another is refused |
| `Accounts!SeederIsIdempotent` | idempotent local user | two replicas race, the unique key ends one boot |
| `Migrations!AdminHoldsBundle`, `OwnerHoldsCatalog` | bundles of the system roles | backfills miss late tenants, and the Owner |
| `Migrations!RollbackLoads` | roll back to the previous tag | the old build refuses the permission that was backfilled |
| `Migrations!StartupMigrates` | schema created at startup | `migrationsRun` is false |
| `CiMonitor!BreakerTrips` | no progress after 13 polls (`ci-poll-decide.mjs`; 5 in `SKILL.md`): stop | `failureClassification` is compared in lower case (line 97) with the raw one of the poll before (line 131, `SKILL.md:207`): with `FLAKY_TASK` every poll counts as progress; so does every poll of an attempt that is still tracked |
| `CiMonitor!RerunsWithinCap` | reruns are capped at 2 | a new attempt resets the count |
| `CiMonitor!TimeoutIsTotal`, two answers unparsed, 5 polls to the breaker | a total budget | an answer that does not parse is handled before any budget is looked at |
| `CiMonitor!ApplyReadyIsVerified`, with a verification in progress among the answers | verified, ready to apply | a fix that does not apply itself is ready while its verification runs |
| `ImportRules!SharedStaysPure`, `DomainImportsOnlySharedTypes` | shared packages and domain are pure | npm packages the lists leave out are accepted |
| `FolderRules!NoWayRoundTheRule` | contexts interact only through the sanctioned ways | a file outside every context is a way round |
| `FileRules!NoMixedDeclarations` | no mix in one file | destructured constants are not collected |
| `InitProduct!CompletedRunRenames`, for names that contain a kit name | safe, longest-first replacements | a replacement rewrites the result of an earlier one |

## The proofs

Theorems are about the modules themselves, for every value of the constants that satisfies the named assumptions,
and, where a run composes several modules, also about the run's own property (`RolesStaySound`, ...). The
assumptions say what the code guarantees, or what makes a bound a bound, and TLC evaluates them on every run:

| Assumptions | What they say | Why |
| --- | --- | --- |
| `BoundAssumption`, `SizeAssumption`, `TimeAssumption`, and those named after their module | limits, sizes, lifetimes and bounds of the exploration are natural numbers; batches, attempts, TTLs and windows are positive | they are parsed as positive integers, or are literals |
| `RequestAssumption`, `WorkerAssumption`, `TenantScopeAssumption`, `EdgeAssumption`, `IdAssumption` | the null value is not one of the values it stands beside; keys and bodies are functions of requests; routes are routes of the table | `NULL` is no id; a request has one key and one body |
| `SubjectAssumption`, `OwnerAssumption`, `RoleAssumption` | users, keys and roles are different things, there is one to ask about; the founder is a person; custom roles have neither ids nor names of system roles; the catalog is not empty | they are UUIDs of different tables; `ReservedRoleNameError` |
| `ProcAssumption`, `TabAssumption` | processes, tabs and requests are finitely many | a running system has finitely many |
| `AggregatesAssumption`, `AccountsAssumption` | the catalog is a list that has the permission to manage keys and others beside it; the seeded user is a person | `PermissionCatalog.all`; the seeder's `dev@example.com` |
| `CiMonitorAssumption`, `FolderRulesAssumption` | the breaker needs at least one poll without progress; no context or resource has the name of a shared folder | the cap is the literal 13; a folder is shared by its name (`shared-kernel`, `shared`, `common`) |
| `BuildsAssumption` | there is a build, and each registers a prefix of the timeline that is not empty | `postgresMigrations` only grows |
| `UnitsAssumption`, `BookAssumption`, `DeployAssumption`, `RunnersAssumption` and the like | the instances of a run satisfy the assumptions of their module; `Runners` are one at a time | the MC modules choose them |

A proof has an invariant in parts, named for what they say, one lemma for each kind of step, and theorems that
draw from the invariant what matters. What the invariants add to the properties is where the argument is:

**`OutboxProofs`.** `IInv == TypeInv /\ RowInv /\ DispatchInv /\ RetryInv /\ CleanInv` is inductive.
- `TypeInv` adds to `TypeOK` that a job that may still run has attempts and stalls left; without it the
  counters could leave their ranges.
- `RowInv`: a selected batch holds pending rows and no two batches share one (the row locks); a row is
  visible exactly when its transaction committed. Without it a claim could revive a final row.
- `DispatchInv`: a call that is dispatching has a committed row, one that is completing has delivered it.
- `RetryInv`: the attempts a job has made never exceed the throws counted for its row, and a call that is
  about to record a failure follows as many throws as there are attempts. It relates the job, the running
  call (also one that lost its lock) and the row.
- `CleanInv`: until the first fault every row that is not poisoned is in one place, a batch, a job or a call, and
  only in the place its status says. This is why a duplicate needs a fault: a second place appears only when a
  row grows stale, a lock is lost or a statement fails.

From it follow `OutboxTypeCorrect`, `OutboxAtLeastOnce`, `OutboxAtomicPublication`,
`OutboxFailedWasRetried`, `OutboxDuplicateNeedsFault`, `OutboxFinalStatus`, and
step by step `OutboxImplementsDelivery`: every action is `Publish`, `Handle`, `Settle` or `GiveUp` of some rows, or invisible to `EventDelivery`.

**`IdempotencyProofs`.** `IInv == TypeOK /\ TableInv /\ EffectsInv /\ HolderInv /\ ReaderInv /\ AnswerInv`.
A committed row is completed and belongs to a committed execution (`TableInv`), which holds its slot for
ever (`EffectsInv`); whoever holds an uncommitted claim is alone with a free slot (`HolderInv`: exclusion
alone is not inductive, the slot must be known to be free when it commits); a reader's row cannot change
any more (`ReaderInv`); answers come from committed executions (`AnswerInv`). The steps are of two kinds,
`LocalStep` for those that write nothing and `DurableStep` for the commits. From `IInv` follow
`IdempotencyTypeCorrect`, `IdempotencyExecutedOnce`, `IdempotencyResultIsOwn`, `IdempotencyNoStuckKey` and
the refinement `IdempotencyImplementsSingle`.

**`RefreshSessionsProofs`.** The table has no lock and no version, so the invariant speaks of
what an open transaction still knows of the rows it read. `LineageInv`: a token is younger than the one it was
rotated from, and only issued tokens are known or ended. `CapacityInv`: whoever is about to issue has a token left.
`RotateInv`: a rotation that is about to commit revokes its own token, or finds it unusable already; it takes its
parent with it whatever others did meanwhile. `EndInv`: what ends sessions has found every usable one it concerns
that was issued before it looked; only younger ones can be missed. `LateInv`: a rotation or a login whose family or
password was ended since it began knows that it is late, and what it issues is a survivor. From these follow
`LineageIsExclusive`, `SurvivorsAreOverlapped` and `NothingIsResurrected` for any number of requests. While
requests come one at a time nothing is late (`SerialInv`): `SerialRequestsEndSessions` says that a family then has
one usable token and that its end is final, whatever the number of processes. `SerialFamiliesHold` is the same of
the part of the run that explores it.

**`PermissionCacheProofs`.** Everything that may be granted is dated. `FactsInv`: what the tables hold was held 0
ticks ago. `FillInv`: what a check has read was held at most as long ago as the check has run, for each of its
stages; the two statements of a user's check each have their own such fact, which is why a mix of two moments is
possible and its age still bounded. `EntryInv`: an entry with `left` ticks to live was held at most
`TTL + MaxFill - left` ago. `StaleGrantsAreBounded` is `EntryInv` at the end of the lifetime. `UnracedInv` says more
as long as no check overlapped a unit of work, entries are then equal to the tables or about to be deleted, whence
`RevocationIsImmediate`.

**`IdentityProofs`.** `RolesInv`, `KeysInv`, `InvitesInv` and `ResetsInv` have the same three layers: what holds of a
unit of work by its place in its operation; what row locks and unique indexes keep apart (two units of work that
wrote a row, two uncommitted rows of one name, address or user); and what a unit of work that has run alone since
it loaded still knows of the rows it loaded. The last layer is what the properties with "unless units of work
overlap" need: the unit that damages a key, loses an update, dangles a role, reuses a token or replaces a password
blindly is not alone. The theorems `RolesAreSound`, `KeyIsSound`, `InvitationsAreSound`, `ResetsAreSound` say it of
the modules, `...InRun` and `GrantsStayFresh` of the run.

**`ServicesProofs`.**
- `LockInv`: a token names its acquisition and no other; a client that believes to hold the lock has its token in
  the key unless the lease ended (`lapsed`). So two holders need a lapsed lease (`LockIsSound`).
- `LimiterInv`: a refusal leaves the counter above the limit until the window ends, and while no command was sent
  again the counter is the number of counted requests. So `RefusalsAreJust`; who waits as told is at most half a
  second early, which is what rounding a TTL costs. `BurstInv`: of the requests let in during the last n seconds, the
  running window let in at most its count and the windows before it one limit, and one more for each loss; those
  younger than the running window are among its count. So `BurstsAreBounded`: twice the limit in any window's length,
  and a limit more for each time Redis lost its data.
- `FanOutInv`: the connection has a channel, and messages are under way on it, only if somebody has subscribed to
  it; a subscriber that is not heard had a peer that left.
- `CallInv`: the clock of an attempt is at most one timeout per hop it made, the clock of the call one attempt's
  time for each attempt; a write without consent has one attempt.
- `WebInv`: a call that is under way was not executed (`Untried`); tokens issued, refreshes sent and answers owed are
  together at most the calls made (`PaidFor`). As long as no two tabs refreshed together and nothing was lost
  (`CalmInv`), one refresh is under way and it carries a usable token, and between refreshes the cookie is usable:
  so nobody presents a consumed one.
- `RuntimeInv`: the phase of a worker bounds what its consumers and its relay may be doing (`WorkerPhase`), and
  a consumer that runs has its pool.

**`EdgeProofs`.**
- `ScopeInv`: a branch's stack is its inherited scope followed by one hatch per `withoutTenantScope` it is in. Hence
  `TenantsStayIsolated`, by induction over the steps of any nesting.
- `RoutesDocumented`: a lemma about the table, route by route: what the operation and the edge may answer is in the
  document, or is one of the reasons all routes share. `PipelineInv` then follows one request through the
  interceptors: at a stage it has passed the earlier ones, with the rights of then, and one request holds a claim.
  `RoutesDecideRight` holds for every instance `Edge(i)` whose record satisfies `EdgeAssumption`.
- `UnitsInv`: what a unit of work holds is the committed row with the changes its pending events tell (`Faithful`).
  Told what it has collected and buffered, a subscriber knows each field an event carries (`Knows`); rows are images
  of whole aggregates; a held copy has ended when its row has (`Follows`); unless two units overlapped on it, one unit
  of work holds an aggregate. Hence `AggregatesAreSound` (followers of the events know the row, bundles of roles and
  permissions are sound, pending invitations can be accepted) and `EndedStaysEndedAlways`. Each method has a lemma: what
  it changes is what its event says.
- `BookInv`: an address has one normal form, the schema and the domain's `Email` reach it, and `users` has one row for
  it (`UsersInv`); a registration that has found no row waits with a normal address. The stored secret is the password
  chosen last (`PasswordsInv`). What is in a row or on its way to one is inside what the output schemas admit
  (`RowsInv`, `SlotsInv`); so nothing a contract lets in is refused by the domain and no answer is lost
  (`AccountsAreSound`).

**`ToolingProofs`.**
- `MonitorInv`: the actions taken are the cycles counted and the one under way (`BudgetInv`); whatever is handled, and
  whatever is waited for, began before the timeout (`TimeInv`); a poll that sees nothing new takes a minute at
  least, and is counted unless the monitor tracks an attempt or the classification is in upper case (`BreakerInv`):
  the answers of a standstill are the same, so what was in lower case at its first poll is so at each
  (`SeenAgainIsNoChange`).
- `ChainInv`: each project has a level, and along an import it falls, so that a chain from outside the shared packages
  does not come back to the level it began at (`ClimbInv`); what an app reaches is inner, or an app, until the
  composition root is on the chain (`QuietInv`); what an adapter reaches is inner, but for the allowance of the specs of
  postgres, which is for the first hop only (`AdapterInv`). That domain and platform stay free of Nest and TypeORM needs
  their overlays beside the constraints on tags. Likewise `FolderInv` for contexts, shared folders and slices, and
  `Files!TypeOK` for the files. So `ChainsKeepTheLayers`, `FoldersKeepApart`, `FilesKeepOneKind`, for chains and files
  of any length. The proof found two arms of `LayerTags` that overlapped, which TLC decides by their order and TLA+ does
  not; they are disjoint now.
- `DeployInv(i)`: the schema after the first n of the 16 migrations is written down once, `At(i, n)`: the tables, each
  with what created it, the columns the audit migration added, the indexes. Statement by statement, each `up` takes
  `At(i, n - 1)` to `At(i, n)` and each `down` takes it back (`UpGoes`, `DownGoes`); an `up` that has run already fails or
  changes nothing (`UpAgain`). The executed migrations are the first n, and what a runner holds follows a prefix of
  them (`Place`); so a runner that lost a race fails as a whole or leaves the place a later run would (`MigrateRaced`). A
  runner without another holds exactly what follows, and cannot fail (`Alone`). What the Admin of a tenant lacks is
  what a backfill still to run grants, unless the tenant is late (`Reached`). Hence `DeploysAreSound`, for any builds,
  tenants, runners and reverts: the schema is its history, all 16 serve every entity, backfills reach who was there.
  Two things came out of the proof: a revert past the migration that created the tenants has to take their rows with
  it, and the run had to start low enough to get there.

**Induction.** The library's induction theorems take an operator as parameter, which no installed prover can
instantiate. What is used in their place is the well-foundedness of the numbers for a **set** (`NatSetInduction`): the
set of the numbers up to which a recursive function has a solution, or has the values claimed. That suffices for the
recursive functions of `Migrations`, `Aggregates` and `Accounts`, all over a bounded number or a finite set.

**Only model-checked:**
- Liveness (`EverySettles`, `EveryRequestAnswered`, `EverythingSettles`), out of the prover's reach.
- `ProductIsRenamedWhole`: that no name of the kit is left in a text is a fact about the result of a recursive
  replacement on the texts at hand, and false for names that contain one of the kit's.

## The plan

Done: the models above, and theorems for every safety property of every passing run but `ProductIsRenamedWhole`, with
the two refinements.

What could still be modelled: a closer composition of `WebSession` with `RefreshSessions` (a rotation in steps), the
contracts of the remaining operations, the shutdown of pub/sub. What could still be proved: that an interrupted
product script, run again, ends where an uninterrupted one does, for names that contain no name of the kit.
