---------------------------- MODULE ImportRules ----------------------------
(* What the lint rules of the workspace let a chain of imports reach.  A file  *)
(* of a project imports another workspace package, whose entry point imports   *)
(* the next, and the chain may end at an npm package.  Each hop is accepted by *)
(* both @nx/enforce-module-boundaries (the tags) and the no-restricted-imports *)
(* overlay that applies to the file.                                           *)
EXTENDS Naturals, Sequences, FiniteSetsExt

CONSTANT MaxHops    \* bound: projects in a chain

ImportRulesAssumption == MaxHops \in Nat \ {0}

VARIABLES
    chain,      \* the projects of the chain, the importing one first
    file,       \* kind of the first file; an entry point is always source
    package     \* the npm package the chain ends at, or "none"

vars == <<chain, file, package>>

(* ------------------------------ the projects ------------------------------ *)

Shared == {"shared-kernel-types", "contracts", "utils", "config"}
Adapters == {"postgres", "redis", "http-client", "security", "node", "mail", "messaging",
             "logger", "telemetry"}
Backend == Adapters \union {"domain", "application", "platform", "nest-http", "composition",
                            "api", "worker"}
Frontend == {"ui-kit", "frontend-core", "web", "admin", "desktop", "mobile", "web-e2e"}
Apps == {"api", "worker", "web", "admin", "desktop", "mobile"}
Project == Shared \union Backend \union Frontend

ScopeTag(p) == CASE p \in Shared -> "scope:shared"
                 [] p \in Backend -> "scope:backend"
                 [] OTHER -> "scope:frontend"

(* The layer:* and type:* tags: most packages are named for their layer. *)
LayerTags(p) ==
    CASE p \in {"logger", "telemetry"} -> {"infrastructure", p}
      [] p \in Adapters \ {"logger", "telemetry"} -> {"infrastructure"}
      [] p \in Apps -> {"app"}
      [] p = "web-e2e" -> {"e2e"}
      [] p = "ui-kit" -> {"ui"}
      [] OTHER -> {p}

Tags(p) == {ScopeTag(p)} \union LayerTags(p)

Only(tag, libs) == [sourceTag |-> tag, libs |-> libs]
Leaves == {"shared-kernel-types", "utils", "config"}

DepConstraints ==
    {Only("scope:shared", {"scope:shared"}),
     Only("scope:backend", {"scope:backend", "scope:shared"}),
     Only("scope:frontend", {"scope:frontend", "scope:shared"}),
     Only("domain", {"shared-kernel-types"}),
     Only("platform", {"shared-kernel-types"}),
     Only("contracts", {"shared-kernel-types"}),
     Only("application", {"domain", "platform", "shared-kernel-types", "utils"}),
     Only("infrastructure", Leaves \union {"domain", "application", "platform"}),
     Only("nest-http", Leaves \union {"contracts", "platform"}),
     Only("composition", Leaves \union {"domain", "application", "infrastructure", "platform"}),
     Only("ui", {"utils"}),
     Only("frontend-core", Leaves \union {"contracts"}),
     Only("feature", {"ui", "frontend-core", "contracts", "shared-kernel-types", "utils"}),
     Only("app", Leaves \union {"composition", "nest-http", "logger", "telemetry", "platform", "ui",
                                "frontend-core", "feature", "contracts"}),
     Only("e2e", Leaves \union {"contracts"})}

(* Every constraint on a tag of the importing project must be met. *)
MeetsConstraints(p, q) ==
    \A c \in DepConstraints : c.sourceTag \in Tags(p) => Tags(q) \intersect c.libs # {}

(* The allow list of the specs of postgres. *)
Allow(p, f) == IF p = "postgres" /\ f = "spec" THEN {"node", "security"} ELSE {}

(* ------------------------ the restricted specifiers ----------------------- *)

(* "nest" is the list of Nest packages the overlays enumerate, core, testing,  *)
(* config and so on; "nest-other" any package of @nestjs they do not name.     *)
NestListed == {"nest"}
NestAll == {"nest", "nest-common", "nest-typeorm", "nest-other"}
Clients == {"undici", "axios", "got"}
Npm == NestAll \union Clients \union
       {"typeorm", "pg", "ioredis", "argon2", "nodemailer", "jose", "pino", "bullmq", "otel-sdk",
        "react", "redux", "electron", "nestjs-cls", "nestjs-zod"}

(* The adapter packages the overlays of the inner layers name, and the wiring. *)
Wired == {"postgres", "redis", "http-client", "security", "mail", "node", "messaging", "composition"}

DomainBans == NestAll \union Clients \union Wired \union
    {"typeorm", "ioredis", "argon2", "nodemailer", "jose",
     "contracts", "application", "platform", "utils", "config", "telemetry"}
PlatformBans == NestAll \union Clients \union Wired \union
    {"typeorm", "ioredis", "argon2", "nodemailer", "jose", "pino",
     "contracts", "application", "domain", "utils", "config", "logger", "telemetry", "nest-http"}
ApplicationBans == NestListed \union Clients \union Wired \union
    {"typeorm", "ioredis", "argon2", "nodemailer", "jose", "pino",
     "contracts", "config", "logger", "telemetry", "nest-http"}
ContractsBans == NestAll \union Clients \union Wired \union
    {"typeorm", "ioredis", "pino", "react",
     "platform", "application", "domain", "config", "logger", "telemetry", "nest-http"}
CompositionBans == {"pino", "nestjs-zod", "contracts", "logger", "telemetry", "nest-http"}
NestHttpBans == Clients \union Wired \union
    {"pino", "typeorm", "domain", "application", "logger", "telemetry"}
FrontendCoreBans == NestAll \union Wired \union
    {"pino", "electron", "ui-kit", "config", "domain", "application", "logger", "telemetry", "nest-http"}
UiKitBans == NestAll \union Wired \union
    {"redux", "contracts", "config", "domain", "application", "logger", "telemetry", "nest-http",
     "frontend-core"}
FrontendAppBans == {"config"}

(* The overlays of the adapters share most of their list. *)
AdapterBans == NestListed \union
    {"axios", "got", "contracts", "telemetry", "nest-typeorm", "nestjs-cls", "composition"}
PostgresBans == AdapterBans \union
    {"ioredis", "undici", "argon2", "http-client", "security", "mail", "node", "redis", "messaging"}
LoggerBans == AdapterBans \union
    {"ioredis", "undici", "argon2", "http-client", "security", "mail", "node", "redis", "messaging",
     "otel-sdk"}
TelemetryBans == NestAll \union Wired \union
    {"typeorm", "pg", "ioredis", "undici", "pino", "contracts", "domain", "application",
     "logger", "nest-http"}
RedisBans == AdapterBans \union
    {"typeorm", "pg", "undici", "domain", "application", "postgres", "http-client", "security", "mail",
     "node", "messaging"}
HttpClientBans == AdapterBans \union
    {"typeorm", "pg", "ioredis", "domain", "application", "postgres", "redis", "security", "mail",
     "node", "messaging"}
SecurityBans == AdapterBans \union
    {"typeorm", "pg", "ioredis", "undici", "domain", "application", "postgres", "redis", "http-client",
     "mail", "node", "messaging"}
NodeBans == AdapterBans \union
    {"argon2", "typeorm", "pg", "ioredis", "undici", "domain", "application", "postgres", "redis",
     "http-client", "security", "mail", "messaging"}
MailBans == AdapterBans \union
    {"typeorm", "pg", "ioredis", "undici", "domain", "application", "postgres", "redis", "http-client",
     "security", "node", "messaging"}
MessagingBans == AdapterBans \union
    {"typeorm", "pg", "undici", "domain", "application", "postgres", "redis", "http-client", "security",
     "mail", "node"}

AnyFile == {"source", "spec"}
Overlay(projects, files, bans) == [projects |-> projects, files |-> files, bans |-> bans]
(* The fragments that set no-restricted-imports, in the order of the list. *)
Overlays ==
 << Overlay({"domain"}, AnyFile, DomainBans),
    Overlay({"platform"}, AnyFile, PlatformBans),
    Overlay({"application"}, AnyFile, ApplicationBans),
    Overlay({"composition"}, AnyFile, CompositionBans),
    Overlay({"contracts"}, AnyFile, ContractsBans),
    Overlay({"nest-http"}, AnyFile, NestHttpBans),
    Overlay({"postgres"}, {"source"}, PostgresBans),
    Overlay({"logger"}, {"source"}, LoggerBans),
    Overlay({"telemetry"}, {"source"}, TelemetryBans),
    Overlay({"redis"}, {"source"}, RedisBans),
    Overlay({"http-client"}, {"source"}, HttpClientBans),
    Overlay({"security"}, {"source"}, SecurityBans),
    Overlay({"node"}, {"source"}, NodeBans),
    Overlay({"mail"}, {"source"}, MailBans),
    Overlay({"messaging"}, {"source"}, MessagingBans),
    Overlay({"ui-kit"}, AnyFile, UiKitBans),
    Overlay({"frontend-core"}, AnyFile, FrontendCoreBans),
    Overlay({"web", "admin"}, AnyFile, FrontendAppBans) >>

(* Flat config: the last fragment whose files match sets the rule's options,   *)
(* and replaces whatever an earlier one listed.                                *)
Restricted(p, f) ==
    LET matching == {i \in DOMAIN Overlays : p \in Overlays[i].projects /\ f \in Overlays[i].files}
    IN  IF matching = {} THEN {} ELSE Overlays[Max(matching)].bans

(* ------------------------------- the chains ------------------------------- *)

Here == chain[Len(chain)]
FileHere == IF Len(chain) = 1 THEN file ELSE "source"

Accepts(p, f, q) ==
    /\ p # q
    /\ q \in Allow(p, f) \/ MeetsConstraints(p, q)
    /\ q \notin Restricted(p, f)

Init ==
    /\ chain \in {<<p>> : p \in Project}
    /\ file \in AnyFile
    /\ package = "none"

ImportProject ==
    /\ package = "none" /\ Len(chain) < MaxHops
    /\ \E q \in Project :
        /\ Accepts(Here, FileHere, q)
        /\ chain' = Append(chain, q)
    /\ UNCHANGED <<file, package>>

ImportPackage ==
    /\ package = "none"
    /\ \E n \in Npm \ Restricted(Here, FileHere) : package' = n
    /\ UNCHANGED <<chain, file>>

Next == ImportProject \/ ImportPackage

Spec == Init /\ [][Next]_vars

(* ------------------------------- properties ------------------------------- *)

Reached == {chain[i] : i \in 2..Len(chain)}
(* The packages that talk to a database, a broker or another host. *)
Outbound == Adapters \ {"logger", "telemetry"}

(* The shape of the state; no project imports itself by its package name. *)
TypeOK ==
    /\ chain \in Seq(Project) /\ Len(chain) \in 1..MaxHops
    /\ \A i \in 2..Len(chain) : chain[i] # chain[i - 1]
    /\ file \in AnyFile
    /\ package \in Npm \union {"none"}

(* "The two never import each other": however many packages lie between them,  *)
(* no backend file reaches a frontend project or the reverse, and a shared     *)
(* package reaches neither.                                                    *)
ScopesStayApart ==
    \A q \in Reached : q \in Shared \/ ScopeTag(q) = ScopeTag(chain[1])

(* Apps stay thin: an app can come by an outbound adapter only through the     *)
(* wiring of composition, although the packages it may import directly import  *)
(* each other freely.  (The domain it also reaches through logger, which has   *)
(* the tag and the freedom of an adapter.)                                     *)
AdaptersComeThroughComposition ==
    chain[1] \in Apps =>
        \A i \in 2..Len(chain) :
            chain[i] \in Outbound => \E j \in 2..i : chain[j] = "composition"

(* No adapter reaches another one, except that a spec of postgres uses the     *)
(* password hasher and the clock directly: the allowance does not leak into    *)
(* the sources, where a chain through the application would end.               *)
AdaptersStandAlone ==
    \A i \in 2..Len(chain) : (chain[1] \in Adapters /\ chain[i] \in Adapters) =>
        chain[1] = "postgres" /\ file = "spec" /\ i = 2 /\ chain[2] \in {"security", "node"}

(* Layers point inward: outside the shared packages no chain comes back to     *)
(* where it began, so the tags alone keep the graph of projects free of cycles *)
(* there.                                                                      *)
LayersPointInward == chain[1] \notin Shared => chain[1] \notin Reached

(* Domain and platform purity: whatever fragments match a file of theirs, its  *)
(* spec included, the overlay in force bans every Nest package and TypeORM.    *)
InnerLayersStayPure ==
    (Len(chain) = 1 /\ chain[1] \in {"domain", "platform"}) => package \notin NestAll \union {"typeorm"}

(* boundaries.md, the enforcement matrix: shared purity, no framework and no   *)
(* infrastructure, is enforced by the Nx scope tags.                           *)
SharedStaysPure ==
    (Len(chain) = 1 /\ file = "source" /\ chain[1] \in Shared) => package \notin NestAll \union {"typeorm", "ioredis", "pg"}

(* The message of the overlay of domain: import only shared-kernel-types, and  *)
(* Zod when needed.  No npm package of this model is Zod.                      *)
DomainImportsOnlySharedTypes ==
    (Len(chain) = 1 /\ file = "source" /\ chain[1] = "domain") => package = "none"
=============================================================================
