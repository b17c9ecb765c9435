------------------------------ MODULE MCTooling ------------------------------
(* Small instances of what runs beside the services for TLC: the migrations, *)
(* the CI monitor, the lint rules and the script that renames the kit.  They *)
(* share no state, so they are explored side by side: the component "part"   *)
(* names takes steps and the others rest in an initial state.                *)
EXTENDS Integers, Sequences

CONSTANTS
    Tenants, Runners, Builds, MaxReverts,
    t1, r1, r2,             \* a tenant, runners
    CiInfo, NoProgressCap, EnvRerunCap, MaxCycles, LocalAttempts, TimeoutUnits, NewCipeUnits,
    MaxAttempts, MaxUnparsed,
    Context, Resource, MaxHops, MaxStatements

VARIABLES
    schema, executed, grants, createdBy, build, image, runner, failed, reverts, late,
    ci, head, due, mon, phase, code, elapsed, unparsed, stale, actions, reruns,
    chain, file, package,
    path,
    kind, body,
    disk, initPhase, argv, at, given, options, todo, changed, runs, initReverts, foretold, writers, broken,
    part                    \* the component that takes steps

deployVars == <<schema, executed, grants, createdBy, build, image, runner, failed, reverts, late>>
monitorVars == <<ci, head, due, mon, phase, code, elapsed, unparsed, stale, actions, reruns>>
chainVars == <<chain, file, package>>
fileVars == <<kind, body>>
initVars == <<disk, initPhase, argv, at, given, options, todo, changed, runs, initReverts, foretold, writers, broken>>

-----------------------------------------------------------------------------
(* Migrations: three builds of the timeline and one runner at a time, the    *)
(* second and the third build with a backfill of their own; or two builds    *)
(* and two runners at once.                                                  *)

Deploy(i) == INSTANCE Migrations WITH
    Tenants <- i.tenants, Runners <- i.runners, Builds <- i.builds, MaxReverts <- i.reverts

MCBuilds == <<4, 10, 16>>

Rollout == [tenants |-> Tenants, runners |-> Runners, builds |-> Builds, reverts |-> MaxReverts]

Race == [tenants |-> {t1}, runners |-> {r1, r2}, builds |-> <<8, 16>>, reverts |-> 1]

-----------------------------------------------------------------------------
(* CiMonitor: a run, a verified fix, one that applies itself, none, a flaky  *)
(* task in either case, an environment failure, success.                     *)

Failed == [cipe |-> "FAILED", sh |-> "COMPLETED", ver |-> "COMPLETED", fc |-> "none", tasks |-> "verified",
           skip |-> "none", autoApply |-> FALSE, skipApply |-> FALSE, autoApplied |-> FALSE, enabled |-> TRUE]

InProgress == [Failed EXCEPT !.cipe = "IN_PROGRESS", !.sh = "none", !.ver = "none"]

Classified(fc) == [Failed EXCEPT !.sh = "none", !.ver = "none", !.fc = fc]

Course == {InProgress, Failed, [Failed EXCEPT !.autoApply = TRUE], [Failed EXCEPT !.sh = "FAILED", !.ver = "none"],
           Classified("flaky_task"), Classified("FLAKY_TASK"), Classified("ENVIRONMENT_STATE"),
           [InProgress EXCEPT !.cipe = "SUCCEEDED"]}

Monitor == INSTANCE CiMonitor

-----------------------------------------------------------------------------
(* The lint rules: all projects, places and files, chains of bounded length. *)

Imports == INSTANCE ImportRules

Folders == INSTANCE FolderRules WITH chain <- path

Files == INSTANCE FileRules

-----------------------------------------------------------------------------
(* InitProduct: command lines for one ordinary product, for two, and all     *)
(* short ones.                                                               *)

Switch(s) == [kind |-> "switch", name |-> s, value |-> << >>]
Inline(k, v) == [kind |-> "inline", name |-> k, value |-> v]
Flag(k) == [kind |-> "flag", name |-> k, value |-> << >>]
Word(v) == [kind |-> "word", name |-> "", value |-> v]

Acme == <<Inline("scope", <<"acme">>), Flag("displayName"), Word(<<"Acme", "Cloud">>)>>
Globex == <<Inline("scope", <<"@", "globex">>), Inline("displayName", <<"globex">>), Inline("taskPrefix", <<"GX">>)>>

OneProduct == {Acme \o s : s \in {<<>>, <<Switch("dryRun")>>, <<Switch("dryRun"), Switch("skipDocs")>>,
                                  <<Switch("yes"), Switch("install")>>, <<Switch("yes"), Switch("skipDocs")>>}}
TwoProducts == {p \o s : p \in {Acme, Globex}, s \in {<<Switch("yes")>>, <<Switch("yes"), Switch("skipDocs")>>}}

Args == {Switch("yes"), Switch("dryRun"), Flag("scope"), Flag("displayName"), Inline("scope", <<"acme">>),
         Inline("scope", << >>), Inline("displayName", <<"Acme">>), Word(<<"Acme">>), Word(<<"!">>),
         [kind |-> "help", name |-> "", value |-> << >>]}
AllShort == UNION {[1..n -> Args] : n \in 0..4}

One == INSTANCE InitProduct WITH
    Argvs <- OneProduct, MaxRuns <- 3, MaxReverts <- 1, phase <- initPhase, reverts <- initReverts

Two == INSTANCE InitProduct WITH
    Argvs <- TwoProducts, MaxRuns <- 3, MaxReverts <- 1, phase <- initPhase, reverts <- initReverts

Parser == INSTANCE InitProduct WITH
    Argvs <- AllShort, MaxRuns <- 1, MaxReverts <- 0, phase <- initPhase, reverts <- initReverts

-----------------------------------------------------------------------------
ASSUME DeployAssumption == Deploy(Rollout)!BuildsAssumption /\ Deploy(Race)!BuildsAssumption
ASSUME RunnersAssumption == \A a, b \in Runners : a = b
ASSUME MonitorAssumption == Monitor!CiMonitorAssumption
ASSUME RulesAssumption ==
    Imports!ImportRulesAssumption /\ Folders!FolderRulesAssumption /\ Files!FileRulesAssumption
ASSUME ProductAssumption == One!InitProductAssumption /\ Two!InitProductAssumption /\ Parser!InitProductAssumption

ToolingInit ==
    /\ part \in {"migrations", "race", "monitor", "imports", "folders", "files", "one", "two", "parser"}
    /\ IF part = "race" THEN Deploy(Race)!Init ELSE Deploy(Rollout)!Init
    /\ Monitor!Init /\ (part # "monitor" => ci.info = CHOOSE i \in CiInfo : TRUE)
    /\ IF part = "imports" THEN Imports!Init ELSE chain = <<>> /\ file = "source" /\ package = "none"
    /\ IF part = "folders" THEN Folders!Init ELSE path = <<>>
    /\ Files!Init /\ (part # "files" => kind = "source")
    /\ One!Init

Migrating ==
    /\ part = "migrations" /\ Deploy(Rollout)!Next
    /\ UNCHANGED <<part, monitorVars, chainVars, path, fileVars, initVars>>

Racing ==
    /\ part = "race" /\ Deploy(Race)!Next
    /\ UNCHANGED <<part, monitorVars, chainVars, path, fileVars, initVars>>

Monitoring ==
    /\ part = "monitor" /\ Monitor!Next
    /\ UNCHANGED <<part, deployVars, chainVars, path, fileVars, initVars>>

Importing ==
    /\ part = "imports" /\ Imports!Next
    /\ UNCHANGED <<part, deployVars, monitorVars, path, fileVars, initVars>>

Reaching ==
    /\ part = "folders" /\ Folders!Next
    /\ UNCHANGED <<part, deployVars, monitorVars, chainVars, fileVars, initVars>>

Declaring ==
    /\ part = "files" /\ Files!Next
    /\ UNCHANGED <<part, deployVars, monitorVars, chainVars, path, initVars>>

Renaming ==
    /\ \/ part = "one" /\ One!Next
       \/ part = "two" /\ Two!Next
       \/ part = "parser" /\ Parser!Next
    /\ UNCHANGED <<part, deployVars, monitorVars, chainVars, path, fileVars>>

ToolingNext == Migrating \/ Racing \/ Monitoring \/ Importing \/ Reaching \/ Declaring \/ Renaming

ToolingSpec == ToolingInit /\ [][ToolingNext]_<<part, deployVars, monitorVars, chainVars, path, fileVars, initVars>>

-----------------------------------------------------------------------------
(* Properties.                                                              *)

\* What Migrations promises: the schema is what the executed migrations build
\* from nothing, it serves the entities, the backfills reach the tenants older
\* than they are, and with one runner at a time nothing fails.
MigrationsStaySound ==
    /\ part = "migrations" =>
        /\ Deploy(Rollout)!TypeOK /\ Deploy(Rollout)!SchemaIsItsHistory /\ Deploy(Rollout)!EntitiesAreServed
        /\ Deploy(Rollout)!BackfillsReachTheOld /\ Deploy(Rollout)!NothingFails
    /\ part = "race" =>
        /\ Deploy(Race)!TypeOK /\ Deploy(Race)!SchemaIsItsHistory /\ Deploy(Race)!EntitiesAreServed
        /\ Deploy(Race)!BackfillsReachTheOld

\* What CiMonitor promises: it starts at most as many attempts as it has cycles,
\* stops at its timeout and, while CI stands still, by its circuit breaker; what
\* keeps the breaker from counting is a tracked attempt or a classification in
\* upper case, and then standing still uses up the timeout.
MonitorKeepsItsLimits ==
    part = "monitor" =>
        /\ Monitor!TypeOK /\ Monitor!ActionsWithinCycles /\ Monitor!StopsAtTimeout
        /\ Monitor!BreakerTripsUnlessBypassed /\ Monitor!StandstillSpendsTimeout

\* What the rules for imports and files promise of everything they accept, and
\* of every chain of it: scopes, contexts and slices stay apart, layers point
\* inward, adapters stand alone, and a file declares one runtime kind.
RulesKeepTheArchitecture ==
    /\ part = "imports" =>
        /\ Imports!TypeOK /\ Imports!ScopesStayApart /\ Imports!AdaptersComeThroughComposition
        /\ Imports!AdaptersStandAlone /\ Imports!LayersPointInward /\ Imports!InnerLayersStayPure
    /\ part = "folders" =>
        Folders!TypeOK /\ Folders!ContextsStayApart /\ Folders!SharedKnowsNoContext /\ Folders!SlicesPointDown
    /\ part = "files" => Files!TypeOK /\ Files!OneRuntimePerFile /\ Files!OnlyComponentsMix

\* What InitProduct promises: a completed run leaves no name of the kit and
\* changes what the dry run before it listed, a tree carries one product's
\* names, and the options are those of the command line.
ProductIsRenamedWhole ==
    /\ part = "one" => One!TypeOK /\ One!CompletedRunRenames /\ One!DryRunForetells
    /\ part = "two" => Two!OneProductPerTree
    /\ part = "parser" => Parser!ParsedAsGiven
=============================================================================
