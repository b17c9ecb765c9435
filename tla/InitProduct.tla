--------------------------- MODULE InitProduct ---------------------------
(* pnpm init:product renames the kit to a product: it parses its arguments,  *)
(* refuses a tree that is renamed already, and rewrites one file after the   *)
(* other by a list of textual replacements.  It can be interrupted between   *)
(* two files and started again.  A text is a sequence of words, each a part  *)
(* of an identity or a separator, so that one identity can contain another.  *)
EXTENDS Naturals, Sequences, SequencesExt, TLC

CONSTANTS
    Argvs,          \* the command lines that are tried
    MaxRuns,        \* bound: invocations
    MaxReverts      \* bound: times package.json is restored by hand

InitProductAssumption == MaxRuns \in Nat /\ MaxReverts \in Nat

VARIABLES
    disk,       \* file -> its text
    phase,      \* "idle", "parsing", "asking", "rewriting", "done", "failed", "aborted"
    argv, at,   \* the arguments and the index the parser is at
    given,      \* ParseState
    options,    \* InitProductOptions
    todo,       \* files not walked yet
    changed,    \* files updated, or that a dry run would update
    runs, reverts,
    foretold,   \* history: [changed, skipDocs] of a dry run nothing has been written since
    writers,    \* history: scopes under which a file was written
    broken      \* history: a run was interrupted or package.json restored

vars == <<disk, phase, argv, at, given, options, todo, changed, runs, reverts, foretold, writers, broken>>

(* ------------------------------- identities ------------------------------- *)

Kit == [scope |-> <<"@", "b2b-saas", "starter-kit">>, displayName |-> <<"B2B SaaS", "Starter", "Kit">>,
        displayShort |-> <<"B2B SaaS", "Starter">>, adminTitle |-> <<"B2B SaaS", "Admin">>,
        slug |-> <<"b2b-saas", "starter-kit">>, httpUserAgent |-> <<"b2b-saas", "http-client">>,
        apiAudience |-> <<"b2b-saas", "api">>, shortSlug |-> <<"b2b-saas">>, taskPrefix |-> <<"VC">>]

Source(identity) == identity.scope \o <<"/source">>
Part(identity, part) == IF part = "source" THEN Source(identity) ELSE identity[part]

Text(identity, parts) == FlattenSeq([i \in DOMAIN parts |-> Part(identity, parts[i]) \o <<"|">>])

(* The walk of a small tree: what each file mentions. *)
Walk == << [name |-> "apps/api/main.ts", parts |-> <<"scope", "displayName", "scope", "apiAudience">>],
           [name |-> "config/conventions.json", parts |-> <<"taskPrefix", "displayShort">>],
           [name |-> "docs/overview.md", parts |-> <<"displayName", "scope", "adminTitle">>],
           [name |-> "package.json", parts |-> <<"source", "shortSlug">>],
           [name |-> "packages/http-client.ts", parts |-> <<"httpUserAgent", "slug">>],
           [name |-> "pnpm-lock.yaml", parts |-> <<"scope">>],
           [name |-> "scripts/init/types.ts", parts |-> <<"scope", "slug">>] >>
Files == {Walk[i].name : i \in DOMAIN Walk}
Original(identity) == [f \in Files |-> Text(identity, (CHOOSE w \in ToSet(Walk) : w.name = f).parts)]

(* ------------------------------- arguments -------------------------------- *)

Switches == {"dryRun", "yes", "skipDocs", "install"}
Values == {"scope", "displayName", "slug", "shortSlug", "taskPrefix"}
(* An argument: a switch, a flag whose value follows, one with its value       *)
(* inline, or a bare word.  The empty sequence is the empty string, or absent. *)
Dashed(arg) == arg.kind # "word"

NoArguments == [k \in Values |-> << >>] @@ [s \in Switches |-> FALSE]

ReadArgValue(i) ==
    IF argv[i].kind = "inline" THEN [ok |-> TRUE, value |-> argv[i].value, next |-> i]
    ELSE IF i = Len(argv) \/ Dashed(argv[i + 1]) \/ argv[i + 1].value = << >>
    THEN [ok |-> FALSE, value |-> << >>, next |-> i]
    ELSE [ok |-> TRUE, value |-> argv[i + 1].value, next |-> i + 1]

Valid(text) == text # << >> /\ "!" \notin ToSet(text)
Lower(w) == CASE w = "Acme" -> "acme" [] w = "Cloud" -> "cloud" [] w = "VC" -> "vc" [] OTHER -> w
Slugify(text) == [i \in DOMAIN text |-> Lower(text[i])]
NormalizeScope(text) == Slugify(IF text[1] = "@" THEN text ELSE <<"@">> \o text)
DeriveShortSlug(slug, explicit) == IF explicit # << >> THEN Slugify(explicit) ELSE <<slug[1]>>
(* Four letters of the name in capitals, one word here. *)
DeriveTaskPrefix(name, explicit) == IF explicit # << >> THEN explicit ELSE <<"CAPS">>

Finalizable(g) ==
    LET slug == IF g.slug # << >> THEN g.slug ELSE g.displayName IN
    /\ Valid(g.scope) /\ Valid(slug) /\ g.displayName # << >>
    /\ g.shortSlug # << >> => Valid(g.shortSlug) /\ IsPrefix(Slugify(g.shortSlug), Slugify(slug))
    /\ g.taskPrefix # << >> => Valid(g.taskPrefix)

FinalizeOptions(g) ==
    LET slug == Slugify(IF g.slug # << >> THEN g.slug ELSE g.displayName)
        short == DeriveShortSlug(slug, g.shortSlug)
    IN  [scope |-> NormalizeScope(g.scope), displayName |-> g.displayName, displayShort |-> g.displayName,
         adminTitle |-> g.displayName \o <<"Admin">>, slug |-> slug, shortSlug |-> short,
         httpUserAgent |-> short \o <<"http-client">>, apiAudience |-> short \o <<"api">>,
         taskPrefix |-> DeriveTaskPrefix(g.displayName, g.taskPrefix)]
        @@ [s \in Switches |-> g[s]]

(* ------------------------------ replacements ------------------------------ *)

ReplaceIn(text, from, to) ==
    LET match(i) == i + Len(from) - 1 <= Len(text) /\ SubSeq(text, i, i + Len(from) - 1) = from
        rest[i \in 1 .. Len(text) + 1] ==
            IF i > Len(text) THEN << >>
            ELSE IF match(i) THEN to \o rest[i + Len(from)]
            ELSE <<text[i]>> \o rest[i + 1]
    IN  rest[1]

(* The short forms first. *)
ShortFirst ==
    <<"shortSlug", "scope", "source", "displayShort", "displayName", "adminTitle", "slug",
      "httpUserAgent", "apiAudience", "taskPrefix">>
Replacements ==
    <<"source", "scope", "displayName", "displayShort", "adminTitle", "slug",
      "httpUserAgent", "apiAudience", "shortSlug", "taskPrefix">>

ApplyReplacements(text, o) ==
    FoldLeft(LAMBDA t, part : ReplaceIn(t, Part(Kit, part), Part(o, part)), text, Replacements)

Skip(f, o) ==
    \/ f \in {"pnpm-lock.yaml", "scripts/init/types.ts"}
    \/ o.skipDocs /\ f = "docs/overview.md"

(* --------------------------------- the run -------------------------------- *)

Init ==
    /\ disk = Original(Kit)
    /\ phase = "idle" /\ argv = << >> /\ at = 1 /\ given = NoArguments
    /\ options = FinalizeOptions([NoArguments EXCEPT !.scope = <<"acme">>, !.displayName = <<"Acme">>])
    /\ todo = << >> /\ changed = {} /\ runs = 0 /\ reverts = 0
    /\ foretold = {} /\ writers = {} /\ broken = FALSE

Run ==
    /\ phase \notin {"parsing", "asking", "rewriting"} /\ runs < MaxRuns
    /\ runs' = runs + 1
    /\ argv' \in Argvs /\ at' = 1 /\ given' = NoArguments /\ phase' = "parsing"
    /\ changed' = {} /\ todo' = << >>
    /\ UNCHANGED <<disk, options, reverts, foretold, writers, broken>>

ConsumeArg ==
    /\ phase = "parsing" /\ at <= Len(argv)
    /\ LET arg == argv[at]
           read == ReadArgValue(at)
       IN  \/ /\ arg.kind = "switch"
              /\ given' = [given EXCEPT ![arg.name] = TRUE]
              /\ at' = at + 1 /\ UNCHANGED phase
           \/ /\ arg.kind \in {"flag", "inline"} /\ read.ok
              /\ given' = [given EXCEPT ![arg.name] = read.value]
              /\ at' = read.next + 1 /\ UNCHANGED phase
           \/ /\ arg.kind = "word" \/ (arg.kind \in {"flag", "inline"} /\ ~ read.ok)
              /\ phase' = "failed" /\ UNCHANGED <<given, at>>
           \/ /\ arg.kind = "help"
              /\ phase' = "aborted" /\ UNCHANGED <<given, at>>
    /\ UNCHANGED <<disk, argv, options, todo, changed, runs, reverts, foretold, writers, broken>>

Renamed == disk["package.json"] # Original(Kit)["package.json"]

AcceptsTree(o) == o.scope # Kit.scope /\ ~ Renamed

Plan ==
    /\ phase = "parsing" /\ at > Len(argv)
    /\ \/ /\ Finalizable(given) /\ AcceptsTree(FinalizeOptions(given))
          /\ options' = FinalizeOptions(given)
          /\ phase' = IF given.yes \/ given.dryRun THEN "rewriting" ELSE "asking"
          /\ todo' = Walk
       \/ /\ ~ (Finalizable(given) /\ AcceptsTree(FinalizeOptions(given)))
          /\ phase' = "failed" /\ UNCHANGED <<options, todo>>
    /\ UNCHANGED <<disk, argv, at, given, changed, runs, reverts, foretold, writers, broken>>

Confirm ==
    /\ phase = "asking"
    /\ phase' \in {"rewriting", "aborted"}
    /\ UNCHANGED <<disk, argv, at, given, options, todo, changed, runs, reverts, foretold, writers, broken>>

RewriteFile ==
    /\ phase = "rewriting" /\ todo # << >>
    /\ LET f == Head(todo).name
           updated == ApplyReplacements(disk[f], options)
           hit == ~ Skip(f, options) /\ updated # disk[f]
           writes == hit /\ ~ options.dryRun
       IN  /\ changed' = IF hit THEN changed \union {f} ELSE changed
           /\ disk' = IF writes THEN [disk EXCEPT ![f] = updated] ELSE disk
           /\ writers' = IF writes THEN writers \union {options.scope} ELSE writers
    /\ todo' = Tail(todo)
    /\ UNCHANGED <<phase, argv, at, given, options, runs, reverts, foretold, broken>>

Summary == [changed |-> changed, skipDocs |-> options.skipDocs, scope |-> options.scope]

(* The lockfile is refreshed last; a failing pnpm install fails the run. *)
Finish ==
    /\ phase = "rewriting" /\ todo = << >>
    /\ phase' \in IF options.install /\ ~ options.dryRun THEN {"done", "failed"} ELSE {"done"}
    /\ foretold' = IF options.dryRun THEN {Summary} ELSE {}
    /\ UNCHANGED <<disk, argv, at, given, options, todo, changed, runs, reverts, writers, broken>>

(* The process is killed between two files. *)
Interrupt ==
    /\ phase = "rewriting" /\ ~ options.dryRun
    /\ phase' = "aborted" /\ broken' = TRUE /\ foretold' = {}
    /\ UNCHANGED <<disk, argv, at, given, options, todo, changed, runs, reverts, writers>>

(* The way out the refusal names: package.json is reverted by hand. *)
Revert ==
    /\ phase \in {"aborted", "failed", "done"} /\ Renamed /\ reverts < MaxReverts
    /\ reverts' = reverts + 1 /\ broken' = TRUE
    /\ disk' = [disk EXCEPT !["package.json"] = Original(Kit)["package.json"]]
    /\ phase' = "idle" /\ foretold' = {}
    /\ UNCHANGED <<argv, at, given, options, todo, changed, runs, writers>>

Next == Run \/ ConsumeArg \/ Plan \/ Confirm \/ RewriteFile \/ Finish \/ Interrupt \/ Revert

Spec == Init /\ [][Next]_vars

(* ------------------------------- properties ------------------------------- *)

(* The shape of the state; the files walked are never skipped ones. *)
TypeOK ==
    /\ DOMAIN disk = Files
    /\ phase \in {"idle", "parsing", "asking", "rewriting", "done", "failed", "aborted"}
    /\ at \in 1..(Len(argv) + 1)
    /\ changed \subseteq Files \ {"pnpm-lock.yaml", "scripts/init/types.ts"}
    /\ runs \in 0..MaxRuns /\ reverts \in 0..MaxReverts

(* A run that ends well leaves every file it may touch as if it had been       *)
(* written for the product: each part of the kit's identity replaced by its    *)
(* own counterpart, also after interruptions and a package.json reverted by    *)
(* hand, provided the later runs name the same product.                        *)
CompletedRunRenames ==
    (phase = "done" /\ ~ options.dryRun /\ writers \subseteq {options.scope}) =>
        \A f \in Files : Skip(f, options) \/ disk[f] = Original(options)[f]

(* What a dry run lists is what the same run then updates. *)
DryRunForetells ==
    (phase = "rewriting" /\ todo = << >> /\ ~ options.dryRun) =>
        \A s \in foretold :
            (s.skipDocs = options.skipDocs /\ s.scope = options.scope) => changed = s.changed

(* Two products never meet in one tree, unless a run was cut short or          *)
(* package.json restored by hand.                                              *)
OneProductPerTree == \A a, b \in writers : broken \/ a = b

(* The parser loses nothing: a run that gets past it has each switch exactly   *)
(* when the switch is on the command line, and each value from the last        *)
(* argument that names it.                                                     *)
ParsedAsGiven ==
    phase \in {"asking", "rewriting"} =>
        /\ \A s \in Switches :
            given[s] <=> \E i \in DOMAIN argv : argv[i].kind = "switch" /\ argv[i].name = s
        /\ \A k \in Values : LET named == {i \in DOMAIN argv : argv[i].kind \in {"flag", "inline"} /\ argv[i].name = k}
                                 last == CHOOSE i \in named : \A j \in named : j <= i
                             IN  given[k] = IF named = {} THEN << >>
                                            ELSE IF argv[last].kind = "inline" THEN argv[last].value
                                            ELSE argv[last + 1].value
==========================================================================
