---------------------------- MODULE FolderRules ----------------------------
(* The lint rules on folders inside one project: no-cross-context-imports      *)
(* keeps the bounded contexts of a layer apart, no-fsd-upward-imports keeps    *)
(* the slices of a frontend app layered.  A chain starts at a file and follows *)
(* accepted imports from folder to folder.                                     *)
EXTENDS Naturals, Sequences

CONSTANTS
    Context,    \* of BOUNDARY_CONTEXTS
    Resource,   \* the folders under modules of apps/api
    MaxHops     \* bound: files in a chain

VARIABLE chain      \* places of the files: each imports the next

SharedFolder == {"shared-kernel", "shared", "common"}

FolderRulesAssumption ==
    /\ MaxHops \in Nat \ {0}
    /\ (Context \union Resource) \intersect SharedFolder = {}

Slice == <<"shared", "features", "pages", "app">>

(* Layer roots, and the folders (or the lone file) right under each: "other"   *)
(* is one the rules have no name for, as index.ts, kernel or main.ts.          *)
Layer == {"domain", "application", "composition", "postgres", "postgres/contexts"}
Folders(root) ==
    CASE root = "api" -> Resource \union {"common", "other"}
      [] root \in {"web", "admin"} -> {"shared", "features", "pages", "app", "other"}
      [] OTHER -> Context \union {"shared-kernel", "shared", "other"}

Place == {[root |-> r, folder |-> f] : r \in Layer \union {"api", "web", "admin"},
                                       f \in Context \union Resource \union SharedFolder
                                             \union {"features", "pages", "app", "other"}}
Places == {p \in Place : p.folder \in Folders(p.root)}

(* Two roots of one project can reach each other by a relative specifier. *)
Project(root) == IF root = "postgres/contexts" THEN "postgres" ELSE root

(* ---------------------------- the two rules ------------------------------- *)

(* ContextPath.locate: a resource or the common folder of apps/api, a context  *)
(* or a shared folder of a layer, and nothing else.                            *)
Located(p) ==
    \/ p.root = "api" /\ p.folder \in Resource \union {"common"}
    \/ p.root \in Layer /\ p.folder \in Context \union SharedFolder

(* The exception for the api forgotten: its resources are no known context. *)
CrossContextLayersOnly(p, q) ==
    /\ Located(p) /\ Located(q)
    /\ p.root = q.root /\ p.folder # q.folder
    /\ q.folder \in Context
CrossContext(p, q) ==
    /\ Located(p) /\ Located(q)
    /\ p.root = q.root /\ p.folder # q.folder
    /\ q.folder \notin SharedFolder
    /\ q.folder \in Context \/ q.root = "api"

HasSlice(p) == p.root \in {"web", "admin"} /\ p.folder # "other"
Rank(p) == CHOOSE i \in 1..4 : Slice[i] = p.folder

(* By alias or by relative path: the specifier is located the same way. *)
Upward(p, q) == HasSlice(p) /\ HasSlice(q) /\ Rank(q) > Rank(p)

Init == chain \in {<<p>> : p \in Places}

Import ==
    LET here == chain[Len(chain)] IN
    /\ Len(chain) < MaxHops
    /\ \E q \in Places :
        /\ Project(q.root) = Project(here.root)
        /\ ~ CrossContext(here, q) /\ ~ Upward(here, q)
        /\ chain' = Append(chain, q)

Next == Import

Spec == Init /\ [][Next]_chain

(* ------------------------------- properties ------------------------------- *)

AllLocated == \A i \in DOMAIN chain : Located(chain[i])
AllInSlices == \A i \in DOMAIN chain : HasSlice(chain[i])
Owner(p) == p.folder \in Context \union Resource

(* The chain stays in one project and has its bound. *)
TypeOK ==
    /\ chain \in Seq(Places) /\ Len(chain) \in 1..MaxHops
    /\ \A i \in DOMAIN chain : Project(chain[i].root) = Project(chain[1].root)

(* Bounded contexts, and the resources of the api, do not know each other's    *)
(* internals: every file may import a shared folder, yet no chain of located   *)
(* files of one layer leads from a context through one to another context.     *)
ContextsStayApart ==
    AllLocated => \A i, j \in DOMAIN chain :
        (i < j /\ Owner(chain[i]) /\ Owner(chain[j]) /\ chain[i].root = chain[j].root
         /\ (\A k \in i..j : chain[k].root = chain[i].root))
            => chain[i].folder = chain[j].folder

(* A shared folder depends on no context of its layer, however long the chain. *)
SharedKnowsNoContext ==
    (AllLocated /\ chain[1].folder \in SharedFolder) =>
        \A j \in DOMAIN chain :
            (\A k \in 1..j : chain[k].root = chain[1].root) => ~ Owner(chain[j])

(* app, pages, features, shared: along a chain of slices imports only descend, *)
(* so no slice can come back to one above it.                                  *)
SlicesPointDown ==
    AllInSlices => \A i, j \in DOMAIN chain : i < j => Rank(chain[j]) <= Rank(chain[i])

(* boundaries.md: cross-context interaction is allowed only by ID references,  *)
(* domain events or another context's use case; a file does not come by the    *)
(* internals of another context of its own layer by importing the entry point  *)
(* or a kernel folder next to it.                                              *)
NoWayRoundTheRule ==
    \A j \in DOMAIN chain :
        (chain[1].folder \in Context /\ chain[j].folder \in Context /\ chain[j].root = chain[1].root)
            => chain[j].folder = chain[1].folder
=============================================================================
