---------------------------- MODULE FileRules ----------------------------
(* The lint rules on what one file may declare: at most one standalone        *)
(* function, at most one class, and no mix of the two or of either with        *)
(* types and constants, but for components.  A file grows by one top-level     *)
(* statement at a time and is linted after each.                               *)
EXTENDS Naturals, Sequences, FiniteSets

CONSTANT MaxStatements      \* bound: top-level statements of the file

FileRulesAssumption == MaxStatements \in Nat

(* A top-level declaration: "arrow" and "classExpr" are variables or defaults  *)
(* initialised with one, through any number of casts; "pattern" destructures.  *)
Statement ==
    [shape : {"function", "class", "arrow", "classExpr", "type", "enum", "value", "pattern"},
     default : {FALSE}]
    \union [shape : {"function", "class", "arrow", "classExpr", "type", "value"}, default : {TRUE}]

VARIABLES
    kind,       \* "source", "component" for .component.tsx, "spec"
    body        \* the statements of the file

vars == <<kind, body>>

(* ------------------------------- the rules -------------------------------- *)

KindOf(s) ==
    CASE s.shape \in {"function", "arrow"} -> {"function"}
      [] s.shape \in {"class", "classExpr"} -> {"class"}
      [] s.shape = "type" /\ ~ s.default -> {"type"}
      [] s.shape \in {"enum", "value"} /\ ~ s.default -> {"constant"}
      [] OTHER -> {}

OfKind(k) == {i \in DOMAIN body : k \in KindOf(body[i])}
Count(k) == Cardinality(OfKind(k))

TooManyFunctions == Count("function") > 1
TooManyClasses == Count("class") > 1

Mixed ==
    \/ Count("function") > 0 /\ Count("class") > 0
    \/ /\ Count("function") + Count("class") > 0
       /\ Count("type") + Count("constant") > 0
       /\ ~ /\ kind = "component"
            /\ Count("function") = 1 /\ Count("class") = 0
            /\ Count("type") = 1 /\ Count("constant") = 0

(* The overlay of the tests switches all three rules off. *)
Relaxed == kind = "spec"

Refused == ~ Relaxed /\ (TooManyFunctions \/ TooManyClasses \/ Mixed)

Init == kind \in {"source", "component", "spec"} /\ body = << >>

(* ECMAScript allows one default export. *)
Declare(s) ==
    /\ Len(body) < MaxStatements
    /\ s.default => \A i \in DOMAIN body : ~ body[i].default
    /\ body' = Append(body, s)
    /\ UNCHANGED kind

Next == \E s \in Statement : Declare(s)

Spec == Init /\ [][Next]_vars

(* ------------------------------- properties ------------------------------- *)

(* What the statements are, whatever the rules collect. *)
Runtimes == {i \in DOMAIN body : body[i].shape \in {"function", "arrow", "class", "classExpr"}}
Declarations == {i \in DOMAIN body : body[i].shape \in {"type", "enum", "value", "pattern"}}
Seen(s) == s.shape # "pattern" /\ (s.default => s.shape \notin {"type", "value"})

(* The shape of a file that parses: one default export at most. *)
TypeOK ==
    /\ kind \in {"source", "component", "spec"}
    /\ body \in Seq(Statement) /\ Len(body) <= MaxStatements
    /\ \A i, j \in DOMAIN body : (body[i].default /\ body[j].default) => i = j

(* The three rules together leave one piece of runtime code to a file, in      *)
(* whatever form it is written: a declaration, an arrow, a class expression,   *)
(* a default export.                                                           *)
OneRuntimePerFile == (~ Relaxed /\ ~ Refused) => Cardinality(Runtimes) <= 1

(* Runtime code stands next to a type in a component only, and then next to    *)
(* exactly one and nothing else the rules see.                                 *)
OnlyComponentsMix ==
    (~ Relaxed /\ ~ Refused /\ Runtimes # {} /\ (\A i \in DOMAIN body : Seen(body[i]))) =>
        \/ Declarations = {}
        \/ /\ kind = "component" /\ Len(body) = 2
           /\ {body[1].shape, body[2].shape} \in {{"type", "function"}, {"type", "arrow"}}

(* The rule's description: do not mix functions or classes with types,         *)
(* interfaces or constants in one file.                                        *)
NoMixedDeclarations ==
    (kind = "source" /\ ~ Refused /\ Runtimes # {}) => Declarations = {}
==========================================================================
