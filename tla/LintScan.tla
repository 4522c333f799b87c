-------------------------------- MODULE LintScan --------------------------------
(***************************************************************************)
(* The scanners of the consensus lint (lint-core/), over syntax trees: the *)
(* parser has taken the source, and a scanner says which rules it breaks.  *)
(*                                                                         *)
(* flags are the refinements the block has armed, as in SourceLint.        *)
(***************************************************************************)
EXTENDS SyntaxTree

BANNED_MATH_MEMBERS       == {"sqrt", "pow", "log", "log2", "log10"}
SAFE_MATH_MEMBERS         == {"floor", "ceil", "round", "abs", "min", "max", "sign", "trunc", "PI", "E"}
RESERVED_CONTROL_BINDINGS == {"__contractCode", "__methodName", "__isCrossCall", "__readManifest"}

\* A literal is a string unless its word says what it is.
IsString(n) == n.t = "Literal" /\ n.w \notin {"0", "1", "true", "bigint", "regex"}

-------------------------------------------------------------------------------
(* What acorn-walk visits, with the ancestors: a name that a pattern binds is  *)
(* no Identifier to a visitor, a key that is not computed is not walked.       *)

PatternAt(n, i, inPattern) ==
    CASE n.t \in {"VariableDeclarator", "CatchClause", "AssignmentExpression", "AssignmentPattern",
                  "RestElement", "ForInStatement", "ForOfStatement"} -> i = 1
      [] n.t \in Functions -> i > 1
      [] n.t \in Patterns  -> TRUE
      [] n.t = "Property"  -> inPattern /\ i = 2
      [] OTHER             -> FALSE

KeyAt(n, i) == n.w # "computed" /\ <<n.t, i>> \in {<<"MemberExpression", 2>>, <<"Property", 1>>}

RECURSIVE Visits(_, _, _)
Visits(n, up, inPattern) ==
    (IF n.t = "None" \/ (inPattern /\ n.t = "Identifier") THEN {} ELSE {[n |-> n, up |-> up]})
    \cup UNION {Visits(n.k[i], Append(up, n), PatternAt(n, i, inPattern))
                  : i \in {j \in DOMAIN n.k : ~KeyAt(n, j)}}

Visited(ast, type) == {v \in Visits(ast, <<>>, FALSE) : v.n.t = type}

-------------------------------------------------------------------------------
(* scope_analysis.js: static keys, references to the global object and Math *)

NoKey == ""

\* Of a template only one without expressions is static: its word is the text.
StaticKey(e) == IF IsString(e) \/ (e.t = "TemplateLiteral" /\ e.k = <<>>) THEN e.w ELSE NoKey

staticMemberKey(n) ==
    CASE n.t # "MemberExpression" -> NoKey
      [] n.w = "computed"         -> StaticKey(n.k[2])
      [] OTHER                    -> n.k[2].w

staticPatternKey(p) ==
    CASE p.t # "Property"   -> NoKey
      [] p.w = "computed"   -> StaticKey(p.k[1])
      [] p.k[1].t = "Identifier" \/ IsString(p.k[1]) -> p.k[1].w
      [] OTHER              -> NoKey

NestedPattern(v) ==
    CASE v.t = "ObjectPattern" -> v
      [] v.t = "AssignmentPattern" /\ v.k[1].t = "ObjectPattern" -> v.k[1]
      [] OTHER -> None

RECURSIVE PatternPaths(_)
PatternPaths(pat) ==
    UNION {LET key == staticPatternKey(pat.k[i])
               sub == IF key = NoKey THEN None ELSE NestedPattern(pat.k[i].k[2])
           IN  IF key = NoKey THEN {}
               ELSE {<<key>>} \cup {<<key>> \o path : path \in PatternPaths(sub)} : i \in DOMAIN pat.k}

\* What an initialiser or an assignment destructures: the source and a path of keys.
objectPatternEntries(n) ==
    IF /\ n.t = "VariableDeclarator" \/ (n.t = "AssignmentExpression" /\ n.w = "=")
       /\ n.k[1].t = "ObjectPattern" /\ n.k[2] # None
    THEN {[source |-> n.k[2], path |-> path] : path \in PatternPaths(n.k[1])}
    ELSE {}

Unchained(n, flags) == IF "optionalChain" \in flags /\ n.t = "ChainExpression" THEN n.k[1] ELSE n

RECURSIVE isGlobalObjectRef(_, _)
isGlobalObjectRef(node, flags) ==
    LET n == Unchained(node, flags) IN
    \/ n.t = "Identifier" /\ n.w = "globalThis"
    \/ "globalAlias" \in flags /\ n.t = "ThisExpression"
    \/ "globalAlias" \in flags /\ staticMemberKey(n) = "globalThis" /\ isGlobalObjectRef(n.k[1], flags)

isGlobalObjectPathRef(n, path, flags) ==
    /\ isGlobalObjectRef(n, flags)
    /\ path # <<>> => "globalAlias" \in flags /\ \A i \in DOMAIN path : path[i] = "globalThis"

isMathObjectRef(node, flags) ==
    LET n == Unchained(node, flags) IN
    \/ n.t = "Identifier" /\ n.w = "Math"
    \/ n.t = "MemberExpression" /\ isGlobalObjectRef(n.k[1], flags) /\ staticMemberKey(n) = "Math"

ButLast(path) == SubSeq(path, 1, Len(path) - 1)

isMathObjectPathRef(n, path, flags) ==
    IF path = <<>> THEN isMathObjectRef(n, flags)
    ELSE path[Len(path)] = "Math" /\ isGlobalObjectPathRef(n, ButLast(path), flags)

RECURSIVE patternDeclares(_, _)
patternDeclares(p, name) ==
    CASE p.t = "Identifier" -> p.w = name
      [] p.t \in {"AssignmentPattern", "RestElement"} -> patternDeclares(p.k[1], name)
      [] p.t = "Property"   -> patternDeclares(p.k[2], name)
      [] p.t \in Patterns   -> \E i \in DOMAIN p.k : patternDeclares(p.k[i], name)
      [] OTHER              -> FALSE

DeclarationDeclares(s, name) ==
    s.t = "VariableDeclaration" /\ \E i \in DOMAIN s.k : patternDeclares(s.k[i].k[1], name)

\* Only what stands directly in the scope counts: a var further in does not.
scopeDeclares(n, name) ==
    CASE IsFunction(n) -> n.w = name \/ \E i \in 2..Len(n.k) : patternDeclares(n.k[i], name)
      [] n.t = "CatchClause" -> patternDeclares(n.k[1], name)
      [] n.t \in {"Program", "BlockStatement", "SwitchCase"} ->
           \E i \in (IF n.t = "SwitchCase" THEN 2 ELSE 1)..Len(n.k) :
              DeclarationDeclares(n.k[i], name) \/ (n.k[i].t = "FunctionDeclaration" /\ n.k[i].w = name)
      [] n.t \in {"ForStatement", "ForInStatement", "ForOfStatement"} -> DeclarationDeclares(n.k[1], name)
      [] OTHER -> FALSE

\* Mutant: a declaration anywhere in the source excuses the name.
DeclaredAnywhere(v, name) == \E n \in Nodes(v.up[1]) : scopeDeclares(n, name)

Declared(v, name) == \E i \in DOMAIN v.up : scopeDeclares(v.up[i], name)

-------------------------------------------------------------------------------
(* banned_globals.js *)

\* What the declarations and assignments of a source destructure.
Destructured(ast, flags) ==
    IF "destructure" \notin flags THEN {}
    ELSE UNION {objectPatternEntries(v.n) :
                  v \in Visited(ast, "VariableDeclarator") \cup Visited(ast, "AssignmentExpression")}

destructuredGlobalEntries(ast, name, flags) ==
    {e \in Destructured(ast, flags) :
        e.path[Len(e.path)] = name /\ isGlobalObjectPathRef(e.source, ButLast(e.path), flags)}

GlobalMember(ast, names, flags) ==
    \E v \in Visited(ast, "MemberExpression") :
        isGlobalObjectRef(v.n.k[1], flags) /\ staticMemberKey(v.n) \in names

findBannedAsync(ast, flags) ==
    \/ \E n \in Nodes(ast) : n.t = "AwaitExpression" \/ (IsFunction(n) /\ n.w = "async")
    \/ "hardening" \in flags /\ Visited(ast, "ImportExpression") # {}
    \/ \E v \in Visited(ast, "Identifier") :
          v.n.w = "Promise" /\ ~("hardening" \in flags /\ Declared(v, "Promise"))
    \/ GlobalMember(ast, {"Promise"}, flags)
    \/ destructuredGlobalEntries(ast, "Promise", flags) # {}

findBannedGenerator(ast) ==
    \E n \in Nodes(ast) : n.t = "YieldExpression" \/ (IsFunction(n) /\ n.w = "generator")

findBannedWasm(ast, flags) ==
    \/ \E v \in Visited(ast, "Identifier") : v.n.w = "WebAssembly" /\ ~Declared(v, "WebAssembly")
    \/ GlobalMember(ast, {"WebAssembly"}, flags)
    \/ destructuredGlobalEntries(ast, "WebAssembly", flags) # {}

-------------------------------------------------------------------------------
(* banned_syntax.js and banned_with.js *)

MathMemberBanned(member, flags) ==
    \/ member \in BANNED_MATH_MEMBERS
    \/ "hardening" \in flags /\ member \notin SAFE_MATH_MEMBERS \cup {NoKey}

findBannedMathCalls(ast, flags) ==
    \/ \E v \in Visited(ast, "MemberExpression") :
          isMathObjectRef(v.n.k[1], flags) /\ MathMemberBanned(staticMemberKey(v.n), flags)
    \/ \E e \in Destructured(ast, flags) :
          isMathObjectPathRef(e.source, ButLast(e.path), flags) /\ MathMemberBanned(e.path[Len(e.path)], flags)

findBannedExponentiation(ast) ==
    \E n \in Nodes(ast) : <<n.t, n.w>> \in {<<"BinaryExpression", "**">>, <<"AssignmentExpression", "**=">>}

findReservedControlBinding(ast) ==
    \E n \in Nodes(ast) : n.t = "Identifier" /\ n.w \in RESERVED_CONTROL_BINDINGS

findBannedLiterals(ast) == \E v \in Visited(ast, "Literal") : v.n.w \in {"bigint", "regex"}

findBannedWith(ast) == Visited(ast, "WithStatement") # {}

\* Mutant: a rest anywhere below an initialiser or an assignment is let through.
bannedRestKindDeep(stack) ==
    IF \E i \in DOMAIN stack : stack[i].t \in {"VariableDeclarator", "AssignmentExpression"} /\ stack[i].k[2] # None
    THEN "none" ELSE "nested rest"

\* A rest element that phase 0 of the meter charges: directly in the pattern of
\* an initialiser or an assignment.
bannedRestKind(stack) ==
    LET n      == Len(stack)
        parent == stack[n]
        gp     == stack[n - 1]
        outside == {i \in 1..n : stack[i].t \notin Patterns \cup {"Property", "AssignmentPattern", "RestElement"}}
        owner  == stack[CHOOSE i \in outside : \A j \in outside : j <= i]
    IN  CASE /\ n >= 2 /\ parent.t \in Patterns /\ gp.k[1] = parent
             /\ \/ gp.t = "VariableDeclarator" /\ gp.k[2] # None
                \/ gp.t = "AssignmentExpression" /\ gp.w = "=" -> "none"
          [] OTHER ->
             IF outside = {} THEN "nested rest"
             ELSE CASE IsFunction(owner) -> "rest parameter"
                    [] owner.t = "CatchClause" -> "catch-clause rest"
                    [] owner.t \in {"ForInStatement", "ForOfStatement"}
                       \/ (owner.t = "VariableDeclarator" /\ owner.k[2] = None) -> "for-loop-head rest"
                    [] OTHER -> "nested rest"

RECURSIVE collectBannedRest(_, _)
collectBannedRest(n, stack) ==
    (IF n.t = "RestElement" THEN {bannedRestKind(stack)} \ {"none"} ELSE {})
    \cup UNION {collectBannedRest(n.k[i], Append(stack, n)) : i \in DOMAIN n.k}

findBannedRest(ast) == collectBannedRest(ast, <<>>)

-------------------------------------------------------------------------------
(* result_composition.js: the consensus rules a source breaks, and that block *)

BrokenRules(ast, flags) ==
    {r \in {"reserved-identifier", "banned-math", "banned-literal", "banned-async",
            "banned-generator", "banned-rest", "banned-wasm", "banned-with"} :
       CASE r = "reserved-identifier" -> "hardening" \in flags /\ findReservedControlBinding(ast)
         [] r = "banned-math"      -> \/ findBannedMathCalls(ast, flags)
                                      \/ "hardening" \in flags /\ findBannedExponentiation(ast)
         [] r = "banned-literal"   -> findBannedLiterals(ast)
         [] r = "banned-async"     -> "async" \in flags /\ findBannedAsync(ast, flags)
         [] r = "banned-generator" -> "pkg3" \in flags /\ findBannedGenerator(ast)
         [] r = "banned-rest"      -> "rest" \in flags /\ findBannedRest(ast) # {}
         [] r = "banned-wasm"      -> "pkg3" \in flags /\ findBannedWasm(ast, flags)
         [] r = "banned-with"      -> "with" \in flags /\ findBannedWith(ast)}
===============================================================================
