----------------------------- MODULE MeteringCheck -----------------------------
(***************************************************************************)
(* The way of a source: its tokens are scanned, the parsed tree is linted  *)
(* and, when no rule blocks it, metered; the runs of the metered tree are  *)
(* compared with those of the source.                                      *)
(***************************************************************************)
EXTENDS MeteredRun, LintScan, SyntaxDepth

CONSTANTS Inputs    \* sources, each with the gates, lint flags and limits of a block

VARIABLES source, opts, metered, verdict

vars == <<source, opts, metered, verdict>>

Init ==
    /\ \E i \in Inputs : source = i.source /\ opts = i.opts
    /\ metered = None
    /\ verdict = "pending"

\* preParseFinding: nothing is parsed when the tokens are too deep.
TooDeep ==
    LET tokens == Tokens(source)
    IN  findNestingDepth(tokens, opts.maxNesting) \/ findSyntaxDepth(tokens, opts.maxDepth)

Scan ==
    /\ verdict = "pending"
    /\ verdict' = IF TooDeep THEN "too deep" ELSE "parsed"
    /\ UNCHANGED <<source, opts, metered>>

Blocked == findReservedIdentifier(source) # {} \/ BrokenRules(source, opts.lint) # {}

Reject ==
    /\ verdict = "parsed" /\ Blocked
    /\ verdict' = "rejected"
    /\ UNCHANGED <<source, opts, metered>>

Meter ==
    /\ verdict = "parsed" /\ ~Blocked
    /\ verdict' = "metered"
    /\ metered' = meterCode(source, opts)
    /\ UNCHANGED <<source, opts>>

Next == Scan \/ Reject \/ Meter
Spec == Init /\ [][Next]_vars

-------------------------------------------------------------------------------
(* Properties of the metered runs *)

Metered == verdict = "metered"

Bound(ast) == {n.k[1].w : n \in {x \in Nodes(ast) : x.t = "CatchClause" /\ x.k[1].t = "Identifier"}}
              \cup LET chosen == chooseNames(source) IN {chosen.caught, chosen.flag, chosen.token}

RunsOf(ast, failures) == Runs(ast, 0, Env(Bound(ast), failures))

Hooks == {"gas", "size", "enter", "exit"}
Erase(tr, others) == SelectSeq([i \in DOMAIN tr |-> tr[i][1]], LAMBDA x : x \notin Hooks \cup others)

Behaviours(ast, others, failures) == {<<Erase(r.tr, others), r.end>> : r \in RunsOf(ast, failures)}

Count(tr, xs) == Cardinality({i \in DOMAIN tr : tr[i][1] \in xs})

PlusEqualsMember(ast) ==
    \E n \in Nodes(ast) : n.t = "AssignmentExpression" /\ n.w = "+=" /\ n.k[1].t = "MemberExpression"

\* The source with every call that an optional chain goes on from in parentheses.
RECURSIVE CallsEndChains(_)
CallsEndChains(n) ==
    LET m == MapKids(n, CallsEndChains)
    IN  IF m.t \in {"MemberExpression", "CallExpression"} /\ m.k[1].t = "CallExpression"
        THEN With(m, <<Sequence(<<m.k[1]>>)>> \o Tail(m.k)) ELSE m

\* The metered contract does what its source does, in the source's order: the
\* same reads, calls, writes and throws, whatever way each test goes.  One thing
\* it does otherwise: the charge puts a call in parentheses, and these end an
\* optional chain, so that in o?.m().n() a missing o throws in the metered
\* contract and gives undefined in its source (injectCallGas).  Copies of
\* spread values and the lookup of a member tag are left out, for the helpers do
\* those after the arguments; so is o.p += e before the evaluation-order gate,
\* when the helper read o.p after e.
SameBehaviour ==
    Metered /\ (opts.specEvalOrder \/ ~PlusEqualsMember(source))
    => Behaviours(CallsEndChains(source), {"copy", "take", "tag"}, {})
         = Behaviours(metered, {"copy", "take", "tag"}, {})

\* A run that was not cut short has charged for each iteration of a loop, each
\* call expression and each entry of a function, besides the charge every script
\* begins with.  (Neither new nor a tagged template is charged where it stands:
\* the function it enters is, and so are spread arguments and long strings.)
\* Once the spread and rest gates are on, every copy the engine makes is charged
\* too, because lint rejects the rest patterns whose source the transform cannot
\* wrap.
EverythingCharged ==
    Metered => \A r \in RunsOf(metered, {"copy"}) : r.end \notin Thrown =>
        /\ Count(r.tr, {"gas"}) >= 1 + Count(r.tr, {"iter", "call", "entry"})
        /\ opts.meterCallSpread /\ opts.meterRestPattern => Count(r.tr, {"size"}) >= Count(r.tr, {"copy"})

\* Whatever a contract function does, and however it is left, the depth counter
\* stands at the number of function bodies that are live: no throw, return, break
\* or fault skips an exit or runs one twice.  (Parameters are bound outside their
\* function's guard.)
DepthTracksFrames ==
    Metered => \A r \in RunsOf(metered, {"copy", "meter"}) : \A i \in DOMAIN r.tr :
        r.tr[i][1] \notin Hooks \cup {"entry", "fault"} =>
            LET before == SubSeq(r.tr, 1, i)
            IN  Count(before, {"enter"}) - Count(before, {"exit"})
                  = r.tr[i][2] + (IF opts.nativeStackTerminal THEN 1 ELSE 0)

\* Before the native stack activation the charge of a handler follows the
\* evaluation of its parameter.
CatchPattern(ast) == \E n \in Nodes(ast) : n.t = "CatchClause" /\ n.k[1].t \in Patterns

\* After a meter fault, and once armed after the engine's own overflow too, no
\* operation of the contract runs: no catch, finally, return or break of the
\* contract swallows the fault.
NothingAfterFault ==
    Metered /\ (opts.nativeStackTerminal \/ ~CatchPattern(source)) =>
        \A r \in RunsOf(metered, {"meter"} \cup (IF opts.nativeStackTerminal THEN {"native"} ELSE {})) :
            \A i, j \in DOMAIN r.tr :
                i < j /\ r.tr[i][1] \in {"fault", "overflow"} => r.tr[j][1] \in {"fault", "overflow", "exit"}

\* An optional chain and its member are two levels of the tree and one token.
ChainSlack == IF \E n \in Nodes(source) : n.t = "ChainExpression" THEN 1 ELSE 0

\* The scan bounds the depth of the tree that every recursive pass walks (but for
\* one level, however many optional chains there are), and stopping early never
\* changes what it finds: for each limit the verdict is that of the whole bound.
ScanBoundsDepth ==
    verdict = "pending" =>
        LET tokens == Tokens(source)
            bound  == scanSyntaxDepth(tokens, opts.maxDepth + Len(tokens) * 10)
        IN  /\ Depth(source) <= bound + ChainSlack
            /\ \A limit \in (bound - 2)..bound : findSyntaxDepth(tokens, limit) <=> bound > limit

-------------------------------------------------------------------------------
(* Reference: what a source reads, as the language defines it *)

Step(path, key) == IF path = <<>> /\ key = "globalThis" THEN <<>> ELSE Append(path, key)

\* The path from the global object to what an expression denotes.
RECURSIVE Denotes(_)
Denotes(n) ==
    CASE n.t = "ChainExpression" -> Denotes(n.k[1])
      [] n.t = "ThisExpression"  -> <<>>
      [] n.t = "Identifier"      -> Step(<<>>, n.w)
      [] n.t = "MemberExpression" /\ staticMemberKey(n) # NoKey -> Step(Denotes(n.k[1]), staticMemberKey(n))
      [] OTHER                   -> <<"unknown">>

RECURSIVE PatternReads(_, _)
PatternReads(p, from) ==
    CASE p.t = "AssignmentPattern" -> PatternReads(p.k[1], from)
      [] p.t = "Property"          -> LET to == Step(from, p.k[1].w) IN {to} \cup PatternReads(p.k[2], to)
      [] p.t = "ObjectPattern"     -> UNION {PatternReads(p.k[i], from) : i \in DOMAIN p.k}
      [] OTHER                     -> {}

\* The nodes of one function's own body.
RECURSIVE OwnNodes(_)
OwnNodes(n) == {n} \cup (IF IsFunction(n) THEN {} ELSE UNION {OwnNodes(n.k[i]) : i \in DOMAIN n.k})

\* Whether the language finds a binding of a name in an enclosing scope: a var
\* is visible in the whole body of its function, let only in its block.
Binds(v, i, name) ==
    LET n == v.up[i]  next == IF i = Len(v.up) THEN v.n ELSE v.up[i + 1] IN
    CASE IsFunction(n) \/ n.t = "Program" ->
           LET body == IF IsFunction(n) THEN n.k[1] ELSE n IN
           \/ IsFunction(n) /\ (n.w = name \/ \E j \in 2..Len(n.k) : patternDeclares(n.k[j], name))
           \/ (IsFunction(n) => next = body)
              /\ \E s \in OwnNodes(body) : s.w # "let" /\ DeclarationDeclares(s, name)
           \/ n.t = "Program" /\ scopeDeclares(n, name)
      [] n.t = "SwitchStatement" -> \E j \in 2..Len(n.k) : scopeDeclares(n.k[j], name)
      [] OTHER -> scopeDeclares(n, name)

Free(v) == v.n.t = "Identifier" => \A i \in DOMAIN v.up : ~Binds(v, i, v.n.w)

Reads(ast) ==
    {Denotes(v.n) : v \in {x \in Visits(ast, <<>>, FALSE) : x.n.t \in {"Identifier", "MemberExpression"} /\ Free(x)}}
    \cup UNION {PatternReads(n.k[1], Denotes(n.k[2])) : n \in {x \in Nodes(ast) :
                  x.t \in {"VariableDeclarator", "AssignmentExpression"} /\ x.k[2] # None}}

Forbidden(path) ==
    \/ path \in {<<"Promise">>, <<"WebAssembly">>}
    \/ Len(path) = 2 /\ path[1] = "Math" /\ path[2] \notin SAFE_MATH_MEMBERS

\* With every refinement armed, a contract that is accepted reads no banned
\* global and no banned member of Math under any static spelling: through this,
\* globalThis, its own aliases, an optional chain, a computed key, a template or
\* a pattern; and a local name excuses a read only where the language really
\* resolves the name to that local.
StaticReadsFlagged ==
    Metered /\ {"hardening", "globalAlias", "optionalChain", "destructure"} \subseteq opts.lint
    => \A path \in Reads(source) : ~Forbidden(path)
===============================================================================
