-------------------------------- MODULE Metering --------------------------------
(***************************************************************************)
(* The metering transform (metering.js and metering/): the phases that     *)
(* rewrite a contract's syntax tree so that it charges for what it does.   *)
(*                                                                         *)
(* acorn-walk calls a visitor after it walked the node's children, and a   *)
(* visitor changes its node in place, so a phase is a rewriting of the     *)
(* tree from the leaves up.  opts are the consensus gates of meterCode.    *)
(***************************************************************************)
EXTENDS SyntaxTree, SequencesExt, FiniteSetsExt

CONSTANTS
    BinaryChain,    \* left operands a chain of operators may have uncharged
    SlotsPerUnit,   \* SLOTS_PER_UNIT of frame_weight.js
    FixedSlots      \* FIXED_SLOTS of frame_weight.js

ASSUME MeteringAssumption == {BinaryChain, SlotsPerUnit, FixedSlots} \subseteq Nat \ {0}

MapKids(n, F(_)) == With(n, [i \in 1..Len(n.k) |-> F(n.k[i])])

AllocHelpers == {"__concat", "__setconcat", "__setconcatL", "__tmpl", "__tmpltag",
                 "__tmpltagm", "__arrspread", "__objspread", "__objspreadmeter"}
DepthHelpers == {"__depth_enter", "__depth_exit"}
Reserved     == {"__gas"} \cup AllocHelpers \cup DepthHelpers

-------------------------------------------------------------------------------
(* Building blocks: ast_builders.js *)

gasCallExpr      == astCall("__gas", <<astLiteral("1")>>)
gasCallStatement == Stmt(gasCallExpr)
wrapWithGas(e)   == Sequence(<<gasCallExpr, e>>)
ensureBlock(s)   == IF s = None \/ IsBlock(s) THEN s ELSE Block(<<s>>)
Charged(s)       == Block(<<gasCallStatement>> \o ensureBlock(s).k)

IsDirective(s) == s.t = "ExpressionStatement" /\ s.k[1].t = "Literal" /\ s.k[1].w = "string"

directivePrologueLength(body) ==
    Max({i \in 0..Len(body) : \A j \in 1..i : IsDirective(body[j])})

\* A body with statements put in after its directives.
AfterDirectives(body, skip, stmts) ==
    LET n == directivePrologueLength(body) + skip
    IN  SubSeq(body, 1, n) \o stmts \o SubSeq(body, n + 1, Len(body))

insertGasAfterDirectives(body) == AfterDirectives(body, 0, <<gasCallStatement>>)

memberKeyExpr(m) == IF m.w = "computed" THEN m.k[2] ELSE astLiteral(m.k[2].w)
arrowThunk(e)    == Node("ArrowFunctionExpression", "", <<e>>)

-------------------------------------------------------------------------------
(* Phase 0: operators and syntax that allocate become helper calls *)

HasKind(n, t) == \E i \in 1..Len(n.k) : n.k[i].t = t
restKind(pat) == IF pat.t \in Patterns /\ HasKind(pat, "RestElement") THEN pat.t ELSE "none"

Segment(kind, e) == astArray(<<astLiteral(kind), e>>)

meterRestSource(pat, src) ==
    CASE restKind(pat) = "ObjectPattern" -> astCall("__objspreadmeter", <<src>>)
      [] restKind(pat) = "ArrayPattern"  -> astCall("__arrspread", <<astArray(<<Segment("s", src)>>)>>)
      [] OTHER -> src

Segments(es) == astArray([i \in 1..Len(es) |->
    CASE es[i].t = "None"          -> astArray(<<astLiteral("h")>>)
      [] es[i].t = "SpreadElement" -> Segment("s", es[i].k[1])
      [] OTHER                     -> Segment("e", es[i])])

\* Mutant: o.p += e reads o.p after e, whatever the gate says.
convertConcatEager(n, opts) ==
    LET l == n.k[1]  r == n.k[2] IN
    CASE n.t = "BinaryExpression" -> astCall("__concat", <<l, r>>)
      [] l.t = "Identifier" -> Node("AssignmentExpression", "=", <<l, astCall("__concat", <<l, r>>)>>)
      [] OTHER              -> astCall("__setconcat", <<l.k[1], memberKeyExpr(l), r>>)

convertConcat(n, opts) ==
    LET l == n.k[1]  r == n.k[2] IN
    CASE n.t = "BinaryExpression" -> astCall("__concat", <<l, r>>)
      [] l.t = "Identifier" -> Node("AssignmentExpression", "=", <<l, astCall("__concat", <<l, r>>)>>)
      [] opts.specEvalOrder -> astCall("__setconcatL", <<l.k[1], memberKeyExpr(l), arrowThunk(r)>>)
      [] OTHER              -> astCall("__setconcat", <<l.k[1], memberKeyExpr(l), r>>)

\* The strings of a template are literals; the quasi of a tagged one stays as it is.
convertTaggedTemplate(n) ==
    LET tag == n.k[1]  exprs == astArray(n.k[2].k) IN
    IF tag.t = "MemberExpression"
    THEN astCall("__tmpltagm", <<tag.k[1], memberKeyExpr(tag), exprs>>)
    ELSE astCall("__tmpltag", <<tag, exprs>>)

convertTemplateLiteral(n) == astCall("__tmpl", <<astArray(n.k)>>)

convertArraySpread(n) == astCall("__arrspread", <<Segments(n.k)>>)

\* A method or an accessor among the properties keeps the literal as written.
convertObjectSpread(n) ==
    IF \E i \in 1..Len(n.k) : n.k[i].t = "Property" /\ n.k[i].w = "method"
    THEN MapKids(n, LAMBDA p : IF p.t = "SpreadElement"
                               THEN Spread(astCall("__objspreadmeter", p.k)) ELSE p)
    ELSE astCall("__objspread", <<astArray([i \in 1..Len(n.k) |->
           IF n.k[i].t = "SpreadElement" THEN Segment("s", n.k[i].k[1])
           ELSE Segment("p", astArray(<<IF n.k[i].w = "computed" THEN n.k[i].k[1]
                                        ELSE astLiteral(n.k[i].k[1].w), n.k[i].k[2]>>))])>>)

\* The native stack activation holds the pushed arguments while the call runs;
\* inside an optional chain the release is left out.
convertCallSpread(n, opts, inChain) ==
    LET args == Segments(Tail(n.k))
        call(more) == With(n, <<n.k[1], Spread(astCall("__arrspread", <<args>> \o more))>>)
    IN  CASE ~opts.nativeStackTerminal -> call(<<>>)
          [] inChain -> call(<<astLiteral("hold")>>)
          [] OTHER   -> astCall("__arrspread", <<call(<<astLiteral("hold")>>), astLiteral("release")>>)

convertRestPattern(n) == With(n, <<n.k[1], meterRestSource(n.k[1], n.k[2])>>)

convert(n, opts, inChain) ==
    CASE n.t = "BinaryExpression" /\ n.w = "+" -> convertConcat(n, opts)
      [] n.t = "AssignmentExpression" /\ n.w = "+=" /\ n.k[1].t \in {"Identifier", "MemberExpression"}
           -> convertConcat(n, opts)
      [] n.t = "TaggedTemplateExpression" -> convertTaggedTemplate(n)
      [] n.t = "TemplateLiteral" -> convertTemplateLiteral(n)
      [] n.t = "ArrayExpression" /\ HasKind(n, "SpreadElement") -> convertArraySpread(n)
      [] n.t = "ObjectExpression" /\ HasKind(n, "SpreadElement") -> convertObjectSpread(n)
      [] n.t \in {"CallExpression", "NewExpression"} /\ HasKind(n, "SpreadElement")
         /\ opts.meterCallSpread -> convertCallSpread(n, opts, inChain)
      [] n.t = "VariableDeclarator" /\ n.k[2] # None /\ opts.meterRestPattern -> convertRestPattern(n)
      [] n.t = "AssignmentExpression" /\ n.w = "=" /\ n.k[1].t \in Patterns
         /\ opts.meterRestPattern -> convertRestPattern(n)
      [] OTHER -> n

RECURSIVE recur(_, _, _)
recur(n, opts, inChain) ==
    LET in   == inChain \/ n.t = "ChainExpression"
        kids == [i \in 1..Len(n.k) |->
                    IF n.t = "TaggedTemplateExpression" /\ i = 2
                    THEN MapKids(n.k[2], LAMBDA e : recur(e, opts, in))
                    ELSE recur(n.k[i], opts, in)]
    IN  convert(With(n, kids), opts, inChain)

transformAllocators(ast, opts) == recur(ast, opts, FALSE)

-------------------------------------------------------------------------------
(* Phase 1: charges at the entry of functions, loops and branches *)

RECURSIVE freshName(_, _)
freshName(used, base) == IF base \in used THEN freshName(used, base \o "_") ELSE base

\* Local names of the armed rewrites, which the contract does not use.
chooseNames(ast) ==
    LET used == {n.w : n \in {x \in Nodes(ast) : x.t = "Identifier"}}
    IN  [caught |-> freshName(used, "__gasx"), flag |-> freshName(used, "__gasf"),
         token |-> freshName(used, "__gasd")]

gasCheckStatement(name) == Stmt(astCall("__gas", <<astLiteral("1"), astIdent(name)>>))

\* Mutant: a handler that names nothing, or takes its value apart, is charged
\* but does not look at what it caught.
armHandlerBlind(h, names) ==
    IF h.k[1].t = "Identifier"
    THEN Catch(h.k[1], Block(<<gasCheckStatement(h.k[1].w)>> \o h.k[2].k))
    ELSE Catch(h.k[1], Charged(h.k[2]))

armHandler(h, names) ==
    LET param == h.k[1]  body == h.k[2].k IN
    IF param.t = "Identifier"
    THEN Catch(param, Block(<<gasCheckStatement(param.w)>> \o body))
    ELSE Catch(astIdent(names.caught),
               Block(<<gasCheckStatement(names.caught)>>
                     \o (IF param = None THEN <<>> ELSE <<Let(param, astIdent(names.caught))>>)
                     \o body))

armTryStatement(n, names) ==
    LET block   == Charged(n.k[1])
        handler == IF n.k[2] = None THEN None ELSE armHandler(n.k[2], names)
        guarded == IF handler = None THEN block ELSE Block(<<Try(block, handler, None)>>)
        x       == astIdent(names.caught)
        record  == Catch(x, Block(<<Stmt(Node("AssignmentExpression", "=", <<astIdent(names.flag), x>>)),
                                    Throw(x)>>))
        final   == Block(<<gasCheckStatement(names.flag)>> \o n.k[3].k)
    IN  IF n.k[3] = None THEN Try(block, handler, None)
        ELSE Block(<<Let(astIdent(names.flag), None), Try(guarded, record, final)>>)

legacyTryStatement(n) ==
    Try(Charged(n.k[1]),
        IF n.k[2] = None THEN None ELSE Catch(n.k[2].k[1], Charged(n.k[2].k[2])),
        IF n.k[3] = None THEN None ELSE Charged(n.k[3]))

chargeFunctionEntry(n) ==
    With(n, <<IF IsBlock(n.k[1]) THEN Block(insertGasAfterDirectives(n.k[1].k))
              ELSE wrapWithGas(n.k[1])>> \o Tail(n.k))

chargeLoopBody(n) == With(n, Front(n.k) \o <<Charged(Last(n.k))>>)

\* The update of a for loop is charged too, and an absent one becomes a charge.
chargeFor(n) ==
    With(n, <<n.k[1], n.k[2], IF n.k[3] = None THEN gasCallExpr ELSE wrapWithGas(n.k[3]),
              Charged(n.k[4])>>)

\* An else-if is charged when its own if is visited.
chargeIf(n) ==
    With(n, <<n.k[1], Charged(n.k[2]),
              IF n.k[3] = None \/ n.k[3].t = "IfStatement" THEN n.k[3] ELSE Charged(n.k[3])>>)

\* The loops whose body is charged: it is the last child, or the first of a do.
BodyLoops == {"WhileStatement", "ForInStatement", "ForOfStatement"}

\* Mutant: the loop over the keys of an object has no visitor.
chargeBlockNoForIn(n, names) ==
    CASE IsFunction(n) -> chargeFunctionEntry(n)
      [] n.t = "ForStatement" -> chargeFor(n)
      [] n.t \in BodyLoops \ {"ForInStatement"} -> chargeLoopBody(n)
      [] n.t = "DoWhileStatement" -> With(n, <<Charged(n.k[1]), n.k[2]>>)
      [] n.t = "IfStatement" -> chargeIf(n)
      [] n.t = "SwitchCase" /\ Len(n.k) > 1 -> With(n, <<n.k[1], gasCallStatement>> \o Tail(n.k))
      [] n.t = "TryStatement" -> IF names.caught = "" THEN legacyTryStatement(n)
                                 ELSE armTryStatement(n, names)
      [] n.t = "ConditionalExpression" -> With(n, <<wrapWithGas(n.k[1]), n.k[2], n.k[3]>>)
      [] OTHER -> n

chargeBlock(n, names) ==
    CASE IsFunction(n) -> chargeFunctionEntry(n)
      [] n.t = "ForStatement" -> chargeFor(n)
      [] n.t \in BodyLoops -> chargeLoopBody(n)
      [] n.t = "DoWhileStatement" -> With(n, <<Charged(n.k[1]), n.k[2]>>)
      [] n.t = "IfStatement" -> chargeIf(n)
      [] n.t = "SwitchCase" /\ Len(n.k) > 1 -> With(n, <<n.k[1], gasCallStatement>> \o Tail(n.k))
      [] n.t = "TryStatement" -> IF names.caught = "" THEN legacyTryStatement(n)
                                 ELSE armTryStatement(n, names)
      [] n.t = "ConditionalExpression" -> With(n, <<wrapWithGas(n.k[1]), n.k[2], n.k[3]>>)
      [] OTHER -> n

RECURSIVE injectBlockGas(_, _)
injectBlockGas(n, names) == chargeBlock(MapKids(n, LAMBDA x : injectBlockGas(x, names)), names)

-------------------------------------------------------------------------------
(* Phase 2: long chains of binary operators *)

RECURSIVE binaryDepth(_)
binaryDepth(n) == IF n.t = "BinaryExpression" THEN 1 + binaryDepth(n.k[1]) ELSE 0

RECURSIVE WrapLeft(_, _)
WrapLeft(n, depth) ==
    IF n.k[1].t = "BinaryExpression" /\ depth < BinaryChain
    THEN With(n, <<WrapLeft(n.k[1], depth + 1), n.k[2]>>)
    ELSE With(n, <<wrapWithGas(n.k[1]), n.k[2]>>)

RECURSIVE injectBinaryDepthGas(_)
injectBinaryDepthGas(n) ==
    LET m == MapKids(n, injectBinaryDepthGas)
    IN  IF binaryDepth(m) > BinaryChain THEN WrapLeft(m, 0) ELSE m

-------------------------------------------------------------------------------
(* Phase 3: every call site, but not new and not the meter's own helpers *)

RECURSIVE injectCallGas(_)
injectCallGas(n) ==
    LET m == MapKids(n, injectCallGas)
    IN  IF m.t = "CallExpression"
           /\ ~(m.k[1].t = "Identifier" /\ m.k[1].w \in {"__gas"} \cup AllocHelpers)
        THEN wrapWithGas(m) ELSE m

-------------------------------------------------------------------------------
(* Frame weights: frame_weight.js *)

StatementHold ==
    [TryStatement |-> 3, ForInStatement |-> 6, ForOfStatement |-> 6, SwitchStatement |-> 2,
     ForStatement |-> 1, WhileStatement |-> 1, DoWhileStatement |-> 1, LabeledStatement |-> 0]

Sequential == {"Program", "BlockStatement", "VariableDeclaration", "IfStatement",
               "ExpressionStatement", "ReturnStatement", "ThrowStatement", "SwitchCase",
               "CatchClause", "EmptyStatement", "BreakStatement", "ContinueStatement"}

childrenOf(n) == SelectSeq(n.k, LAMBDA c : c # None)

RECURSIVE demand(_)
demand(n) ==
    LET kids == childrenOf(n)
        held == {0} \cup {i - 1 + demand(kids[i]) : i \in 1..Len(kids)}
        args == IF n.t \in {"CallExpression", "NewExpression"} THEN Len(n.k) + 1 ELSE 0
    IN  CASE IsFunction(n) -> 1
          [] n.t \in Sequential \cup DOMAIN StatementHold ->
               Max({0} \cup {demand(kids[i]) : i \in 1..Len(kids)})
               + (IF n.t \in DOMAIN StatementHold THEN StatementHold[n.t] ELSE 0)
          [] OTHER -> Max(held \cup {args}) + 1

RECURSIVE patternNames(_)
patternNames(p) ==
    LET sum(s) == FoldLeft(LAMBDA acc, x : acc + patternNames(x), 0, s)
    IN  CASE p.t = "Identifier" -> 1
          [] p.t \in {"AssignmentPattern", "RestElement"} -> patternNames(p.k[1])
          [] p.t = "Property" -> patternNames(p.k[2])
          [] p.t \in Patterns -> sum(p.k)
          [] OTHER -> 0

RECURSIVE localCount(_)
localCount(n) ==
    (CASE n.t = "VariableDeclarator" \/ n.t = "CatchClause" -> patternNames(n.k[1])
       [] n.t = "FunctionDeclaration" -> 1
       [] OTHER -> 0)
    + (IF IsFunction(n) THEN 0 ELSE FoldLeft(LAMBDA acc, x : acc + localCount(x), 0, n.k))

frameWeight(fn) ==
    LET params == IF IsFunction(fn)
                  THEN FoldLeft(LAMBDA acc, p : acc + patternNames(p) + 1, 0, Tail(fn.k)) ELSE 0
        body   == IF IsFunction(fn) THEN fn.k[1] ELSE fn
    IN  1 + (FixedSlots + params + localCount(body) + demand(body)) \div SlotsPerUnit

-------------------------------------------------------------------------------
(* Phase 4: the depth guard of every function *)

Weight(w) == Node("Literal", "weight", [i \in 1..w |-> None])

armedEnter(weight, token) == Let(astIdent(token), astCall("__depth_enter", <<Weight(weight)>>))
armedExit(token)          == Stmt(astCall("__depth_exit", <<astIdent(token), astLiteral("0")>>))

\* Mutant: the exit follows the body, without a finally.
wrapDepthGuardLeaks(fn, names) ==
    LET body == IF IsBlock(fn.k[1]) THEN fn.k[1].k ELSE <<Return(fn.k[1])>>
    IN  With(fn, <<Block(<<Stmt(astCall("__depth_enter", <<>>))>> \o body
                         \o <<Stmt(astCall("__depth_exit", <<>>))>>)>> \o Tail(fn.k))

wrapDepthGuard(fn, names) ==
    LET armed == names.caught # ""
        body  == IF IsBlock(fn.k[1]) THEN fn.k[1].k ELSE <<Return(fn.k[1])>>
        n     == directivePrologueLength(body)
        rest  == Block(SubSeq(body, n + 1, Len(body)))
        x     == astIdent(names.caught)
        guard == IF armed
                 THEN <<armedEnter(frameWeight(With(fn, <<Block(body)>> \o Tail(fn.k))), names.token),
                        Try(rest, Catch(x, Block(<<Stmt(astCall("__depth_exit", <<x>>)), Throw(x)>>)),
                            Block(<<armedExit(names.token)>>))>>
                 ELSE <<Stmt(astCall("__depth_enter", <<>>)),
                        Try(rest, None, Block(<<Stmt(astCall("__depth_exit", <<>>))>>))>>
    IN  With(fn, <<Block(SubSeq(body, 1, n) \o guard)>> \o Tail(fn.k))

RECURSIVE injectDepthGuards(_, _)
injectDepthGuards(n, names) ==
    LET m == MapKids(n, LAMBDA x : injectDepthGuards(x, names))
    IN  IF IsFunction(m) THEN wrapDepthGuard(m, names) ELSE m

chargeTopLevelFrame(ast, token) ==
    With(ast, AfterDirectives(ast.k, 1, <<armedEnter(frameWeight(ast), token)>>) \o <<armedExit(token)>>)

-------------------------------------------------------------------------------

Unarmed == [caught |-> "", flag |-> "", token |-> ""]

meterCode(ast, opts) ==
    LET names  == IF opts.nativeStackTerminal THEN chooseNames(ast) ELSE Unarmed
        phase0 == transformAllocators(ast, opts)
        phase1 == injectBlockGas(With(phase0, insertGasAfterDirectives(phase0.k)), names)
        phase2 == injectBinaryDepthGas(phase1)
        phase3 == injectCallGas(phase2)
        phase4 == injectDepthGuards(phase3, names)
    IN  IF opts.nativeStackTerminal THEN chargeTopLevelFrame(phase4, names.token) ELSE phase4

\* The first reserved name a source uses makes it unfit.
findReservedIdentifier(ast) == {n \in Nodes(ast) : n.t = "Identifier" /\ n.w \in Reserved}
===============================================================================
