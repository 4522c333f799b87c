------------------------------- MODULE MCMetering -------------------------------
(***************************************************************************)
(* Small contracts for MeteringCheck.                                      *)
(***************************************************************************)
EXTENDS MeteringCheck

a == astIdent("a")
b == astIdent("b")
f == astIdent("f")
o == astIdent("o")
x == astIdent("x")

Expr(t, w, k) == Node(t, w, k)
Dot(e, p)     == Expr("MemberExpression", "", <<e, astIdent(p)>>)
At(e, k)      == Expr("MemberExpression", "computed", <<e, k>>)
Call(e, args) == Expr("CallExpression", "", <<e>> \o args)
Op(w, l, r)   == Expr("BinaryExpression", w, <<l, r>>)
Set(w, l, r)  == Expr("AssignmentExpression", w, <<l, r>>)
Arrow(e)      == Expr("ArrowFunctionExpression", "", <<e>>)
Func(body)    == Expr("FunctionExpression", "", <<Block(body)>>)
Prop(w, k, v) == Expr("Property", w, <<k, v>>)
Object(props) == Expr("ObjectExpression", "", props)
Template(es)  == Expr("TemplateLiteral", "", es)

Maybe(e, p)   == Expr("MemberExpression", "optional", <<e, astIdent(p)>>)
Chain(e)      == Expr("ChainExpression", "", <<e>>)

\* Optional chains that end in a call, or go on after one.
Chains(e) ==
    {Chain(Call(Maybe(o, "m"), <<Spread(e)>>)), Chain(Expr("CallExpression", "optional", <<f, e>>)),
     Chain(Call(Dot(Call(Maybe(o, "m"), <<>>), "n"), <<e>>)), Chain(Call(Call(Maybe(o, "m"), <<e>>), <<b>>)),
     Chain(Call(Maybe(Call(Maybe(o, "m"), <<e>>), "n"), <<>>)), Chain(At(Call(Maybe(o, "m"), <<>>), e)),
     Chain(Call(Dot(Maybe(o, "p"), "n"), <<e>>))}

\* Every form of expression the transform treats, over a subexpression.
Over(e) ==
    {e, Op("+", e, b), Op("-", Op("-", e, a), b), Dot(e, "p"), Call(f, <<e>>), Call(Dot(o, "m"), <<e>>),
     Call(Arrow(e), <<>>), Call(Func(<<Stmt(e), Return(b)>>), <<>>),
     Expr("ConditionalExpression", "", <<a, e, b>>), Template(<<e, b>>),
     Expr("TaggedTemplateExpression", "", <<f, Template(<<e>>)>>),
     Expr("TaggedTemplateExpression", "", <<Dot(o, "t"), Template(<<e>>)>>),
     astArray(<<a, None, Spread(e)>>), Object(<<Spread(e), Prop("", astIdent("k"), b)>>),
     Object(<<Spread(e), Prop("method", astIdent("m"), Func(<<>>))>>),
     Call(f, <<Spread(e), b>>), Expr("NewExpression", "", <<f, Spread(e)>>),
     Set("+=", x, e), Set("+=", Dot(o, "p"), e), Set("+=", At(o, a), e), Set("=", x, e)}
    \cup Chains(e)

Expressions == UNION {Over(e) : e \in {a, Call(f, <<>>), Op("+", a, b), Set("+=", Dot(o, "p"), b)}}

Work   == Stmt(Call(f, <<>>))
Breaks == Node("BreakStatement", "", <<>>)
Object1(e) == Node("ObjectPattern", "", <<Prop("", astIdent("q"), Node("AssignmentPattern", "", <<astIdent("q"), e>>))>>)
Rest(t) == Node(t, "", <<Node("RestElement", "", <<astIdent("c")>>)>>)

Handlers == {None} \cup {Catch(p, Block(s)) : p \in {None, astIdent("e"), Object1(Dot(o, "p"))},
                                             s \in {<<>>, <<Work>>, <<Throw(astIdent("e"))>>}}
Finals   == {None} \cup {Block(<<s>>) : s \in {Stmt(a), Breaks, Return(b)}}

Tries(body) == {Try(Block(<<body>>), h, z) : h \in Handlers, z \in Finals} \ {Try(Block(<<body>>), None, None)}

Statements ==
    {Stmt(e) : e \in Expressions}
    \cup {Node("IfStatement", "", <<a, s, t>>) : s \in {Work, Block(<<Work>>)},
              t \in {None, Work, Node("IfStatement", "", <<b, Work, Work>>)}}
    \cup {Node("WhileStatement", "", <<Call(f, <<>>), s>>) : s \in {Stmt(a), Block(<<Work, Breaks>>)}}
    \cup {Node("ForStatement", "", <<None, t, u, Work>>) : t \in {None, a}, u \in {None, Set("+=", x, a)}}
    \cup {Node(t, "", <<x, a, s>>) : t \in {"ForInStatement", "ForOfStatement"}, s \in {Stmt(a), Block(<<Work>>)}}
    \cup {Node("DoWhileStatement", "", <<s, Call(f, <<>>)>>) : s \in {Stmt(a), Block(<<Work, Breaks>>)}}
    \cup {Node("SwitchStatement", "", <<a, Node("SwitchCase", "", <<b, Work>>), Node("SwitchCase", "", <<o>>),
              Node("SwitchCase", "", <<None, Work, Breaks>>)>>)}
    \cup {Node("VariableDeclaration", "var", <<Node("VariableDeclarator", "", <<Rest(t), a>>)>>) : t \in Patterns}
    \cup {Stmt(Set("=", Rest(t), a)) : t \in Patterns}

\* A try is inside a loop, so that break has something to leave.
InLoop(s) == Node("WhileStatement", "", <<a, Block(<<s>>)>>)

Directive == Stmt(astLiteral("string"))

Whole(s)  == {Node("Program", "", <<s, Stmt(b)>>),
              Node("Program", "", <<Stmt(Call(Func(<<Directive, s, Return(a)>>), <<>>)), Stmt(b)>>)}

SmallPrograms == UNION {Whole(s) : s \in Statements \cup {InLoop(s) : s \in Tries(Work)}}

-------------------------------------------------------------------------------
(* Contracts that lint looks at *)

G      == astIdent("globalThis")
This   == Node("ThisExpression", "", <<>>)
Text(s) == Node("TemplateLiteral", s, <<>>)
\* Every static way to read a member.
Spelled(e, p) == {Dot(e, p), At(e, astLiteral(p)), At(e, Text(p)), Chain(Maybe(e, p))}

Globals == {G, This} \cup UNION {Spelled(e, "globalThis") : e \in {G, This}}
           \cup {Dot(Chain(Maybe(G, "globalThis")), "globalThis")}

MathRefs == {astIdent("Math")} \cup UNION {Spelled(e, "Math") : e \in Globals}

Reading == UNION {Spelled(e, p) : e \in Globals, p \in {"Promise", "WebAssembly", "Map"}}
           \cup UNION {Spelled(e, p) : e \in MathRefs, p \in {"pow", "cbrt", "floor"}}

Pattern(ps)  == Node("ObjectPattern", "", ps)
Named(p)     == Prop("", astIdent(p), astIdent("q"))
Defaulted(p) == Prop("", astIdent(p), Node("AssignmentPattern", "", <<astIdent("q"), a>>))
Deep(p, q)   == Pattern(<<Prop("", astIdent(p), q)>>)

Takes == {<<Pattern(<<n>>), g>> : n \in {Named("Promise"), Defaulted("WebAssembly"), Named("Map"),
                                          Prop("computed", astLiteral("Promise"), astIdent("q"))}, g \in Globals}
         \cup {<<Pattern(<<Named(p)>>), g>> : p \in {"pow", "floor"}, g \in MathRefs}
         \cup {<<Deep(p, q), g>> : p \in {"Math", "globalThis"}, g \in {G, This, Dot(G, "globalThis")},
                 q \in {Pattern(<<Named("pow")>>), Pattern(<<Named("Promise")>>),
                        Node("AssignmentPattern", "", <<Pattern(<<Named("log")>>), a>>)}}
         \cup {<<Deep("globalThis", Deep("Math", Pattern(<<Named("sqrt")>>))), G>>}

Declare(kind, id, init) == Node("VariableDeclaration", kind, <<Node("VariableDeclarator", "", <<id, init>>)>>)

Taking == {Declare("let", t[1], t[2]) : t \in Takes} \cup {Stmt(Set("=", t[1], t[2])) : t \in Takes}

\* A use of a banned name, and declarations of it at every place around it.
Use(n)    == Stmt(Call(astIdent(n), <<>>))
Local(n)  == {Declare(k, astIdent(n), a) : k \in {"var", "let"}}
             \cup {Node("FunctionDeclaration", n, <<Block(<<>>)>>)}
Params(n) == {astIdent(n), Node("AssignmentPattern", "", <<astIdent(n), a>>), Pattern(<<Prop("", astIdent("k"), astIdent(n))>>)}
Called(fn) == Stmt(Call(fn, <<>>))
Fn(name, body, params) == Expr("FunctionExpression", name, <<Block(body)>> \o params)

Scoped(n) ==
    {<<l, Use(n)>> : l \in Local(n)} \cup {<<Block(<<l>>), Use(n)>> : l \in Local(n)}
    \cup {<<Block(<<Use(n), l>>)>> : l \in Local(n)}
    \cup {<<Called(Fn("", <<Use(n)>>, <<p>>))>> : p \in Params(n)} \cup {<<Called(Fn(n, <<Use(n)>>, <<>>))>>}
    \cup {<<Called(Fn("", <<l>>, <<>>)), Use(n)>> : l \in Local(n)}
    \cup {<<Called(Fn("", <<l>>, <<Node("AssignmentPattern", "", <<astIdent("k"), astIdent(n)>>)>>))>> : l \in Local(n)}
    \cup {<<Try(Block(<<Work>>), Catch(astIdent(n), Block(<<Use(n)>>)), Block(<<Stmt(a)>>))>>,
           <<Try(Block(<<Work>>), Catch(astIdent(n), Block(<<>>)), Block(<<Use(n)>>))>>}
    \cup {<<Node(t, "", <<Declare("let", astIdent(n), None), a, Block(<<Use(n)>>)>>), s>>
             : t \in {"ForInStatement", "ForOfStatement"}, s \in {Stmt(a), Use(n)}}
    \cup {<<Node("SwitchStatement", "", <<a, Node("SwitchCase", "", <<b, l, Use(n)>>), Node("SwitchCase", "", <<o, c>>)>>)>>
             : l \in Local(n), c \in {Use(n), Stmt(a)}}

\* Rest patterns in every position.
RestAt(p) ==
    {<<Called(Expr("FunctionExpression", "", <<Block(<<>>), p>>))>>,
     <<Try(Block(<<Work>>), Catch(p, Block(<<>>)), None)>>,
     <<Node("ForOfStatement", "", <<p, a, Block(<<Work>>)>>)>>, <<Node("ForInStatement", "", <<p, a, Work>>)>>,
     <<Node("ForOfStatement", "", <<Declare("let", p, None), a, Block(<<Work>>)>>)>>,
     <<Declare("let", p, a)>>, <<Stmt(Set("=", p, a))>>,
     <<Node("ForStatement", "", <<Declare("let", p, a), a, None, Work>>)>>}

RestPatterns == {Rest(t) : t \in Patterns}
    \cup {Node("ArrayPattern", "", <<q>>) : q \in {Rest("ArrayPattern"), Node("RestElement", "", <<Rest("ArrayPattern")>>),
                 Node("AssignmentPattern", "", <<Rest("ObjectPattern"), b>>)}}
    \cup {Deep("k", Rest(t)) : t \in Patterns}

Banned == {Stmt(e) : e \in {Op("**", a, b), Set("**=", x, a), astLiteral("bigint"), astIdent("__methodName"),
                            Call(astIdent("__gas"), <<>>), Expr("ImportExpression", "", <<a>>),
                            Expr("FunctionExpression", "async", <<Block(<<>>)>>),
                            Expr("FunctionExpression", "generator", <<Block(<<>>)>>)}}
          \cup {Node("WithStatement", "", <<o, Work>>)}

LintPrograms ==
    {Node("Program", "", s) : s \in {<<Stmt(e)>> : e \in Reading} \cup {<<t>> : t \in Taking \cup Banned}
        \cup UNION {Scoped(n) : n \in {"Promise", "WebAssembly"}}
        \cup UNION {RestAt(p) : p \in RestPatterns}
        \cup {<<Called(Expr("FunctionExpression", "", <<Block(<<>>), Node("RestElement", "", <<astIdent("c")>>)>>))>>}}

-------------------------------------------------------------------------------
(* Contracts that nest without delimiters, and with them *)

Not(e)   == Expr("UnaryExpression", "", <<e>>)
Comma(e) == Sequence(<<a, e>>)
Iff(t, s, u) == Node("IfStatement", "", <<t, s, u>>)
Chained(e) == IF e.t \in {"MemberExpression", "CallExpression"} THEN e ELSE Dot(e, "p")

ExprAround(e) ==
    {Not(e), Op("-", e, b), Op("-", a, e), Dot(e, "p"), At(a, e), Call(e, <<a>>), Call(f, <<b, e>>),
     Expr("NewExpression", "", <<f, e>>), Arrow(e), Func(<<Return(e)>>), Comma(e), Set("=", x, e),
     Expr("ConditionalExpression", "", <<a, b, e>>), Expr("ConditionalExpression", "", <<e, a, b>>),
     Template(<<e>>), astArray(<<a, Spread(e)>>), Object(<<Prop("", astIdent("k"), e)>>),
     Expr("ChainExpression", "", <<Expr("MemberExpression", "optional", <<e, astIdent("m")>>)>>),
     Expr("ChainExpression", "", <<Chained(Expr("MemberExpression", "optional", <<e, astIdent("m")>>))>>)}

StmtAround(s) ==
    {Iff(a, s, None), Iff(a, Stmt(b), s), Node("WhileStatement", "", <<a, s>>), Node("LabeledStatement", "", <<s>>),
     Node("DoWhileStatement", "", <<s, a>>), Node("ForStatement", "", <<None, None, None, s>>),
     Node("ForOfStatement", "", <<x, a, s>>), Node("ForInStatement", "", <<x, Not(a), s>>), Block(<<Stmt(a), s>>), Try(Block(<<>>), None, Block(<<s>>)),
     Try(Block(<<>>), Catch(None, Block(<<s>>)), None), Node("FunctionDeclaration", "g", <<Block(<<s>>)>>),
     Node("SwitchStatement", "", <<a, Node("SwitchCase", "", <<None, s>>)>>), Node("WithStatement", "", <<a, s>>)}

StmtOf(e) == {Stmt(e), Declare("var", astIdent("v"), e), Throw(e), Iff(e, Stmt(a), None)}

Leaves == UNION {StmtOf(e) : e \in UNION {ExprAround(d) : d \in ExprAround(a)}}

Towers == LET one == UNION {StmtOf(e) : e \in UNION {ExprAround(d) : d \in {a, Comma(a)}}}
              two == UNION {StmtAround(s) : s \in one}
          IN  Leaves \cup two \cup UNION {StmtAround(s) : s \in UNION {StmtAround(u) : u \in StmtOf(Comma(Not(a)))}}

DeepPrograms == {Node("Program", "", <<s>>) : s \in Towers}

-------------------------------------------------------------------------------

AllLint == {"async", "hardening", "pkg3", "globalAlias", "rest", "optionalChain", "with", "destructure"}

\* Before the flag days; after those of the meter; with the native stack rules.
Gates(spec, armed, depth) ==
    [specEvalOrder |-> spec, meterCallSpread |-> spec, meterRestPattern |-> spec,
     nativeStackTerminal |-> armed, lint |-> IF spec THEN AllLint ELSE {},
     maxNesting |-> depth, maxDepth |-> depth]

High == 99

SmallInputs ==
    [source : SmallPrograms, opts : {Gates(FALSE, FALSE, High), Gates(TRUE, FALSE, High), Gates(TRUE, TRUE, High)}]
    \cup [source : LintPrograms, opts : {Gates(TRUE, TRUE, High)}]
    \cup [source : DeepPrograms, opts : {Gates(TRUE, TRUE, 2)}]
===============================================================================
