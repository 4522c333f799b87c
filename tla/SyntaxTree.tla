------------------------------ MODULE SyntaxTree ------------------------------
(***************************************************************************)
(* Syntax trees of contract source, as acorn builds them: a node has a     *)
(* type, a word (a name, an operator, a flag of that type of node) and its *)
(* children in the order of the node's keys.  A missing child is None.     *)
(*                                                                         *)
(* Layout of the children, where a list follows the fixed ones:            *)
(*   CallExpression, NewExpression   callee, arguments                     *)
(*   functions                       body, params                          *)
(*   SwitchCase                      test, consequent                      *)
(*   SwitchStatement                 discriminant, cases                   *)
(***************************************************************************)
EXTENDS Naturals, Sequences, FiniteSets

Node(t, w, k) == [t |-> t, w |-> w, k |-> k]

None == Node("None", "", <<>>)

astIdent(name)       == Node("Identifier", name, <<>>)
astLiteral(value)    == Node("Literal", value, <<>>)
astArray(elements)   == Node("ArrayExpression", "", elements)
astCall(name, args)  == Node("CallExpression", "", <<astIdent(name)>> \o args)
Stmt(e)              == Node("ExpressionStatement", "", <<e>>)
Block(body)          == Node("BlockStatement", "", body)
Sequence(es)         == Node("SequenceExpression", "", es)
Spread(e)            == Node("SpreadElement", "", <<e>>)
Throw(e)             == Node("ThrowStatement", "", <<e>>)
Return(e)            == Node("ReturnStatement", "", <<e>>)
Try(b, h, f)         == Node("TryStatement", "", <<b, h, f>>)
Catch(p, b)          == Node("CatchClause", "", <<p, b>>)
Let(id, init)        == Node("VariableDeclaration", "let",
                             <<Node("VariableDeclarator", "", <<id, init>>)>>)

Functions == {"FunctionDeclaration", "FunctionExpression", "ArrowFunctionExpression"}
Patterns  == {"ArrayPattern", "ObjectPattern"}

IsFunction(n) == n.t \in Functions
IsBlock(n)    == n.t = "BlockStatement"

\* The same node with other children.
With(n, k) == [n EXCEPT !.k = k]

RECURSIVE Nodes(_)

\* Every node of a tree.
Nodes(n) == {n} \cup UNION {Nodes(n.k[i]) : i \in 1..Len(n.k)}

RECURSIVE Size(_)
Size(n) == LET SumTo[i \in 0..Len(n.k)] == IF i = 0 THEN 1 ELSE SumTo[i - 1] + Size(n.k[i])
           IN  SumTo[Len(n.k)]
===============================================================================
