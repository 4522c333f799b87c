------------------------------ MODULE SyntaxDepth ------------------------------
(***************************************************************************)
(* The scans that run before any parser: the depth of delimiters           *)
(* (lint-core/nesting_depth.js) and the bound on the depth of the syntax   *)
(* (lint-core/syntax_depth.js).  Both read the tokens once, without        *)
(* recursion.  A token is its acorn label.                                 *)
(***************************************************************************)
EXTENDS SyntaxTree, SequencesExt, FiniteSetsExt

OPENERS == {"(", "[", "{", "${"}
CLOSERS == {")", "]", "}"}

FRAME_CONSTANT(kind) == IF kind \in {"top", "{"} THEN 4 ELSE 2

PREFIX_LABELS   == {"if", "else", "while", "for", "do", "with", "switch", "try", "catch", "finally"}
CONTINUE_LABELS == {"else", "catch", "finally"}
LABEL_LEADERS   == {"none", ";", "}", ")", ":", "{", "else", "do"}

OP_LABELS == {"=", "_=", "!/~", "+/-", "?", "?.", ".", "=>", "...", "backQuote", "new", "in", "function",
              "return", "throw", "var", "case", "default", "import"}

\* What cannot go on with an expression that a closing brace ended.
NEW_STATEMENT_LABELS ==
    {"name", "num", "this", "import", "new", "!/~", "if", "for", "while", "do", "with", "switch",
     "try", "var", "return", "throw", "break", "function", "case", "default"}

OP_WEIGHT(label) == CASE label = "=>" -> 3 [] label = "(" -> 2 [] OTHER -> 1

-------------------------------------------------------------------------------
(* The frames of the scan *)

newFrame(kind) ==
    [kind |-> kind, prefix |-> 0, ops |-> 0, child |-> 0, best |-> 0, openDo |-> 0, pending |-> "none"]

SegmentValue(f)     == f.prefix + f.ops + f.child
closeSegment(f) == [f EXCEPT !.best = Max({@, SegmentValue(f)})]
resetSegment(f) == [f EXCEPT !.prefix = 0, !.ops = 0, !.child = 0]

Replace(stack, f) == [stack EXCEPT ![Len(stack)] = f]

\* The bound as it stands: the open segments of the frames around count.
depthNow(stack) ==
    LET outer == FoldLeft(LAMBDA sum, f : sum + FRAME_CONSTANT(f.kind) + f.prefix + f.ops, 0, Front(stack))
        f     == Last(stack)
    IN  outer + FRAME_CONSTANT(f.kind) + Max({f.best, SegmentValue(f)})

popFrame(stack) ==
    LET f      == closeSegment(Last(stack))
        weight == FRAME_CONSTANT(f.kind) + f.best
    IN  [Front(stack) EXCEPT ![Len(stack) - 1].child = Max({@, weight})]

\* A statement that seemed to end goes on, or the next one starts.
settlePending(f, label) ==
    LET g     == [f EXCEPT !.pending = "none"]
        doEnd == label = "while" /\ f.openDo > 0
        h     == IF doEnd THEN [g EXCEPT !.openDo = @ - 1] ELSE g
    IN  IF label \in CONTINUE_LABELS \/ doEnd
           \/ (f.pending = "brace" /\ label \notin NEW_STATEMENT_LABELS)
        THEN h ELSE resetSegment(closeSegment(h))

\* Mutant: a scan of expressions only: statement heads (prefixes, labels) are not
\* counted, and a statement ends at its comma, semicolon or brace at once.
applyTokenFlat(stack, label, prev, prevPrev) ==
    LET f == Last(stack) IN
    CASE label \in {"(", "["} -> Append(Replace(stack, [f EXCEPT !.ops = @ + OP_WEIGHT(label)]), newFrame(label))
      [] label \in OPENERS   -> Append(stack, newFrame(label))
      [] label \in CLOSERS /\ Len(stack) > 1 -> popFrame(stack)
      [] label = ","         -> Replace(stack, resetSegment(closeSegment(f)))
      [] label = ";"         -> Replace(stack, resetSegment(closeSegment(f)))
      [] label \in OP_LABELS -> Replace(stack, [f EXCEPT !.ops = @ + OP_WEIGHT(label)])
      [] OTHER               -> stack

applyToken(stack, label, prev, prevPrev) ==
    LET f == Last(stack) IN
    CASE label \in {"(", "["} -> Append(Replace(stack, [f EXCEPT !.ops = @ + OP_WEIGHT(label)]), newFrame(label))
      [] label \in OPENERS -> Append(stack, newFrame(label))
      [] label \in CLOSERS ->
           IF Len(stack) = 1 THEN stack
           ELSE LET popped == popFrame(stack)
                IN  IF f.kind = "{" THEN Replace(popped, [Last(popped) EXCEPT !.pending = "brace"]) ELSE popped
      [] label = "," -> Replace(stack, [closeSegment(f) EXCEPT !.ops = 0, !.child = 0])
      [] label = ";" -> Replace(stack, [closeSegment(f) EXCEPT !.pending = "semi"])
      [] label \in PREFIX_LABELS ->
           Replace(stack, [f EXCEPT !.prefix = @ + 1, !.openDo = @ + (IF label = "do" THEN 1 ELSE 0)])
      [] label = ":" /\ prev = "name" /\ prevPrev \in LABEL_LEADERS -> Replace(stack, [f EXCEPT !.prefix = @ + 1])
      [] label \in OP_LABELS -> Replace(stack, [f EXCEPT !.ops = @ + OP_WEIGHT(label)])
      [] OTHER -> stack

\* Where the scan looks whether it is over the limit.
Checks(stack, label) == label \in {",", ";"} \/ (label \in CLOSERS /\ Len(stack) > 1)

ScanStep(s, label, limit) ==
    LET top     == Last(s.stack)
        settled == IF top.pending = "none" THEN s.stack ELSE Replace(s.stack, settlePending(top, label))
        next    == applyToken(settled, label, s.prev, s.prevPrev)
    IN  IF s.stop # 0 THEN s
        ELSE [stack |-> next, prev |-> label, prevPrev |-> s.prev,
              stop |-> IF Checks(settled, label) /\ depthNow(next) > limit THEN depthNow(next) ELSE 0]

RECURSIVE finalDepth(_)
finalDepth(stack) ==
    IF Len(stack) > 1 THEN finalDepth(popFrame(stack))
    ELSE FRAME_CONSTANT("top") + closeSegment(stack[1]).best

\* The end of the tokens settles what is pending.
scanSyntaxDepth(tokens, limit) ==
    LET start == [stack |-> <<newFrame("top")>>, prev |-> "none", prevPrev |-> "none", stop |-> 0]
        end   == FoldLeft(LAMBDA s, label : ScanStep(s, label, limit), start, tokens)
        top   == Last(end.stack)
    IN  IF end.stop # 0 THEN end.stop
        ELSE finalDepth(IF top.pending = "none" THEN end.stack
                        ELSE Replace(end.stack, settlePending(top, "eof")))

findSyntaxDepth(tokens, limit) == scanSyntaxDepth(tokens, limit) > limit

\* The first opening delimiter that goes over the limit is a finding.
findNestingDepth(tokens, limit) ==
    LET deeper(d, label) == CASE label \in OPENERS -> d + 1
                              [] label \in CLOSERS /\ d > 0 -> d - 1
                              [] OTHER -> d
    IN  \E i \in DOMAIN tokens : FoldLeft(deeper, 0, SubSeq(tokens, 1, i)) > limit

-------------------------------------------------------------------------------
(* The tokens of a tree, and its depth *)

Joined(parts, comma) ==
    FlattenSeq([i \in 1..Len(parts) |-> IF i = 1 THEN parts[i] ELSE <<comma>> \o parts[i]])

RECURSIVE Tokens(_)

Parens(n)  == <<"(">> \o Tokens(n) \o <<")">>
Operand(n) == IF n.t \in {"SequenceExpression", "AssignmentExpression", "ConditionalExpression",
                          "BinaryExpression", "ObjectExpression"} \cup Functions
              THEN Parens(n) ELSE Tokens(n)
Target(n)  == IF n.t \in {"ChainExpression", "UnaryExpression"} THEN Parens(n) ELSE Operand(n)
Item(n)    == IF n.t = "SequenceExpression" THEN Parens(n) ELSE Tokens(n)
List(ns)   == Joined([i \in 1..Len(ns) |-> Item(ns[i])], ",")
Body(ns)   == FlattenSeq([i \in 1..Len(ns) |-> Tokens(ns[i])])
Braces(ns) == <<"{">> \o Body(ns) \o <<"}">>
Opt(head, n) == IF n = None THEN <<>> ELSE head \o Tokens(n)

Tokens(n) ==
    CASE n.t = "None" -> <<>>
      [] n.t = "Identifier" -> <<"name">>
      [] n.t = "Literal" -> <<"num">>
      [] n.t = "ThisExpression" -> <<"this">>
      [] n.t = "UnaryExpression" -> <<"!/~">> \o Operand(n.k[1])
      [] n.t = "BinaryExpression" ->
           (IF n.k[1].t = "BinaryExpression" THEN Tokens(n.k[1]) ELSE Operand(n.k[1])) \o <<"+/-">> \o Operand(n.k[2])
      [] n.t = "MemberExpression" ->
           Target(n.k[1]) \o (CASE n.w = "computed" -> <<"[">> \o Tokens(n.k[2]) \o <<"]">>
                                 [] n.w = "optional" -> <<"?.", "name">>
                                 [] OTHER -> <<".", "name">>)
      [] n.t = "ChainExpression" -> Tokens(n.k[1])
      [] n.t = "CallExpression" ->
           Target(n.k[1]) \o (IF n.w = "optional" THEN <<"?.">> ELSE <<>>) \o <<"(">> \o List(Tail(n.k)) \o <<")">>
      [] n.t = "NewExpression" -> <<"new">> \o Target(n.k[1]) \o <<"(">> \o List(Tail(n.k)) \o <<")">>
      [] n.t = "ArrowFunctionExpression" ->
           <<"(">> \o List(Tail(n.k)) \o <<")", "=>">>
           \o (IF n.k[1].t = "ObjectExpression" THEN Parens(n.k[1]) ELSE Item(n.k[1]))
      [] n.t \in Functions -> <<"function", "name", "(">> \o List(Tail(n.k)) \o <<")">> \o Tokens(n.k[1])
      [] n.t = "ConditionalExpression" ->
           Operand(n.k[1]) \o <<"?">> \o Item(n.k[2]) \o <<":">> \o Item(n.k[3])
      [] n.t = "TemplateLiteral" ->
           <<"backQuote">> \o FlattenSeq([i \in 1..Len(n.k) |-> <<"${">> \o Tokens(n.k[i]) \o <<"}">>]) \o <<"backQuote">>
      [] n.t = "TaggedTemplateExpression" -> Operand(n.k[1]) \o Tokens(n.k[2])
      [] n.t \in {"ArrayExpression", "ArrayPattern"} -> <<"[">> \o List(n.k) \o <<"]">>
      [] n.t \in {"ObjectExpression", "ObjectPattern"} -> <<"{">> \o List(n.k) \o <<"}">>
      [] n.t = "Property" -> <<"name", ":">> \o Item(n.k[2])
      [] n.t \in {"SpreadElement", "RestElement"} -> <<"...">> \o Item(n.k[1])
      [] n.t = "AssignmentPattern" -> Tokens(n.k[1]) \o <<"=">> \o Item(n.k[2])
      [] n.t = "AssignmentExpression" ->
           Tokens(n.k[1]) \o <<IF n.w = "=" THEN "=" ELSE "_=">> \o Item(n.k[2])
      [] n.t = "SequenceExpression" -> List(n.k)
      [] n.t = "ExpressionStatement" ->
           (IF n.k[1].t \in {"ObjectExpression", "FunctionExpression"} THEN Parens(n.k[1]) ELSE Tokens(n.k[1])) \o <<";">>
      [] n.t = "BlockStatement" -> Braces(n.k)
      [] n.t = "Program" -> Body(n.k)
      [] n.t = "IfStatement" -> <<"if">> \o Parens(n.k[1]) \o Tokens(n.k[2]) \o Opt(<<"else">>, n.k[3])
      [] n.t = "WhileStatement" -> <<"while">> \o Parens(n.k[1]) \o Tokens(n.k[2])
      [] n.t = "DoWhileStatement" -> <<"do">> \o Tokens(n.k[1]) \o <<"while">> \o Parens(n.k[2]) \o <<";">>
      [] n.t = "ForStatement" ->
           <<"for", "(">> \o (IF n.k[1].t = "VariableDeclaration" THEN Tokens(n.k[1]) ELSE Tokens(n.k[1]) \o <<";">>)
           \o Tokens(n.k[2]) \o <<";">> \o Tokens(n.k[3]) \o <<")">> \o Tokens(n.k[4])
      [] n.t \in {"ForInStatement", "ForOfStatement"} ->
           <<"for", "(">> \o (IF n.k[1].t = "VariableDeclaration" THEN <<"name">> \o Tokens(n.k[1].k[1].k[1])
                              ELSE Tokens(n.k[1]))
           \o <<IF n.t = "ForInStatement" THEN "in" ELSE "name">> \o Item(n.k[2]) \o <<")">> \o Tokens(n.k[3])
      [] n.t = "WithStatement" -> <<"with">> \o Parens(n.k[1]) \o Tokens(n.k[2])
      [] n.t = "LabeledStatement" -> <<"name", ":">> \o Tokens(n.k[1])
      [] n.t = "SwitchStatement" ->
           <<"switch">> \o Parens(n.k[1]) \o Braces(Tail(n.k))
      [] n.t = "SwitchCase" ->
           (IF n.k[1] = None THEN <<"default">> ELSE <<"case">> \o Tokens(n.k[1])) \o <<":">> \o Body(Tail(n.k))
      [] n.t = "TryStatement" ->
           <<"try">> \o Tokens(n.k[1]) \o Opt(<<"catch">>, n.k[2]) \o Opt(<<"finally">>, n.k[3])
      [] n.t = "CatchClause" -> (IF n.k[1] = None THEN <<>> ELSE Parens(n.k[1])) \o Tokens(n.k[2])
      [] n.t = "VariableDeclaration" -> <<IF n.w = "let" THEN "name" ELSE "var">> \o List(n.k) \o <<";">>
      [] n.t = "VariableDeclarator" -> Tokens(n.k[1]) \o (IF n.k[2] = None THEN <<>> ELSE <<"=">> \o Item(n.k[2]))
      [] n.t = "ReturnStatement" -> <<"return">> \o Tokens(n.k[1]) \o <<";">>
      [] n.t = "ThrowStatement" -> <<"throw">> \o Tokens(n.k[1]) \o <<";">>
      [] n.t = "ImportExpression" -> <<"import">> \o Parens(n.k[1])
      [] n.t = "BreakStatement" -> <<"break", ";">>

RECURSIVE Depth(_)
Depth(n) == IF n.k = <<>> THEN 1 ELSE 1 + Max({IF n.k[i] = None THEN 0 ELSE Depth(n.k[i]) : i \in DOMAIN n.k})
===============================================================================
