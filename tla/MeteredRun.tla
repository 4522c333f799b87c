------------------------------- MODULE MeteredRun -------------------------------
(***************************************************************************)
(* Runs of contract trees, before and after metering.                      *)
(*                                                                         *)
(* What a run does is its trace: the reads, calls, copies and writes of    *)
(* the contract in order, each with the number of function bodies that are *)
(* live, between the hooks' own events.  Values are not kept: a test   *)
(* goes either way, a call or a read may throw.  A run ends ok, in a       *)
(* return or a break, or in a throw of one of three kinds: an ordinary     *)
(* one, the engine's own stack overflow, and the meter's fault, after      *)
(* which the harness is poisoned and every later hook faults.              *)
(*                                                                         *)
(* The helpers behave as harness_part_1.js, 4 and 5 and, when the native   *)
(* stack activation is on, native_stack/harness_hooks.js have them.        *)
(***************************************************************************)
EXTENDS Metering

CONSTANTS MaxIterations     \* iterations of a loop that a run follows

Thrown == {"throw", "overflow", "fault"}

\* env: the kind of value each caught binding holds, the poison flag, and which
\* failures may come ("native": the engine runs out of stack, "meter": a hook
\* faults, "copy": an iterator, or the read of a tag, throws).
Env(names, failures) ==
    [bind |-> [x \in names |-> "undef"], poison |-> FALSE, may |-> failures]

Run(tr, end, e) == [tr |-> tr, end |-> end, e |-> e]

Then(runs, F(_)) ==
    UNION {IF r.end # "ok" THEN {r}
           ELSE {Run(r.tr \o s.tr, s.end, s.e) : s \in F(r.e)} : r \in runs}

Event(x, d, e)  == {Run(<<<<x, d>>>>, "ok", e)}
Silent(e)       == {Run(<<>>, "ok", e)}
Ends(end, e)    == {Run(<<>>, end, e)}
Overflow(d, e)  == IF "native" \in e.may THEN {Run(<<<<"overflow", d>>>>, "overflow", e)} ELSE {}
Poisoned(d, e)  == {Run(<<<<"fault", d>>>>, "fault", [e EXCEPT !.poison = TRUE])}

\* An operation of the contract that may throw, or find the stack exhausted.
Effect(x, d, e) == Event(x, d, e) \cup {Run(<<<<x, d>>>>, "throw", e)} \cup Overflow(d, e)

\* Taking a value apart, and looking up a tag: the helpers do it later.
Late(x, d, e) == IF "copy" \in e.may THEN Effect(x, d, e) ELSE Event(x, d, e) \cup Overflow(d, e)

-------------------------------------------------------------------------------
(* Hooks *)

Kind(n, e) == IF n.t = "Identifier" /\ n.w \in DOMAIN e.bind THEN e.bind[n.w] ELSE "undef"

\* __gas(1) and __gas(1, caught)
GasHook(args, d, e) ==
    IF e.poison THEN Ends("fault", e)
    ELSE Overflow(d, e) \cup
         IF Len(args) > 1 /\ Kind(args[2], e) = "overflow" THEN Poisoned(d, e)
         ELSE Event("gas", d, e) \cup (IF "meter" \in e.may THEN Poisoned(d, e) ELSE {})

DepthEnterHook(d, e) ==
    IF e.poison THEN Ends("fault", e)
    ELSE Overflow(d, e) \cup Event("enter", d, e) \cup (IF "meter" \in e.may THEN Poisoned(d, e) ELSE {})

\* One argument is the guard's catch, any other number the end of the frame.
DepthExitHook(args, d, e) ==
    Overflow(d, e) \cup
    IF Len(args) # 1 THEN Event("exit", d, e)
    ELSE IF Kind(args[1], e) = "overflow" THEN Poisoned(d, e) ELSE Silent(e)

SegmentKinds(arr, kind) == {i \in 1..Len(arr.k) : arr.k[i].k[1].w = kind}

\* The values an array of segments takes apart, charged once all are.
CopyHook(arr, d, e) ==
    LET n == Cardinality(SegmentKinds(arr, "s"))
        taken[i \in Nat] == IF i = 0 THEN Silent(e)
                             ELSE Then(taken[i - 1], LAMBDA f : Late("take", d, f))
    IN  Then(taken[n], LAMBDA f : {Run([i \in 1..n |-> <<"size", d>>], "ok", f)})

RECURSIVE Runs(_, _, _), SeqRuns(_, _, _), Bind(_, _, _), BindAll(_, _, _), Loop(_, _, _, _, _), Apply(_, _, _)

\* A helper once its arguments are evaluated.
HelperHook(name, args, d, e) ==
    CASE name = "__gas"          -> GasHook(args, d, e)
      [] name = "__depth_enter"  -> DepthEnterHook(d, e)
      [] name = "__depth_exit"   -> DepthExitHook(args, d, e)
      [] name = "__concat"       -> Event("add", d, e)
      [] name = "__setconcat"    -> Then(Effect("get", d, e), LAMBDA f :
                                    Then(Event("add", d, f), LAMBDA g : Event("set", d, g)))
      [] name = "__setconcatL"   -> Then(Effect("get", d, e), LAMBDA f :
                                    Then(Apply(args[3], d, f), LAMBDA g :
                                    Then(Event("add", d, g), LAMBDA h : Event("set", d, h))))
      [] name = "__tmpl"         -> Event("join", d, e)
      [] name = "__tmpltag"      -> Effect("tagged", d, e)
      [] name = "__tmpltagm"     -> Then(Late("tag", d, e), LAMBDA f : Effect("tagged", d, f))
      [] name = "__arrspread"    -> IF args[1].t = "ArrayExpression" THEN CopyHook(args[1], d, e)
                                    ELSE Silent(e)
      [] name = "__objspread"    -> CopyHook(args[1], d, e)
      [] name = "__objspreadmeter" -> Event("size", d, e)

-------------------------------------------------------------------------------
(* Expressions and statements *)

SeqRuns(ns, d, e) ==
    IF ns = <<>> THEN Silent(e)
    ELSE Then(Runs(Head(ns), d, e), LAMBDA f : SeqRuns(Tail(ns), d, f))

\* The body of a function runs one deeper; its parameters are bound before that.
Apply(fn, d, e) ==
    LET body  == IF IsBlock(fn.k[1]) THEN fn.k[1] ELSE Return(fn.k[1])
        frame == Then(BindAll(Tail(fn.k), d, e), LAMBDA f : Runs(body, d + 1, f))
    IN  Overflow(d, e) \cup
        {Run(r.tr, IF r.end = "return" THEN "ok" ELSE r.end, [r.e EXCEPT !.bind = e.bind]) : r \in frame}

Invoke(n, d, e) ==
    IF IsFunction(n.k[1]) THEN Then(Event("entry", d, e), LAMBDA f : Apply(n.k[1], d, f))
    ELSE Effect(IF n.t = "NewExpression" THEN "new" ELSE "call", d, e)

\* The object of a member, the callee of a call.  An optional chain ends with the
\* parentheses it stands in, and leaves undefined.
Base(n, d, e) ==
    {IF n.t = "SequenceExpression" /\ r.end = "short" THEN [r EXCEPT !.end = "undefined"] ELSE r
       : r \in Runs(n, d, e)}

\* On from its base to the key or the arguments ks, and to F: undefined has no
\* member and is no function, and what is optional is left with the whole chain.
FromBase(n, ks, F(_), d, e) ==
    LET base == Base(n.k[1], d, e)
        lost == {[r EXCEPT !.end = "ok"] : r \in {s \in base : s.end = "undefined"}}
        short(f) == IF n.w = "optional" THEN Ends("short", f) ELSE {}
    IN  Then({r \in base : r.end # "undefined"},
             LAMBDA f : short(f) \cup Then(SeqRuns(ks, d, f), F))
        \cup IF n.w = "optional" THEN Then(lost, short)
             ELSE Then(lost, LAMBDA f : Then(SeqRuns(ks, d, f), LAMBDA g : Ends("throw", g)))

CallRuns(n, d, e) ==
    IF n.t = "CallExpression" /\ n.k[1].t = "Identifier" /\ n.k[1].w \in Reserved
    THEN Then(SeqRuns(SelectSeq(Tail(n.k), LAMBDA a : ~(a.t = "Identifier" /\ a.w \in DOMAIN e.bind)), d, e),
              LAMBDA f : HelperHook(n.k[1].w, Tail(n.k), d, f))
    ELSE FromBase(n, Tail(n.k), LAMBDA f : Invoke(n, d, f), d, e)

\* The parts of a target that are evaluated before the right-hand side.
TargetRuns(l, d, e) ==
    IF l.t = "MemberExpression" THEN SeqRuns(IF l.w = "computed" THEN l.k ELSE <<l.k[1]>>, d, e)
    ELSE Silent(e)

AssignRuns(n, d, e) ==
    LET l == n.k[1]  r == n.k[2] IN
    CASE l.t = "Identifier" /\ l.w \in DOMAIN e.bind ->
           {Run(<<>>, "ok", [e EXCEPT !.bind[l.w] = Kind(r, e)])}
      [] n.w = "+=" ->
           Then(TargetRuns(l, d, e), LAMBDA f :
           Then(IF l.t = "Identifier" THEN Event(l.w, d, f) ELSE Effect("get", d, f), LAMBDA g :
           Then(Runs(r, d, g), LAMBDA h :
           Then(Event("add", d, h), LAMBDA i : Event("set", d, i)))))
      [] OTHER ->
           Then(TargetRuns(l, d, e), LAMBDA f :
           Then(Runs(r, d, f), LAMBDA g : IF l.t \in Patterns THEN Bind(l, d, g) ELSE Event("set", d, g)))

\* A pattern takes a value apart.
Bind(p, d, e) ==
    CASE p.t = "Property" -> Then(Effect("get", d, e), LAMBDA f : Bind(p.k[2], d, f))
      [] p.t = "AssignmentPattern" ->
           Then(Silent(e) \cup Runs(p.k[2], d, e), LAMBDA f : Bind(p.k[1], d, f))
      [] p.t = "RestElement" -> Late("copy", d, e)
      [] p.t \in Patterns -> BindAll(p.k, d, e)
      [] OTHER -> Silent(e)

BindAll(ps, d, e) ==
    IF ps = <<>> THEN Silent(e)
    ELSE Then(Bind(Head(ps), d, e), LAMBDA f : BindAll(Tail(ps), d, f))

TryRuns(n, d, e) ==
    LET caught(r) ==
          LET p   == n.k[2].k[1]
              own == p.t = "Identifier" /\ p.w \in DOMAIN e.bind
              in  == IF own THEN [r.e EXCEPT !.bind[p.w] = r.end] ELSE r.e
              out(s) == IF own THEN [s.e EXCEPT !.bind[p.w] = r.e.bind[p.w]] ELSE s.e
          IN  {Run(r.tr \o s.tr, s.end, out(s)) : s \in Then(Bind(p, d, in), LAMBDA f : Runs(n.k[2].k[2], d, f))}
        handled == UNION {IF r.end \in Thrown /\ n.k[2] # None THEN caught(r) ELSE {r} : r \in Runs(n.k[1], d, e)}
    IN  IF n.k[3] = None THEN handled
        ELSE UNION {{Run(r.tr \o s.tr, IF s.end = "ok" THEN r.end ELSE s.end, s.e)
                       : s \in Runs(n.k[3], d, r.e)} : r \in handled}

\* Let-bound names of a block go out of scope with it.
BlockRuns(n, d, e) ==
    LET names == {n.k[i].k[1].k[1].w : i \in {j \in 1..Len(n.k) : n.k[j].t = "VariableDeclaration"}} \cap DOMAIN e.bind
    IN  {Run(r.tr, r.end, [r.e EXCEPT !.bind = [x \in DOMAIN @ |-> IF x \in names THEN e.bind[x] ELSE @[x]]])
           : r \in SeqRuns(n.k, d, e)}

\* An iteration: the test, what the head binds, the body, the update; a break
\* ends the loop.
Loop(test, body, update, d, st) ==
    LET e == st.e  left == st.left
        once == Then(Event("iter", d, e), LAMBDA f :
                Then(Bind(st.head, d, f), LAMBDA g : Runs(body, d, g)))
        more == Then(once, LAMBDA f : Then(SeqRuns(update, d, f), LAMBDA g :
                     Loop(test, body, update, d, [st EXCEPT !.e = g, !.left = left - 1])))
    IN  Then(SeqRuns(test, d, e), LAMBDA f :
             Silent(f) \cup (IF left = 0 THEN {} ELSE
             {Run(r.tr, IF r.end = "break" THEN "ok" ELSE r.end, r.e) : r \in more}))

Fresh(e, head) == [e |-> e, left |-> MaxIterations, head |-> head]

\* The head of a for-in or a for-of is a pattern, or a declaration of one.
HeadPattern(h) == IF h.t = "VariableDeclaration" THEN h.k[1].k[1] ELSE h

SwitchRuns(n, d, e) ==
    LET cases == Tail(n.k)
        tests(i) == [j \in 1..i |-> cases[j].k[1]]
        from(i)  == FlattenSeq([j \in 1..(Len(cases) + 1 - i) |-> Tail(cases[i + j - 1].k)])
        chosen   == UNION {Then(SeqRuns(tests(i), d, e), LAMBDA f : SeqRuns(from(i), d, f)) : i \in 1..Len(cases)}
    IN  {Run(r.tr, IF r.end = "break" THEN "ok" ELSE r.end, r.e) : r \in chosen \cup SeqRuns(tests(Len(cases)), d, e)}

Present(n) == IF n = None THEN <<>> ELSE <<n>>

Runs(n, d, e) ==
    CASE n.t \in {"None", "Literal"} \cup Functions -> Silent(e)
      [] n.t = "Identifier" -> Event(n.w, d, e)
      [] n.t = "ThisExpression" -> Silent(e)
      [] n.t \in {"ExpressionStatement", "SequenceExpression", "ArrayExpression", "Program"}
           -> SeqRuns(n.k, d, e)
      [] n.t = "BinaryExpression" -> Then(SeqRuns(n.k, d, e), LAMBDA f : Event("add", d, f))
      [] n.t = "MemberExpression" ->
           FromBase(n, IF n.w = "computed" THEN Tail(n.k) ELSE <<>>, LAMBDA f : Effect("get", d, f), d, e)
      [] n.t = "ChainExpression" ->
           {Run(r.tr, IF r.end = "short" THEN "ok" ELSE r.end, r.e) : r \in Runs(n.k[1], d, e)}
      [] n.t = "ConditionalExpression" ->
           Then(Runs(n.k[1], d, e), LAMBDA f : Runs(n.k[2], d, f) \cup Runs(n.k[3], d, f))
      [] n.t = "TemplateLiteral" -> Then(SeqRuns(n.k, d, e), LAMBDA f : Event("join", d, f))
      [] n.t = "TaggedTemplateExpression" ->
           Then(IF n.k[1].t = "MemberExpression"
                THEN Then(TargetRuns(n.k[1], d, e), LAMBDA f : Late("tag", d, f))
                ELSE Runs(n.k[1], d, e), LAMBDA f :
           Then(SeqRuns(n.k[2].k, d, f), LAMBDA g : Effect("tagged", d, g)))
      [] n.t = "SpreadElement" ->
           \* a native copy, unless the list comes from the helper that copied it
           Then(Runs(n.k[1], d, e), LAMBDA f :
                IF n.k[1].t = "CallExpression" /\ n.k[1].k[1] = astIdent("__arrspread") THEN Silent(f)
                ELSE Late("copy", d, f))
      [] n.t = "ObjectExpression" -> SeqRuns(n.k, d, e)
      [] n.t = "Property" -> SeqRuns(IF n.w = "computed" THEN n.k ELSE <<n.k[2]>>, d, e)
      [] n.t \in {"CallExpression", "NewExpression"} -> CallRuns(n, d, e)
      [] n.t = "AssignmentExpression" -> AssignRuns(n, d, e)
      [] n.t = "VariableDeclaration" -> SeqRuns(n.k, d, e)
      [] n.t = "VariableDeclarator" ->
           IF n.k[1].t = "Identifier" /\ n.k[1].w \in DOMAIN e.bind
           THEN Then(Runs(n.k[2], d, e), LAMBDA f : {Run(<<>>, "ok", [f EXCEPT !.bind[n.k[1].w] = "undef"])})
           ELSE Then(IF Kind(n.k[2], e) # "undef" THEN Silent(e) ELSE Runs(n.k[2], d, e),
                     LAMBDA f : Bind(n.k[1], d, f))
      [] n.t = "BlockStatement" -> BlockRuns(n, d, e)
      [] n.t = "IfStatement" ->
           Then(Runs(n.k[1], d, e), LAMBDA f : Runs(n.k[2], d, f) \cup Runs(n.k[3], d, f))
      [] n.t = "WhileStatement" -> Loop(<<n.k[1]>>, n.k[2], <<>>, d, Fresh(e, None))
      [] n.t = "DoWhileStatement" ->
           {Run(r.tr, IF r.end = "break" THEN "ok" ELSE r.end, r.e) : r \in
              Then(Event("iter", d, e), LAMBDA f : Then(Runs(n.k[1], d, f), LAMBDA g :
              Loop(<<n.k[2]>>, n.k[1], <<>>, d, [Fresh(g, None) EXCEPT !.left = MaxIterations - 1])))}
      [] n.t = "ForStatement" ->
           Then(SeqRuns(Present(n.k[1]), d, e), LAMBDA f :
                Loop(Present(n.k[2]), n.k[4], Present(n.k[3]), d, Fresh(f, None)))
      [] n.t \in {"ForInStatement", "ForOfStatement"} ->
           Then(Runs(n.k[2], d, e), LAMBDA f : Loop(<<>>, n.k[3], <<>>, d, Fresh(f, HeadPattern(n.k[1]))))
      [] n.t = "SwitchStatement" -> Then(Runs(n.k[1], d, e), LAMBDA f : SwitchRuns(n, d, f))
      [] n.t = "BreakStatement" -> Ends("break", e)
      [] n.t = "ReturnStatement" -> Then(Runs(n.k[1], d, e), LAMBDA f : Ends("return", f))
      [] n.t = "ThrowStatement" ->
           IF Kind(n.k[1], e) # "undef" THEN Ends(Kind(n.k[1], e), e)
           ELSE Then(Runs(n.k[1], d, e), LAMBDA f : Ends("throw", f))
      [] n.t = "TryStatement" -> TryRuns(n, d, e)
===============================================================================
