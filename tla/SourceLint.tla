------------------------------ MODULE SourceLint ------------------------------
(***************************************************************************)
(* The consensus verdict on a contract source: validateSyntax (syntax.js)  *)
(* over lintSource (lint-core/result_composition.js), under the flags the  *)
(* block has armed.                                                        *)
(*                                                                         *)
(* A source is what the rules can tell of it: whether its delimiters nest  *)
(* too deep, whether its syntax is deeper than the bound, whether V8 and   *)
(* acorn take it, and what the scanners would report.  A report names its  *)
(* rule, the refinements a scanner needs to see it and those under which   *)
(* it is excused (a local binding that shadows Promise).                   *)
(***************************************************************************)
EXTENDS Naturals, FiniteSetsExt

LintFlags == {"async", "hardening", "pkg3", "globalAlias", "rest",
              "optionalChain", "with", "destructure", "syntaxDepth"}

Refinements == {"hardening", "globalAlias", "optionalChain", "destructure"}

\* The order of the checks is consensus-visible: the first that blocks is the
\* verdict.
DeployOrder == <<"unsupported-syntax", "reserved-identifier", "banned-math",
                 "banned-literal", "banned-async", "banned-generator",
                 "banned-rest", "banned-wasm", "banned-with">>

Rules == {DeployOrder[i] : i \in DOMAIN DeployOrder}

Reports == [rule : Rules, needs : SUBSET Refinements, excuses : SUBSET Refinements]

Verdicts == Rules \cup {"valid", "nesting-depth", "syntax-depth", "syntax error"}

\* A rule that waits for a flag of its own does not block before that flag.
isBlockingConsensusError(rule, flags) ==
    /\ rule = "banned-async" => "async" \in flags
    /\ rule \in {"banned-generator", "banned-wasm"} => "pkg3" \in flags
    /\ rule = "banned-rest" => "rest" \in flags
    /\ rule = "banned-with" => "with" \in flags

lintSource(code, flags) ==
    IF ~code.parses
    THEN {"unsupported-syntax"}
    ELSE {r.rule : r \in {s \in code.reports : /\ s.needs \subseteq flags
                                               /\ s.excuses \cap flags = {}}}

\* What blocks first, of what the scanners found.
FirstBlocking(found, flags) ==
    LET blocking == {i \in DOMAIN DeployOrder :
                         /\ DeployOrder[i] \in found
                         /\ isBlockingConsensusError(DeployOrder[i], flags)}
    IN  IF blocking = {} THEN "valid" ELSE DeployOrder[Min(blocking)]

preParseFinding(code, flags) ==
    CASE code.nested                              -> "nesting-depth"
      [] ~code.nested /\ code.deep /\ "syntaxDepth" \in flags -> "syntax-depth"
      [] OTHER                                    -> "none"

\* The verdict of a host whose stack is large enough.
validateSyntax(code, flags) ==
    IF preParseFinding(code, flags) # "none"
    THEN preParseFinding(code, flags)
    ELSE IF ~code.compiles THEN "syntax error"
    ELSE FirstBlocking(lintSource(code, flags), flags)

\* The verdicts a host whose stack runs out may give instead, before the
\* syntax-depth rule bounds the source: the overflow of V8 and that of the
\* metering parse are read as errors of the source, that of a scanner as a scan
\* which found nothing.
OverflowVerdicts(code, flags) ==
    IF preParseFinding(code, flags) # "none" \/ "syntaxDepth" \in flags \/ ~code.deep
    THEN {}
    ELSE {"syntax error", "unsupported-syntax"} \cup
         {FirstBlocking(lintSource(code, flags) \ unread, flags) : unread \in SUBSET Rules}

\* A source within the bound never exhausts a sound host's stack.
Bounded(code, flags) == code.deep => code.nested \/ "syntaxDepth" \in flags
===============================================================================
