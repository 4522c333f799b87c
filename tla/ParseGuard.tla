------------------------------ MODULE ParseGuard ------------------------------
(***************************************************************************)
(* JSON.parse inside the isolate (src/index/runtime/harness_part_4.js) and *)
(* the scan that bounds the nesting of a text before the native parser     *)
(* sees it (__guardParseDepth, harness_part_2.js).                         *)
(*                                                                         *)
(* A text is a sequence of the character classes the scan tells apart; the *)
(* texts are JSON documents, each with the nesting it was built with.  A   *)
(* reviver is contract code that the native calls on every value, from the *)
(* leaves up, in a recursive walk of what the parser built.                *)
(***************************************************************************)
EXTENDS Integers, Sequences

CONSTANTS
    PARSE_LIMIT,    \* __NR_DEPTH_LIMIT
    MaxNesting,     \* bound: nesting of the documents
    MaxParses       \* bound: calls

ASSUME ParseAssumption == PARSE_LIMIT \in Nat /\ MaxNesting \in Nat

VARIABLES
    nrGuardOn,      \* __nrGuardOn
    parsePoison,    \* __stackPoison
    parse,          \* the call under way
    parsed,         \* the last text the native parser was given, and what was paid
    parsesLeft

parseVars == <<nrGuardOn, parsePoison, parse, parsed, parsesLeft>>

Doc(text, nesting) == [text |-> text, nesting |-> nesting]

\* A literal, and strings with a bracket, an escaped quote, an escaped escape.
Scalars ==
    {Doc(<<"other">>, 0), Doc(<<"quote", "open", "quote">>, 0),
     Doc(<<"quote", "esc", "quote", "open", "quote">>, 0),
     Doc(<<"quote", "close", "esc", "esc", "quote">>, 0)}

Nest(a, b) == Doc(<<"open">> \o a.text \o <<"other">> \o b.text \o <<"close">>,
                  1 + (IF a.nesting > b.nesting THEN a.nesting ELSE b.nesting))

Docs[d \in 0 .. MaxNesting] ==
    IF d = 0 THEN Scalars
    ELSE Docs[d - 1] \cup {Doc(<<"open">> \o a.text \o <<"close">>, 1 + a.nesting) : a \in Docs[d - 1]}
           \cup {Nest(a, b) : a \in Docs[d - 1], b \in {Doc(<<"other">>, 0), Doc(<<"open", "close">>, 1)}}
           \cup {Nest(b, a) : a \in Docs[d - 1], b \in {Doc(<<"open", "close">>, 1)}}
Documents == Docs[MaxNesting]
-------------------------------------------------------------------------------
\* Mutant: an escaped quote ends the string.
guardParseDepthRaw(text) ==
    LET step[i \in 0 .. Len(text)] ==
            IF i = 0 THEN [in |-> FALSE, depth |-> 0, over |-> FALSE]
            ELSE LET s == step[i - 1]
                 IN  CASE s.over -> s
                       [] text[i] = "quote" -> [s EXCEPT !.in = ~@]
                       [] text[i] = "open" /\ ~s.in ->
                            [s EXCEPT !.depth = @ + 1, !.over = s.depth + 1 > PARSE_LIMIT]
                       [] text[i] = "close" /\ ~s.in /\ s.depth > 0 -> [s EXCEPT !.depth = @ - 1]
                       [] OTHER -> s
    IN  step[Len(text)].over

\* __guardParseDepth: the scan finds more open brackets than the limit.
guardParseDepth(text) ==
    LET step[i \in 0 .. Len(text)] ==
            IF i = 0 THEN [in |-> FALSE, skip |-> FALSE, depth |-> 0, over |-> FALSE]
            ELSE LET s == step[i - 1]
                 IN  CASE s.over -> s
                       [] s.skip -> [s EXCEPT !.skip = FALSE]
                       [] s.in /\ text[i] = "esc" -> [s EXCEPT !.skip = TRUE]
                       [] text[i] = "quote" -> [s EXCEPT !.in = ~@]
                       [] text[i] = "open" /\ ~s.in ->
                            [s EXCEPT !.depth = @ + 1, !.over = s.depth + 1 > PARSE_LIMIT]
                       [] text[i] = "close" /\ ~s.in /\ s.depth > 0 -> [s EXCEPT !.depth = @ - 1]
                       [] OTHER -> s
    IN  step[Len(text)].over

NoParse == [at |-> "none"]
NoText == Doc(<<>>, 0)

\* depth and room: containers the walk of the reviver is in, and can come to;
\* wrote: the reviver changed what is still to be walked.
Parse(at, doc) ==
    [at |-> at, doc |-> doc, paid |-> Len(doc.text), depth |-> 0, room |-> 0, wrote |-> FALSE]

StartParse(call) ==
    /\ parse = NoParse /\ parsesLeft > 0 /\ ~parsePoison
    /\ parse' = call
    /\ parsesLeft' = parsesLeft - 1
    /\ UNCHANGED <<nrGuardOn, parsePoison, parsed>>

\* The contract calls JSON.parse with a string, or with an object whose toString
\* is its own code; any other value goes to the native as it is.
ParseString(doc) == StartParse(Parse("guard", doc))

ParseObject == StartParse(Parse(IF nrGuardOn THEN "coerce" ELSE "native", NoText))

\* The contract's toString answers, to the wrapper or to the native itself.
Coerces(doc) ==
    /\ parse.at \in {"coerce", "native"} /\ (parse.at = "native" => parse.doc = NoText)
    /\ parse' = IF parse.at = "coerce" THEN Parse("guard", doc)
                ELSE [parse EXCEPT !.doc = doc]
    /\ UNCHANGED <<nrGuardOn, parsePoison, parsed, parsesLeft>>

CoercionThrows ==
    /\ parse.at = "coerce" \/ (parse.at = "native" /\ parse.doc = NoText)
    /\ parse' = NoParse
    /\ UNCHANGED <<nrGuardOn, parsePoison, parsed, parsesLeft>>

\* The guard refuses for good, or the native gets the text.
Guard ==
    /\ parse.at = "guard"
    /\ IF nrGuardOn /\ guardParseDepth(parse.doc.text)
       THEN /\ parsePoison' = TRUE
            /\ parse' = [parse EXCEPT !.at = "refused"]
       ELSE parse' = [parse EXCEPT !.at = "native"] /\ UNCHANGED parsePoison
    /\ UNCHANGED <<nrGuardOn, parsed, parsesLeft>>

\* The native builds the value and, if the call has a reviver, walks it.
NativeParses ==
    /\ parse.at = "native" /\ parse.doc # NoText
    /\ parsed' = [nesting |-> parse.doc.nesting, length |-> Len(parse.doc.text), paid |-> parse.paid]
    /\ parse' \in {NoParse, [Parse("revive", NoText) EXCEPT !.room = parse.doc.nesting]}
    /\ UNCHANGED <<nrGuardOn, parsePoison, parsesLeft>>

\* The walk enters a container, or hands a value whose parts it has done to the
\* reviver, and ends with the outermost.
WalkEnters ==
    /\ parse.at = "revive" /\ parse.depth < parse.room
    /\ parse' = [parse EXCEPT !.depth = @ + 1]
    /\ UNCHANGED <<nrGuardOn, parsePoison, parsed, parsesLeft>>

ReviverAnswers ==
    /\ parse.at = "revive"
    /\ parse' = IF parse.depth = 0 THEN NoParse ELSE [parse EXCEPT !.depth = @ - 1]
    /\ UNCHANGED <<nrGuardOn, parsePoison, parsed, parsesLeft>>

\* The reviver hangs a value of its own under a key of the holder it was given
\* that the walk has not come to.
ReviverWrites(nesting) ==
    /\ parse.at = "revive" /\ parse.depth > 0
    /\ parse.room <= MaxNesting
    /\ parse' = [parse EXCEPT !.wrote = TRUE,
                              !.room = IF parse.depth + nesting > @ THEN parse.depth + nesting ELSE @]
    /\ UNCHANGED <<nrGuardOn, parsePoison, parsed, parsesLeft>>

ReviverThrows ==
    /\ parse.at = "revive"
    /\ parse' = NoParse
    /\ UNCHANGED <<nrGuardOn, parsePoison, parsed, parsesLeft>>

ParseInit ==
    /\ nrGuardOn \in BOOLEAN
    /\ parsePoison = FALSE /\ parse = NoParse /\ parsed = [nesting |-> 0, length |-> 0, paid |-> 0]
    /\ parsesLeft = MaxParses

ParseNext ==
    \/ \E doc \in Documents : ParseString(doc) \/ Coerces(doc)
    \/ ParseObject \/ CoercionThrows \/ Guard \/ NativeParses
    \/ WalkEnters \/ ReviverAnswers \/ ReviverThrows
    \/ \E n \in 1 .. MaxNesting : ReviverWrites(n)

ParseSpec == ParseInit /\ [][ParseNext]_parseVars
-------------------------------------------------------------------------------
\* Past the flag day the native parser builds only a text whose length was paid and
\* whose nesting is within the bound, whatever a toString answers, and the guard
\* refuses exactly the documents nested deeper: "a bracket inside a JSON string is
\* data, not structure" (harness_part_2.js).  The reviver's walk is recursive too;
\* it stays within the same bound as long as the reviver only answers.  One that
\* writes to a value still to be walked takes the walk as deep as it likes: only
\* the text is measured.
ParsedWithinBounds ==
    nrGuardOn =>
        /\ parsed.nesting <= PARSE_LIMIT /\ parsed.paid = parsed.length
        /\ parse.at = "refused" => parse.doc.nesting > PARSE_LIMIT
        /\ parse.at = "revive" /\ ~parse.wrote => parse.depth <= PARSE_LIMIT
===============================================================================
