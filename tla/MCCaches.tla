------------------------------- MODULE MCCaches -------------------------------
(***************************************************************************)
(* Small instances of Caches.                                              *)
(***************************************************************************)
EXTENDS Caches

Source(bytes, deep, reports, steers) ==
    [bytes |-> bytes, nested |-> FALSE, deep |-> deep, compiles |-> TRUE,
     parses |-> TRUE, reports |-> reports, steers |-> steers]

Report(rule, needs) == [rule |-> rule, needs |-> needs, excuses |-> {}]

\* One that every gate rewrites; one that ends deeper than the bound; one whose
\* lint costs more than the ceiling and which acorn does not take.
Token  == Source(3, FALSE, {}, {"callSpread", "nativeStack"})
Tower  == Source(0, TRUE, {Report("banned-math", {})}, {})
Modern == [Source(12, FALSE, {}, {}) EXCEPT !.parses = FALSE]

Era(execLint, lint, meter, hardened, mask) ==
    [execLint |-> execLint, lint |-> lint, meter |-> meter, hardened |-> hardened, mask |-> mask]

\* Before the activations; testnet below the height that arms the syntax-depth
\* and the native stack rules; all gates on.
Old      == Era(FALSE, {}, {}, FALSE, {})
Hardened == Era(TRUE, LintFlags \ {"syntaxDepth"}, MeterFlags \ {"nativeStack"}, TRUE, {})
Full     == Era(TRUE, LintFlags, MeterFlags, TRUE, {"signal", "native"})

Call(method) == [method |-> method, cross |-> FALSE, manifest |-> FALSE]

TwoCalls  == {Call("add"), Call("sub")}

WarmCodes  == {Token, Tower, Modern}
WarmEras   == {Old, Hardened, Full}
===============================================================================
