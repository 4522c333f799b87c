------------------------------ MODULE SparseProbe -----------------------------
(***************************************************************************)
(* every, filter, forEach, map and their siblings past the apply-length    *)
(* activation (src/index/runtime/harness_part_5.js): an accessor stands in *)
(* for the receiver's length while the native method reads it, so that the *)
(* walk is charged by the length the native was given, however often the   *)
(* contract's own getter would change its answer.                          *)
(*                                                                         *)
(* One receiver; the length's getter (or the conversion of an object kept  *)
(* there) and the callbacks are contract code: they answer anything,       *)
(* throw, redefine the length and call such a method again.                *)
(***************************************************************************)
EXTENDS Integers, Sequences

CONSTANTS
    Lengths,        \* lengths the contract gives
    MAX_SAFE,       \* 9007199254740991: the charge when the length is not known
    MaxSparse,      \* bound: calls under way at once
    MaxMoves        \* bound: things the contract's code does besides answering

\* __toSparseLength clamps what it is given.
ASSUME LengthsAssumption == MAX_SAFE \in Nat /\ Lengths \subseteq 0 .. MAX_SAFE

VARIABLES
    own,            \* the receiver's own length property
    proto,          \* the one it inherits
    sealed,         \* the receiver takes no new definition
    shown,          \* own, had the harness never touched it (history)
    sparse,         \* the calls under way, innermost last
    lastSparse,     \* the last call that ended: what it walked, what it paid
    movesLeft

probeVars == <<own, proto, sealed, shown, sparse, lastSparse, movesLeft>>
-------------------------------------------------------------------------------
\* A length property: "fixed" is a genuine array's, "object" holds an object that
\* contract code converts, "mute" is an accessor with no getter.
Prop(kind, n) == [kind |-> kind, n |-> n]
NoProp == Prop("none", 0)
ContractProps ==
    {Prop("data", n) : n \in Lengths} \cup {Prop(k, 0) : k \in {"getter", "object", "mute"}}
RunsCode(p) == p.kind \in {"getter", "object"}

TopCall == sparse[Len(sparse)]
Becomes(c) == sparse' = [sparse EXCEPT ![Len(sparse)] = c]

\* __sparseLengthProbe, then the native's own read unless the accessor is in place.
ProbeCall(c) ==
    IF own.kind = "fixed" \/ c.desc.kind = "mute"
    THEN [c EXCEPT !.n = c.desc.n, !.limit = c.desc.n, !.at = "loop"]
    ELSE IF sealed
    THEN IF RunsCode(c.desc) THEN [c EXCEPT !.n = MAX_SAFE, !.at = "answer"]
         ELSE [c EXCEPT !.n = c.desc.n, !.limit = c.desc.n, !.at = "loop"]
    ELSE [c EXCEPT !.installed = TRUE, !.at = "read"]

Sparse ==
    /\ Len(sparse) < MaxSparse
    /\ LET owns == own.kind # "none"
           c    == ProbeCall([desc |-> IF owns THEN own ELSE proto, owns |-> owns,
                              installed |-> FALSE, n |-> 0, limit |-> 0, walked |-> 0, at |-> "probe"])
       IN  /\ sparse' = Append(sparse, c)
           /\ own' = IF c.installed THEN Prop("probe", Len(sparse) + 1) ELSE own
    /\ UNCHANGED <<proto, sealed, shown, lastSparse>>

CallSparse == sparse = <<>> /\ Sparse /\ UNCHANGED movesLeft

\* Mutant: what was found at first is put back once more when the call ends.
RestoreAgain(c) == IF c.owns THEN c.desc ELSE NoProp
\* restore
Restored(c) == IF ~c.installed THEN own ELSE IF c.owns THEN c.desc ELSE NoProp

\* The native reads the length, through the accessor's read().
NativeReads ==
    /\ sparse # <<>> /\ TopCall.at = "read"
    /\ own' = Restored(TopCall)
    /\ LET c == [TopCall EXCEPT !.installed = FALSE]
       IN  Becomes(IF RunsCode(c.desc) THEN [c EXCEPT !.at = "answer"]
                   ELSE [c EXCEPT !.n = c.desc.n, !.limit = c.desc.n, !.at = "loop"])
    /\ UNCHANGED <<proto, sealed, shown, lastSparse, movesLeft>>

\* The native walks one index; it calls back unless the index is a hole.
Walk(hole) ==
    /\ sparse # <<>> /\ TopCall.at = "loop" /\ TopCall.walked < TopCall.limit
    /\ Becomes([TopCall EXCEPT !.walked = @ + 1, !.at = IF hole THEN "loop" ELSE "callback"])
    /\ UNCHANGED <<own, proto, sealed, shown, lastSparse, movesLeft>>

\* The finally block: the accessor is taken back, then the walk is charged.
EndsWith(c) ==
    /\ own' = Restored(c)
    /\ sparse' = SubSeq(sparse, 1, Len(sparse) - 1)
    /\ lastSparse' = [walked |-> c.walked, paid |-> IF c.installed THEN MAX_SAFE ELSE c.n]
    /\ UNCHANGED <<proto, sealed, shown, movesLeft>>

\* some and every may stop early.
Returns == sparse # <<>> /\ TopCall.at = "loop" /\ EndsWith(TopCall)
-------------------------------------------------------------------------------
(***************************************************************************)
(* Contract code.                                                          *)
(***************************************************************************)
InCode == sparse # <<>> /\ TopCall.at \in {"answer", "callback"}

AnswersLength(n) ==
    /\ sparse # <<>> /\ TopCall.at = "answer"
    /\ Becomes([TopCall EXCEPT !.at = "loop", !.limit = n,
                               !.n = IF @ = MAX_SAFE THEN MAX_SAFE ELSE n])
    /\ UNCHANGED <<own, proto, sealed, shown, lastSparse, movesLeft>>

CallbackReturns ==
    /\ sparse # <<>> /\ TopCall.at = "callback"
    /\ Becomes([TopCall EXCEPT !.at = "loop"])
    /\ UNCHANGED <<own, proto, sealed, shown, lastSparse, movesLeft>>

CodeThrows == InCode /\ EndsWith(TopCall)

Moves == InCode /\ movesLeft > 0 /\ movesLeft' = movesLeft - 1

CallsAgain == Moves /\ Sparse

\* The contract defines or deletes the length, or sets the one of an array.
Redefines(p) ==
    /\ Moves /\ ~sealed
    /\ IF own.kind = "fixed" THEN p.kind = "fixed" ELSE p.kind # "fixed"
    /\ own' = p /\ shown' = p
    /\ UNCHANGED <<proto, sealed, sparse, lastSparse>>

ProbeInit ==
    /\ own \in ContractProps \cup {NoProp} \cup {Prop("fixed", n) : n \in Lengths}
    /\ proto \in {NoProp, Prop("data", 1), Prop("getter", 0)}
    /\ sealed \in BOOLEAN
    /\ shown = own
    /\ sparse = <<>> /\ lastSparse = [walked |-> 0, paid |-> 0]
    /\ movesLeft = MaxMoves

ProbeNext ==
    \/ CallSparse \/ NativeReads \/ \E hole \in BOOLEAN : Walk(hole)
    \/ Returns \/ CallbackReturns \/ CodeThrows \/ CallsAgain
    \/ \E n \in Lengths : AnswersLength(n)
    \/ \E p \in ContractProps \cup {NoProp} \cup {Prop("fixed", n) : n \in Lengths} : Redefines(p)

ProbeSpec == ProbeInit /\ [][ProbeNext]_probeVars
-------------------------------------------------------------------------------
\* Whenever contract code runs, in a hook of the method or after it, the length
\* it sees is the one it made: the harness's accessor is never observed and
\* never put back over a later definition, even when calls on one receiver nest.
ProbeLeavesNoTrace == (sparse = <<>> \/ InCode) => own = shown

\* However the length answered and however the call ended, every index the native
\* walked is charged.
WalkIsPaid == lastSparse.walked <= lastSparse.paid
===============================================================================
