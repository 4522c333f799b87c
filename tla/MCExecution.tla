------------------------------ MODULE MCExecution -----------------------------
(***************************************************************************)
(* Small instances of Execution.  The gate settings are the epochs of the  *)
(* networks: every gate is armed at a block of its own, in the order in    *)
(* which the activation tables list them.                                  *)
(***************************************************************************)
EXTENDS Execution

Armed(names) == [g \in GateNames |-> g \in names]

Genesis   == {}
Lint      == {"lint"}
Hardened  == Lint \cup {"harden"}
Bounded   == Hardened \cup {"depth", "signal", "native", "ceilExhausted"}
Ceilings  == Bounded \cup {"ceilSuccess"}
Halting   == Ceilings \cup {"halt"}

\* A network without names, one that has only the first gates, the epochs of a
\* live network, and regtest, where every gate is on from the start.
AllEpochs  == {Armed(e) : e \in {Genesis, Lint, Hardened, Bounded, Ceilings, Halting, GateNames}}
CallEpochs == {Armed(e) : e \in {Hardened, Halting, GateNames}}

FreeRun   == {[depthLeft |-> TRUE, hopsLeft |-> TRUE, isGuard |-> FALSE]}
AnyRun    == [depthLeft : BOOLEAN, hopsLeft : BOOLEAN, isGuard : BOOLEAN]

\* What a contract may throw to look like something else.
Forgeries == {PlainError, GasError, RevertError, TimeoutError, MemoryError, StackError,
              NativeOverflow, AnError("none", {"out of memory"}), AnError("none", {"call stack"}),
              AnError("gas", {"call stack"})}
NoForgery == {PlainError}
===============================================================================
