------------------------------- MODULE Execution ------------------------------
(***************************************************************************)
(* One contract execution in this process: XChainVM.execute                *)
(* (index/runtime/execute.js) from the size check to the settled result,   *)
(* with the gateway calls the contract makes and the error classifier      *)
(* (index/runtime/classify_error.js).                                      *)
(*                                                                         *)
(* The contract is any program: at every step it may charge gas, call the  *)
(* gateway, throw an error of its own, catch one in flight, or return.  An *)
(* error keeps what the classifier can see of it: the tag the bridge puts  *)
(* on typed errors, the phrases its text contains, its class.  The host    *)
(* may fail at any set-up step, the wall clock may run out, the isolate    *)
(* may hit its memory limit and the native stack may overflow.             *)
(***************************************************************************)
EXTENDS GasTracker, StateStore, EmissionCollector

CONSTANTS
    Activations,    \* gate settings of the blocks under study
    Contexts,       \* call contexts: depth and hops left, controller guard
    ContractErrors, \* errors a contract may throw itself
    PlainActions,   \* what the plain emits and slash queue
    ALLOWED_ACTIONS,\* what the validator lets through
    ComputeUnits,   \* charges of metered code and of the bulk operations
    CallLimits,     \* the gasLimit values contracts ask for
    HostReadGas,    \* prices of the reads of the caller's snapshots
    LintGas, ReadGas, WriteGas, DeleteGas, EmissionGas, AttestGas, XcallGas,
    MinCallGas,     \* least gasLimit of emit.execute
    MinXcallGas,    \* bounds of the gasLimit of emit.crossExecute
    MaxXcallGas

GateNames == {"lint", "depth", "halt", "harden", "signal", "native",
              "ceilSuccess", "ceilExhausted", "capFirst"}

ASSUME ExecutionAssumption ==
    /\ Activations \subseteq [GateNames -> BOOLEAN]
    /\ \A g \in Activations : g.signal => g.native    \* armed at the same heights
    /\ Contexts \subseteq [depthLeft : BOOLEAN, hopsLeft : BOOLEAN, isGuard : BOOLEAN]
    /\ ComputeUnits \cup CallLimits \cup HostReadGas \subseteq Nat
    /\ {LintGas, ReadGas, WriteGas, DeleteGas, EmissionGas, AttestGas,
        XcallGas, MinCallGas, MinXcallGas, MaxXcallGas} \subseteq Nat
    /\ PlainActions \cap {"EXECUTE", "XCALL"} = {}    \* those are emit.execute and crossExecute

VARIABLES
    gates,          \* which rules the block has active
    ctx,            \* readOnlyData of the gateway
    phase,          \* how far execute() has come
    thrown,         \* the error in flight
    reverted,       \* execContext.reverted
    poisoned,       \* __stackPoison in the isolate
    stackFault,     \* hostSignals.stackFault
    elapsed,        \* the wall-clock budget has run out
    isolate,        \* "none", "live", "disposed" by V8, "released"
    result,
    hostFaulted,    \* history: this host failed at a step of its own
    prepaid,        \* history: gas charged for calls of other contracts
    machine         \* history: the machine ended the contract, and how

hostVars == <<elapsed, isolate, stackFault, hostFaulted>>
runVars  == <<thrown, reverted, poisoned, machine, prepaid>>
vars == <<gasVars, storeVars, collectorVars, gates, ctx, phase, runVars, hostVars, result>>
-------------------------------------------------------------------------------
Phrases == {"timed out", "disposed", "memory limit", "out of memory", "call stack"}

\* range: a RangeError by class or by name; exact: the guard's own text.
Errors == [tag : {"none", "revert", "gas"}, says : SUBSET Phrases,
           range : BOOLEAN, exact : BOOLEAN]

AnError(tag, says) == [tag |-> tag, says |-> says, range |-> FALSE, exact |-> FALSE]

Nothing        == AnError("nothing", {})
PlainError     == AnError("none", {})
GasError       == AnError("gas", {})
RevertError    == AnError("revert", {})
TimeoutError   == AnError("none", {"timed out"})
MemoryError    == AnError("none", {"disposed", "memory limit"})
StackError     == [AnError("none", {"call stack"}) EXCEPT !.exact = TRUE]
NativeOverflow == [AnError("none", {"call stack"}) EXCEPT !.range = TRUE]

Statuses == {"success", "revert", "out_of_gas", "timeout", "out_of_memory",
             "out_of_stack", "error"}

\* A promise that rejects settles no status: HostFaultError halts the caller,
\* anything else is a plain rejection.
Rejections == {"hostfault", "rejected"}

NoResult == [status |-> "none", gasUsed |-> 0, changes |-> {}, deletes |-> {},
             emitted |-> <<>>, logs |-> 0]

Init ==
    /\ GasInit /\ StoreInit /\ CollectorInit
    /\ gates \in Activations
    /\ normalizeKeys = gates.harden    \* armed by the same block time
    /\ ctx \in Contexts
    /\ phase = "entry"
    /\ thrown = Nothing
    /\ reverted = FALSE /\ poisoned = FALSE /\ stackFault = FALSE
    /\ elapsed = FALSE /\ isolate = "none"
    /\ result = NoResult
    /\ hostFaulted = FALSE /\ machine = "none" /\ prepaid = 0

\* errorResult(): state and emissions dropped, logs kept, then the finally
\* block disposes of the isolate.
Release == isolate' = IF isolate = "live" THEN "released" ELSE isolate

Settle(r) ==
    /\ phase' = "done"
    /\ result' = r
    /\ Release
    /\ UNCHANGED <<collectorVars, storeVars, gates, ctx, runVars, elapsed, stackFault>>

errorResult(status, gasUsed) ==
    [NoResult EXCEPT !.status = status, !.gasUsed = gasUsed, !.logs = logs]

SettleError(status, gasUsed) ==
    Settle(errorResult(status, gasUsed)) /\ UNCHANGED <<gasVars, hostFaulted>>

\* This host failed at a step of its own and the code settles on a status.
HostFails(status, gasUsed) ==
    /\ Settle(errorResult(status, gasUsed))
    /\ hostFaulted' = TRUE

\* A host stack overflow is a fault of this host once the source is bounded by
\* the syntax-depth rule, and an outcome before.
OverflowStatus == IF gates.depth THEN "hostfault" ELSE "error"

\* Mutant: the failure settles as it did before the gate.
HaltStatusUngated(otherwise) == otherwise

HaltStatus(otherwise) == IF gates.halt THEN "hostfault" ELSE otherwise

Advance(from, to) ==
    /\ phase = from
    /\ phase' = to
    /\ UNCHANGED <<collectorVars, storeVars, gates, ctx, runVars, elapsed,
                   stackFault, hostFaulted, result>>
-------------------------------------------------------------------------------
(***************************************************************************)
(* Before the contract runs.                                               *)
(***************************************************************************)

\* maxCodeSize, before any expensive work.
RefuseCodeSize ==
    /\ phase = "entry"
    /\ SettleError("error", used)

\* The lint charge comes before the verdict and whatever the cache holds.
checkExecLint ==
    /\ phase = "entry"
    /\ gates.lint
    /\ charge(LintGas)
    /\ IF Exceeds(LintGas)
       THEN Settle(errorResult("out_of_gas", ceiling)) /\ UNCHANGED hostFaulted
       ELSE \/ Advance("entry", "linted") /\ UNCHANGED isolate
            \/ Settle(errorResult("error", used + LintGas)) /\ UNCHANGED hostFaulted
            \/ HostFails("hostfault", used + LintGas)      \* no isolate to parse in
            \/ HostFails(OverflowStatus, used + LintGas)
            \/ HostFails(HaltStatus("rejected"), used + LintGas)

SkipExecLint ==
    /\ ~gates.lint
    /\ Advance("entry", "linted")
    /\ UNCHANGED <<gasVars, isolate>>

createIsolate ==
    \/ /\ Advance("linted", "setup")
       /\ isolate' = "live"
       /\ UNCHANGED gasVars
    \/ /\ phase = "linted"
       /\ HostFails("hostfault", used)
       /\ UNCHANGED gasVars

\* stripGlobals, injectGateway, setGas, injectExecutionGlobals, the harness and
\* the read-only accessors: any throw is a host fault (hostSetupStep).
hostSetup ==
    \/ Advance("setup", "meter") /\ UNCHANGED <<gasVars, isolate>>
    \/ phase = "setup" /\ HostFails("hostfault", used) /\ UNCHANGED gasVars

\* A source the transform cannot parse is an outcome; an overflow is not.
getMeteredCode ==
    \/ Advance("meter", "compile") /\ UNCHANGED <<gasVars, isolate>>
    \/ phase = "meter" /\ SettleError("error", used)
    \/ phase = "meter" /\ HostFails(OverflowStatus, used) /\ UNCHANGED gasVars

\* The contract is a string inside the wrapper, so no contract makes this fail.
compileWrapper ==
    \/ Advance("compile", "running") /\ UNCHANGED <<gasVars, isolate>>
    \/ /\ phase = "compile"
       /\ \/ HostFails(IF gates.depth THEN "hostfault" ELSE HaltStatus("error"), used)
          \/ HostFails(HaltStatus("error"), used)
       /\ UNCHANGED gasVars
-------------------------------------------------------------------------------
(***************************************************************************)
(* The contract runs.                                                      *)
(***************************************************************************)
Running == phase = "running" /\ thrown = Nothing
Quiet   == UNCHANGED <<gates, ctx, phase, hostVars, result>>
Fails(e)  == thrown' = e /\ UNCHANGED <<reverted, poisoned, machine>>
Throws(e) == Fails(e) /\ UNCHANGED prepaid
Goes      == UNCHANGED runVars

Charged(n) ==
    /\ Running
    /\ charge(n)
    /\ IF Exceeds(n) THEN Throws(GasError) ELSE Goes
    /\ Quiet /\ UNCHANGED <<storeVars, collectorVars>>

\* A metered point of the contract's own code, or a bulk operation: __gas(n).
Compute(n) == Charged(n)

\* The ledger, oracle, cross-chain, stake and attestation reads: what they answer
\* comes from the snapshots the caller passed.
HostRead(n) == Charged(n)

\* The Object.* statics catch the error of their own charge and return.
SwallowedCharge(n) ==
    /\ Running
    /\ Exceeds(n)
    /\ charge(n)
    /\ Goes /\ Quiet /\ UNCHANGED <<storeVars, collectorVars>>

\* state.get and state.has.
Read(a) ==
    /\ Running
    /\ charge(ReadGas)
    /\ IF Exceeds(ReadGas) THEN Throws(GasError)
       ELSE IF KeyThrows(a) THEN Throws(PlainError) ELSE Goes
    /\ Quiet /\ UNCHANGED <<storeVars, collectorVars>>

\* Every write is paid for before it is looked at.
StateSet(a, v) ==
    /\ Running
    /\ charge(WriteGas)
    /\ \/ Exceeds(WriteGas) /\ Throws(GasError) /\ UNCHANGED storeVars
       \/ ~Exceeds(WriteGas) /\ setThrows(a, v) /\ Throws(PlainError) /\ UNCHANGED storeVars
       \/ ~Exceeds(WriteGas) /\ set(a, v) /\ Goes
    /\ Quiet /\ UNCHANGED collectorVars

StateDelete(a) ==
    /\ Running
    /\ charge(DeleteGas)
    /\ \/ Exceeds(DeleteGas) /\ Throws(GasError) /\ UNCHANGED storeVars
       \/ ~Exceeds(DeleteGas) /\ deleteThrows(a) /\ Throws(PlainError) /\ UNCHANGED storeVars
       \/ ~Exceeds(DeleteGas) /\ delete(a) /\ Goes
    /\ Quiet /\ UNCHANGED collectorVars
-------------------------------------------------------------------------------
(***************************************************************************)
(* The gateway's emits.  `ok` says whether the parameters are well formed. *)
(***************************************************************************)
Remaining == ceiling - used

\* send, destroy, ... vote and contractStake.slash: charge, check, queue.
Emit(action, ok) ==
    /\ Running
    /\ charge(EmissionGas)
    /\ \/ Exceeds(EmissionGas) /\ Throws(GasError) /\ UNCHANGED emissions
       \/ /\ ~Exceeds(EmissionGas) /\ ~(ok /\ ensureRoom)
          /\ Throws(PlainError) /\ UNCHANGED emissions
       \/ ~Exceeds(EmissionGas) /\ ok /\ add(action, 0) /\ Goes
    /\ Quiet /\ UNCHANGED <<storeVars, logs>>

\* A call that is refused before it costs anything.
Refused ==
    /\ Throws(PlainError)
    /\ Quiet /\ UNCHANGED <<gasVars, storeVars, collectorVars>>

\* A call paid in full before it is queued: with the cap checked last, a full
\* collector keeps the payment and drops the call.
Prepaid(action, cost, reserves) ==
    /\ charge(cost)
    /\ prepaid' = prepaid + cost
    /\ IF ensureRoom THEN add(action, reserves) /\ UNCHANGED <<thrown, reverted, poisoned, machine>>
                     ELSE Fails(PlainError) /\ UNCHANGED emissions
    /\ Quiet /\ UNCHANGED <<storeVars, logs>>

\* Mutant: the cap is left to add().
CapNeverRefuses == FALSE

CapRefuses == gates.capFirst /\ ~ensureRoom

\* Mutant: the callee's budget is queued and not charged.
executeUncharged(ok, gasLimit) ==
    /\ Running
    /\ ctx.depthLeft /\ ok /\ gasLimit >= MinCallGas
    /\ gasLimit + EmissionGas <= Remaining
    /\ Prepaid("EXECUTE", EmissionGas, gasLimit)

execute(ok, gasLimit) ==
    LET cost == EmissionGas + gasLimit
        refused == \/ ~ctx.depthLeft \/ ~ok
                   \/ gasLimit < MinCallGas
                   \/ cost > Remaining
                   \/ CapRefuses
    IN  /\ Running
        /\ IF refused THEN Refused ELSE Prepaid("EXECUTE", cost, gasLimit)

crossExecute(ok, gasLimit) ==
    LET totalCharge == EmissionGas + XcallGas + gasLimit
        refused == \/ ctx.isGuard \/ ~ctx.hopsLeft \/ ~ok
                   \/ gasLimit \notin MinXcallGas..MaxXcallGas
                   \/ totalCharge > Remaining
                   \/ CapRefuses
    IN  /\ Running
        /\ IF refused THEN Refused ELSE Prepaid("XCALL", totalCharge, gasLimit)

\* attestation.request charges twice, and only then looks at its arguments.
request(ok) ==
    LET cost == AttestGas + EmissionGas
    IN  /\ Running
        /\ \/ (ctx.isGuard \/ CapRefuses) /\ Refused
           \/ /\ ~ctx.isGuard /\ ~CapRefuses
              /\ charge(IF Exceeds(AttestGas) THEN AttestGas ELSE cost)
              /\ \/ Exceeds(cost) /\ Throws(GasError) /\ UNCHANGED emissions
                 \/ /\ ~Exceeds(cost) /\ ~(ok /\ ensureRoom)
                    /\ Throws(PlainError) /\ UNCHANGED emissions
                 \/ ~Exceeds(cost) /\ ok /\ add("ATTEST", 0) /\ Goes
              /\ Quiet /\ UNCHANGED <<storeVars, logs>>

log ==
    /\ Running
    /\ addLog
    /\ Goes /\ Quiet /\ UNCHANGED <<gasVars, storeVars, emissions>>

\* revert(), and require() of a false condition.
revert ==
    /\ Running
    /\ reverted' = TRUE
    /\ thrown' = RevertError
    /\ Quiet /\ UNCHANGED <<gasVars, storeVars, collectorVars, poisoned, machine, prepaid>>
-------------------------------------------------------------------------------
(***************************************************************************)
(* Errors in the contract and faults of the machine under it.              *)
(***************************************************************************)
Effects == <<gasVars, storeVars, collectorVars>>

Throw(e) ==
    /\ Running
    /\ Throws(e)
    /\ Quiet /\ UNCHANGED Effects

\* __stackError: the fault is reported to the host where the signal is armed,
\* and poisons every metered point that follows.
TripGuard ==
    /\ poisoned' = TRUE
    /\ stackFault' = (stackFault \/ gates.signal)
    /\ thrown' = StackError
    /\ machine' = "guard"
    /\ UNCHANGED <<Effects, gates, ctx, phase, result, reverted, prepaid, elapsed, isolate, hostFaulted>>

depthGuard == Running /\ TripGuard

\* V8's own overflow.  Armed, the first catch, finally or frame exit that sees
\* it trips the guard; unarmed it is an error like any other.
nativeOverflow ==
    /\ Running
    /\ IF gates.native
       THEN TripGuard
       ELSE /\ thrown' = NativeOverflow
            /\ machine' = "native"
            /\ Quiet /\ UNCHANGED <<Effects, reverted, poisoned, prepaid>>

\* Mutant: a catch that does not ask for the poison.
catchPoisoned ==
    /\ phase = "running" /\ thrown # Nothing
    /\ charge(1)
    /\ thrown' = IF Exceeds(1) THEN GasError ELSE Nothing
    /\ machine' = IF machine = "native" THEN "none" ELSE machine
    /\ Quiet /\ UNCHANGED <<storeVars, collectorVars, reverted, poisoned, prepaid>>

\* A catch clause, or a finally that discards the error, starts with __gas(1).
Catch ==
    /\ phase = "running" /\ thrown # Nothing
    /\ IF poisoned
       THEN thrown' = StackError /\ UNCHANGED <<gasVars, machine>>
       ELSE /\ charge(1)
            /\ thrown' = IF Exceeds(1) THEN GasError ELSE Nothing
            /\ machine' = IF machine = "native" THEN "none" ELSE machine
    /\ Quiet /\ UNCHANGED <<storeVars, collectorVars, reverted, poisoned, prepaid>>

Uncaught ==
    /\ phase = "running" /\ thrown # Nothing
    /\ phase' = "failed"
    /\ UNCHANGED <<Effects, gates, ctx, runVars, hostVars, result>>

\* The clock keeps running until the classifier reads it.
TimePasses ==
    /\ phase \in {"running", "failed"}
    /\ ~elapsed
    /\ elapsed' = TRUE
    /\ UNCHANGED <<Effects, gates, ctx, phase, runVars, isolate, stackFault, hostFaulted, result>>

\* The isolate is stopped from outside: nothing in the contract sees it.
Killed(e, how) ==
    /\ phase' = "failed"
    /\ thrown' = e
    /\ machine' = how
    /\ UNCHANGED <<Effects, gates, ctx, reverted, poisoned, prepaid, elapsed, stackFault,
                   hostFaulted, result>>

\* Mutant: runSync without its timeout.
wallClockOff == FALSE

wallClock ==
    /\ phase = "running" /\ elapsed
    /\ Killed(TimeoutError, "clock")
    /\ UNCHANGED isolate

memoryLimit ==
    /\ phase = "running"
    /\ Killed(MemoryError, "memory")
    /\ isolate' = "disposed"
-------------------------------------------------------------------------------
(***************************************************************************)
(* The verdict.                                                            *)
(***************************************************************************)
Says(phrase) == phrase \in thrown.says
Disposed == isolate = "disposed"
SignalOn == gates.harden /\ gates.signal

\* Which resource branches stand: any text does before the hardening gate, and
\* only what the host has seen does after it.
ClockStands  == ~gates.harden \/ Disposed \/ elapsed
MemoryStands == ~gates.harden \/ Disposed
StackStands  ==
    \/ ~gates.harden
    \/ IF gates.signal THEN stackFault ELSE thrown.range \/ thrown.exact

Verdict(status, gasUsed) == [status |-> status, gasUsed |-> gasUsed]

\* Mutants: exhaustion is believed by its tag only; the stack branch trusts the
\* text.
VerdictUnclamped ==
    IF thrown.tag = "revert" /\ reverted THEN Verdict("revert", used)
    ELSE IF thrown.tag = "gas" /\ used > ceiling THEN Verdict("out_of_gas", ceiling)
    ELSE Verdict("error", used)

VerdictByText ==
    IF exhausted /\ gates.ceilExhausted THEN Verdict("out_of_gas", ceiling)
    ELSE IF Says("call stack") THEN Verdict("out_of_stack", ceiling)
    ELSE Verdict("error", used)

\* The branches of classifyError, in the order they return.
VerdictOf ==
    IF exhausted /\ gates.ceilExhausted            THEN Verdict("out_of_gas", ceiling)
    ELSE IF thrown.tag = "revert" /\ reverted      THEN Verdict("revert", used)
    ELSE IF thrown.tag = "gas" /\ used > ceiling   THEN Verdict("out_of_gas", ceiling)
    ELSE IF SignalOn /\ Disposed /\ Says("memory limit")
                                                   THEN Verdict("out_of_memory", ceiling)
    ELSE IF Says("timed out") \/ Says("disposed")
         THEN IF ClockStands THEN Verdict("timeout", ceiling) ELSE Verdict("error", used)
    ELSE IF Says("out of memory")
         THEN IF MemoryStands THEN Verdict("out_of_memory", ceiling) ELSE Verdict("error", used)
    ELSE IF Says("call stack") /\ StackStands      THEN Verdict("out_of_stack", ceiling)
    ELSE Verdict("error", used)

classifyError ==
    /\ phase = "failed"
    /\ SettleError(VerdictOf.status, VerdictOf.gasUsed)

validate(e) == e.action \in ALLOWED_ACTIONS

\* The contract returns, and execute() settles on what it did.
Return ==
    /\ Running
    /\ IF exhausted /\ (gates.ceilSuccess \/ gates.ceilExhausted)
       THEN SettleError("out_of_gas", ceiling)
       ELSE IF \E i \in 1..Len(emissions) : ~validate(emissions[i])
       THEN SettleError("error", used)
       ELSE /\ Settle([status |-> "success", gasUsed |-> used, changes |-> changes,
                       deletes |-> deletes, emitted |-> emissions, logs |-> logs])
            /\ UNCHANGED <<gasVars, hostFaulted>>
-------------------------------------------------------------------------------
Setup == checkExecLint \/ SkipExecLint \/ createIsolate \/ hostSetup \/ getMeteredCode \/ compileWrapper

Contract ==
    \/ \E n \in ComputeUnits : Compute(n) \/ SwallowedCharge(n)
    \/ \E n \in HostReadGas : HostRead(n)
    \/ \E a \in Args : Read(a) \/ StateDelete(a) \/ \E v \in Values \cup Unstorable : StateSet(a, v)
    \/ \E ok \in BOOLEAN :
          \/ request(ok)
          \/ \E action \in PlainActions : Emit(action, ok)
          \/ \E g \in CallLimits : execute(ok, g) \/ crossExecute(ok, g)
    \/ \E e \in ContractErrors : Throw(e)
    \/ log \/ revert \/ Catch \/ Uncaught \/ Return

Machine == depthGuard \/ nativeOverflow \/ TimePasses \/ wallClock \/ memoryLimit

Finished == phase = "done" /\ UNCHANGED vars

Next == RefuseCodeSize \/ Setup \/ Contract \/ Machine \/ classifyError \/ Finished

Spec == Init /\ [][Next]_vars

\* The host carries on with its own steps, the clock runs and the timeout of
\* runSync fires; of the contract nothing is assumed, not even that it returns.
FairSpec == Spec /\ WF_vars(Setup) /\ WF_vars(TimePasses) /\ WF_vars(wallClock)
                 /\ WF_vars(classifyError)
-------------------------------------------------------------------------------
TypeOK ==
    /\ GasTypeOK /\ StoreTypeOK
    /\ emissions \in Seq([action : PlainActions \cup {"EXECUTE", "XCALL", "ATTEST"},
                          reserves : Nat])
    /\ logs \in 0..MaxLogs
    /\ gates \in Activations /\ ctx \in Contexts
    /\ phase \in {"entry", "linted", "setup", "meter", "compile", "running", "failed", "done"}
    /\ thrown \in Errors \cup {Nothing}
    /\ {reverted, poisoned, stackFault, elapsed, hostFaulted} \subseteq BOOLEAN
    /\ isolate \in {"none", "live", "disposed", "released"}
    /\ machine \in {"none", "guard", "native", "clock", "memory"}
    /\ result.status \in Statuses \cup Rejections \cup {"none"}
    /\ result.gasUsed \in Nat /\ prepaid \in Nat

Settled == phase = "done"
Verdicts == Settled /\ result.status \in Statuses

\* Past the exhaustion gate no result carries gasUsed above the ceiling, on any
\* path: thrown, caught and thrown again, swallowed by a harness wrapper, or
\* returned (execute.js, classify_error.js: "must never be billed beyond it").
BilledWithinCeiling ==
    Verdicts /\ gates.ceilExhausted => result.gasUsed <= ceiling

\* A run that ever crossed its ceiling does not commit once either ceiling gate
\* is on, however the contract hid the error.
ExhaustedNeverCommits ==
    Settled /\ used > ceiling /\ (gates.ceilSuccess \/ gates.ceilExhausted)
        => result.status # "success"

\* A contract ended by the machine (depth guard, native overflow, wall clock,
\* memory limit) never commits and is billed the ceiling, which is the same on
\* every node, whatever its gas stood at when it happened.
ResourceFaultsBillCeiling ==
    Verdicts /\ machine # "none" =>
        result.gasUsed = ceiling /\ result.status # "success"

\* A contract cannot talk itself into a status: a revert called revert(), out of
\* gas crossed the ceiling, and past the hardening gates a memory or stack
\* verdict is one the machine caused, and a timeout needs the clock or the kill.
StatusCorroborated ==
    Settled =>
        /\ result.status = "revert" => reverted
        /\ result.status = "out_of_gas" => used > ceiling
        /\ gates.harden =>
              /\ result.status = "out_of_memory" => machine = "memory"
              /\ result.status = "timeout" => elapsed \/ machine = "memory"
        /\ SignalOn =>
              /\ result.status = "out_of_stack" => machine = "guard"
              /\ machine = "memory" => result.status \in {"out_of_memory", "out_of_gas"}

\* A failure of this host is never settled as a verdict on the contract once the
\* syntax-depth and host-fault gates are on, and a halt is always a failure of
\* this host: no contract can halt a validator.
HostFaultsHalt ==
    /\ Settled /\ hostFaulted /\ gates.depth /\ gates.halt => result.status = "hostfault"
    /\ result.status \in Rejections => hostFaulted

\* The sum of a sequence of amounts.
Total(amounts) ==
    LET upto[n \in 0 .. Len(amounts)] == IF n = 0 THEN 0 ELSE upto[n - 1] + amounts[n]
    IN  upto[Len(amounts)]

\* What the queued actions will run with or have paid.
Reserved(es) == Total([i \in 1 .. Len(es) |-> EmissionGas + es[i].reserves])

CallCost(e) ==
    CASE e.action = "EXECUTE" -> EmissionGas + e.reserves
      [] e.action = "XCALL"   -> EmissionGas + XcallGas + e.reserves
      [] OTHER                -> 0

CallCosts(es) == Total([i \in 1 .. Len(es) |-> CallCost(es[i])])

\* Emission fees and the budgets handed to callees come out of the caller's own
\* ceiling, whatever was swallowed before: "total work per top-level EXECUTE can
\* never exceed the caller's own ceiling" (gateway_emit/same_chain.js).
FundedByCaller == Reserved(emissions) <= ceiling /\ Reserved(emissions) <= used

\* Past the host-call bounds gate a call that is paid for is a call that is
\* queued: the cap refuses before the reservation is charged, "so a refused call
\* at the cap is not billed for an EXECUTE that is never queued" (same_chain.js).
PaidMeansQueued ==
    gates.capFirst => prepaid = CallCosts(emissions)

\* A run hands over everything it queued, never more than the cap, or nothing
\* at all: a failed run leaves no write, no delete and no action behind.
AllOrNothing ==
    Settled =>
        IF result.status = "success"
        THEN result.emitted = emissions /\ Len(emissions) <= MaxEmissions
        ELSE result.changes = {} /\ result.deletes = {} /\ result.emitted = <<>>

\* Every run ends, whatever the contract does.
RunEnds == <>Settled
===============================================================================
