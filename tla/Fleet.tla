--------------------------------- MODULE Fleet --------------------------------
(***************************************************************************)
(* One validator of a fleet: it is let in only with the pinned engine and  *)
(* packages (src/consensus-runtime.js), loads the VM, runs blocks in any   *)
(* order (replays and reorganisations included) and restarts.  What an     *)
(* execution compiles, and the budget it runs against, must be a function  *)
(* of its block alone, whatever the process compiled before and whatever   *)
(* the operator configured (index/armed_harness/select.js,                 *)
(* string_result_meter.js, runtime/isolate_globals.js, consensus-wall-     *)
(* clock.js, src/process-executor.js).                                     *)
(*                                                                         *)
(* The harness an execution compiles comes from the rules of               *)
(* armed_harness/select.js, the derivation of a source from the unarmed    *)
(* one (derivation.js) and the string result meter that derives every      *)
(* source once more.  A source is the text of each place that some edit    *)
(* names, as the list of the rules that rewrote it, and the helpers before *)
(* the closing line.                                                       *)
(***************************************************************************)
EXTENDS Realm, Sequences, SequencesExt, FiniteSets

CONSTANTS
    Blocks,     \* blocks the validator is given
    Versions,   \* what may be installed: a subset of the pinned keys that match
    CpuLimits   \* limits.maxCpuTimeMs of the operator's configuration; 0 is none

VARIABLES
    installed,              \* the keys of the engine and the packages that match
    maxCpuTimeMs,
    loaded,                 \* "no", "yes", "refused"
    harnessSources,         \* masks that string_result_meter.js has derived
    harnessCachedData,      \* vm._harnessCachedData
    armedHarnessCache,      \* vm._armedHarnessCache
    lastExec                \* what the last execution ran with

fleetVars == <<installed, maxCpuTimeMs, loaded, harnessSources, harnessCachedData,
               armedHarnessCache, lastExec>>
-------------------------------------------------------------------------------
(* The armed harness. *)
\* RULES, in their order.
RULES == <<"resourceFaultSignal", "hostErrorStackStrip", "hostCallBounds", "stringifyReentry",
           "perElementMeter", "stringReceiverMeter", "toStringSizeMeter", "nativeStackTerminal">>
RuleNames == {RULES[i] : i \in DOMAIN RULES}

\* EDITS of each rule, by the harness lines they touch.
ResourceFaultEdits  == {"stackError"}
HostErrorStackEdits == {"wrap"}
HostCallBoundsEdits == {"wrapArgs", "guard", "guardDepths", "guardLimit", "resolve",
                        "resolveLimit", "pushFrame", "stringify", "resolveCall", "guardCall"}
ReentryEdits        == {"hookGate", "newFrame"}
PerElementEdits     == {"objSpread", "objRest", "setAlgebra", "stringRaw"}
StringReceiverEdits == {"repeat", "meterLen", "replace", "stringConcat", "trims"}
ToStringSizeEdits   == {"padStart", "padEnd", "globalFn"}
NativeStackEdits    == {"stackPoison", "gas", "depthEnter", "depthExit", "arrspread"}

EDITS ==
    [resourceFaultSignal |-> ResourceFaultEdits, hostErrorStackStrip |-> HostErrorStackEdits,
     hostCallBounds |-> HostCallBoundsEdits, stringifyReentry |-> ReentryEdits,
     perElementMeter |-> PerElementEdits, stringReceiverMeter |-> StringReceiverEdits,
     toStringSizeMeter |-> ToStringSizeEdits, nativeStackTerminal |-> NativeStackEdits]

Places == UNION {EDITS[r] : r \in RuleNames} \cup {"applyLength", "html"}

HARNESS_SOURCE == [text |-> [p \in Places |-> <<>>], helpers |-> <<>>, ok |-> TRUE]

\* Each rule's helper text: the rules that reshaped it.
Helper(rule) == [rule |-> rule, by |-> {}]
-------------------------------------------------------------------------------
\* COUPLINGS: a rule whose helpers change beside another.
COUPLINGS == {<<"hostErrorStackStrip", "hostCallBounds">>, <<"stringifyReentry", "hostCallBounds">>}

rulesFor(mask) ==
    LET armed == SelectSeq(RULES, LAMBDA r : r \in mask)
    IN  [i \in DOMAIN armed |->
            [label   |-> armed[i],
             edits   |-> EDITS[armed[i]],
             helpers |-> [Helper(armed[i]) EXCEPT
                !.by = {w \in mask : <<armed[i], w>> \in COUPLINGS}]]]

\* deriveHarness: every edit is located in the source, a line edited twice refuses.
deriveHarness(source, rules) ==
    LET edit(out, rule) ==
            [text    |-> [p \in Places |-> IF p \in rule.edits THEN Append(out.text[p], rule.label)
                                           ELSE out.text[p]],
             helpers |-> Append(out.helpers, rule.helpers),
             ok      |-> out.ok /\ \A p \in rule.edits : out.text[p] = source.text[p]]
    IN  FoldLeft(edit, source, rules)

\* buildStringResultMeterHarness: String.raw has the guard of the rule that is
\* armed, and that rule's own wrapper is gated too.
buildStringResultMeterHarness(source) ==
    LET perElement == source.text["stringRaw"] = <<"perElementMeter">>
        plain      == source.text["stringRaw"] = <<>>
        out == deriveHarness(source, <<[label |-> "stringResultMeter",
                    edits |-> {"applyLength", "html", "stringRaw"},
                    helpers |-> Helper("stringResultMeter")]>>)
    IN  [out EXCEPT
            !.ok = @ /\ (perElement \/ plain) /\ source.text["html"] = <<>>
                     /\ source.text["applyLength"] = <<>>,
            !.helpers = [i \in DOMAIN @ |->
                IF perElement /\ @[i].rule = "perElementMeter"
                THEN [@[i] EXCEPT !.by = @ \cup {"stringResultMeter"}] ELSE @[i]]]
-------------------------------------------------------------------------------
executionHarnessMask(block) ==
    LET armed == [resourceFaultSignal |-> isResourceFaultSignalActive(block),
                  hostErrorStackStrip |-> isHostErrorStackStripActive(block),
                  hostCallBounds      |-> TimeGate(HOST_CALL_BOUNDS_ACTIVATION, block),
                  stringifyReentry    |-> isJsonStringifyReentryActive(block),
                  perElementMeter     |-> TimeGate(PER_ELEMENT_METER_ACTIVATION, block),
                  stringReceiverMeter |-> TimeGate(STRING_RECEIVER_METER_ACTIVATION, block),
                  toStringSizeMeter   |-> isToStringSizeMeterActive(block),
                  nativeStackTerminal |-> isNativeStackTerminalActive(block)]
    IN  {r \in RuleNames : armed[r]}
-------------------------------------------------------------------------------
PINNED == {"v8", "icu", "unicode", "cldr", "modules"}
DEPENDENCY_PINNED == {"isolated-vm", "mathjs", "decimal.js", "acorn", "acorn-walk", "astring"}

\* A block time has 32 bits, and nothing but what is pinned can match a pin.
ASSUME FleetAssumption ==
    /\ \A b \in Blocks : b.height \in Int /\ b.time \in Int /\ b.time < NEVER
    /\ Versions \subseteq SUBSET (PINNED \cup DEPENDENCY_PINNED)
    /\ CpuLimits \subseteq Nat

CONSENSUS_MAX_WALL_MS == 30000
MAX_STACK_DEPTH == 512
MAX_STACK_DEPTH_MUSL == 256

NoData == [none |-> TRUE]
Masks == SUBSET RuleNames
NoExec == [done |-> FALSE]
-------------------------------------------------------------------------------
mismatches(pins) == pins \ installed
checkConsensusRuntime == mismatches(PINNED) = {}
checkConsensusDependencies == mismatches(DEPENDENCY_PINNED) = {}

harnessSourceFor(mask) == deriveHarness(HARNESS_SOURCE, rulesFor(mask))
sourceFor(mask) == buildStringResultMeterHarness(harnessSourceFor(mask))

\* The load-time proofs of select.js and string_result_meter.js.
EveryMaskDerives ==
    /\ \A mask \in Masks : harnessSourceFor(mask).ok /\ sourceFor(mask).ok
    /\ deriveHarness(HARNESS_SOURCE, <<>>) = HARNESS_SOURCE

\* The host loads the VM once the startup gates pass.
Load ==
    /\ loaded = "no"
    /\ loaded' = IF checkConsensusRuntime /\ checkConsensusDependencies /\ EveryMaskDerives
                 THEN "yes" ELSE "refused"
    /\ UNCHANGED <<installed, maxCpuTimeMs, harnessSources, harnessCachedData,
                   armedHarnessCache, lastExec>>

\* The process dies; the next one starts with nothing.
Restart ==
    /\ loaded = "yes"
    /\ loaded' = "no"
    /\ harnessSources' = {} /\ harnessCachedData' = NoData
    /\ armedHarnessCache' = [mask \in {} |-> NoData]
    /\ UNCHANGED <<installed, maxCpuTimeMs, lastExec>>
-------------------------------------------------------------------------------
\* Mutant: every harness is cached in the slot of the unarmed one.
CachedOne(mask) == harnessCachedData
CachedFor(mask) ==
    IF mask = {} THEN harnessCachedData
    ELSE IF mask \in DOMAIN armedHarnessCache THEN armedHarnessCache[mask] ELSE NoData

\* V8 may take cached data that belongs to another source: it compares lengths.
compileScript(source, cached) == IF cached = NoData THEN {source} ELSE {source, cached}

\* getCachedData may fail, which is not an error.
StoreCachedData(mask, code, stored) ==
    IF CachedFor(mask) # NoData \/ ~stored
    THEN UNCHANGED <<harnessCachedData, armedHarnessCache>>
    ELSE IF mask = {}
    THEN harnessCachedData' = code /\ UNCHANGED armedHarnessCache
    ELSE /\ armedHarnessCache' = [m \in DOMAIN armedHarnessCache \cup {mask} |->
                                    IF m = mask THEN code ELSE armedHarnessCache[m]]
         /\ UNCHANGED harnessCachedData

resolveWallClockBudgetMs(gated, nodeLimitMs) == IF gated THEN CONSENSUS_MAX_WALL_MS ELSE nodeLimitMs
watchdogMs == (IF maxCpuTimeMs > CONSENSUS_MAX_WALL_MS THEN maxCpuTimeMs ELSE CONSENSUS_MAX_WALL_MS) + 5000
\* resolveLimits: the default when the operator gave none.
nodeLimit == IF maxCpuTimeMs = 0 THEN CONSENSUS_MAX_WALL_MS ELSE maxCpuTimeMs

\* injectExecutionGlobals
ExecutionGlobals(block) ==
    LET depth == IF isPkg3SandboxActive(block) THEN MAX_STACK_DEPTH_MUSL ELSE MAX_STACK_DEPTH
        nativeDepth == IF depth < MAX_STACK_DEPTH_MUSL THEN depth ELSE MAX_STACK_DEPTH_MUSL
    IN  [depthLimit |-> depth, nativeDepthLimit |-> nativeDepth,
         nativeDepthGuard |-> PlainTime(block, CONTRACT_ERA_BLOCK_TIME),
         jsonHooks |-> isJsonHookActive(block),
         iterSet |-> TimeGate(ITER_SET_METER_ACTIVATION, block),
         applyLength |-> TimeGate(APPLY_LENGTH_METER_ACTIVATION, block),
         stringResult |-> TimeGate(STRING_RESULT_METER_ACTIVATION, block),
         stackFault |-> isResourceFaultSignalActive(block),
         nativeStack |-> isNativeStackTerminalActive(block)]

\* What execute() hands to the lint, the sandbox, the metering transform, the
\* gateway, the state and the settlement.
MeteringGates(block) ==
    [specEvalOrder |-> isMeteringEvalOrderActive(block),
     callSpread |-> isCallSpreadMeterActive(block) \/ TimeGate(ITER_SET_METER_ACTIVATION, block),
     restPattern |-> isRestPatternMeterActive(block),
     execLint |-> isExecLintActive(block),
     lintFlags |-> lintFlags(block),
     promiseStrip |-> isAsyncSurfaceActive(block),
     bigIntStrip |-> isBigIntSurfaceStripActive(block),
     stateKeys |-> {isStateKeyNulRejectActive(block), isStateKeyTypeNormalizeActive(block)},
     slash |-> {isSlashTokenDelimGuardActive(block), isSlashAmountPrecisionActive(block)},
     hostFaultHalt |-> isHostFaultHaltActive(block),
     exhausted |-> isGasCeilingExhaustedActive(block)]

Exec(block, stored) ==
    /\ loaded = "yes"
    /\ LET mask == executionHarnessMask(block)
       IN  \E code \in compileScript(sourceFor(mask), CachedFor(mask)) :
              /\ StoreCachedData(mask, code, stored)
              /\ harnessSources' = harnessSources \cup {mask}
              /\ lastExec' = [done |-> TRUE, block |-> block, code |-> code,
                              globals |-> ExecutionGlobals(block), gates |-> MeteringGates(block),
                              budget |-> resolveWallClockBudgetMs(isConsensusWallClockActive(block), nodeLimit)]
    /\ UNCHANGED <<installed, maxCpuTimeMs, loaded>>

FleetInit ==
    /\ installed \in Versions /\ maxCpuTimeMs \in CpuLimits
    /\ loaded = "no" /\ harnessSources = {} /\ harnessCachedData = NoData
    /\ armedHarnessCache = [mask \in {} |-> NoData]
    /\ lastExec = NoExec

FleetNext == Load \/ Restart \/ \E block \in Blocks, stored \in BOOLEAN : Exec(block, stored)

FleetSpec == FleetInit /\ [][FleetNext]_fleetVars
-------------------------------------------------------------------------------
(***************************************************************************)
(* Properties.                                                             *)
(***************************************************************************)
HelperRules(code) == [i \in DOMAIN code.helpers |-> code.helpers[i].rule]
HelperOf(code, rule) == CHOOSE h \in {code.helpers[i] : i \in DOMAIN code.helpers} : h.rule = rule

\* The code that ran is the unarmed harness with exactly the edits and the helpers
\* of the rules in mask, each helper reshaped for the rules beside it, and the
\* string result meter on top.
RanWith(code, mask) ==
    /\ \A p \in Places :
          /\ IsInjective(code.text[p])
          /\ {code.text[p][i] : i \in DOMAIN code.text[p]} =
                {r \in mask : p \in EDITS[r]}
                  \cup (IF p \in {"applyLength", "html", "stringRaw"} THEN {"stringResultMeter"} ELSE {})
    /\ HelperRules(code) = Append(SelectSeq(RULES, LAMBDA r : r \in mask), "stringResultMeter")
    /\ \A r \in mask \cap {"hostErrorStackStrip", "stringifyReentry"} :
          "hostCallBounds" \in HelperOf(code, r).by <=> "hostCallBounds" \in mask
    /\ "perElementMeter" \in mask => "stringResultMeter" \in HelperOf(code, "perElementMeter").by

\* The rules that some helper of the code belongs to.
ArmedBy(code) == {code.helpers[i].rule : i \in DOMAIN code.helpers} \cap RuleNames

\* Every subset of the rules derives the source that it should: the tables and the
\* derivation are fixed, so this has no instances but the one that TLC evaluates.
DerivedAsArmed == \A mask \in Masks : RanWith(sourceFor(mask), mask) /\ ArmedBy(sourceFor(mask)) = mask
ASSUME DerivationAssumption == DerivedAsArmed

\* What a block runs with is decided by the block: no earlier compile, cached
\* bytecode, restart or operator setting shows ("a value that differs across the
\* fleet is itself a fork", activations.js).  Mainnet and unknown networks run
\* the unarmed rules, regtest all of them, and the two halves of a rule, in the
\* harness and outside it, are armed together.
BlockDecides ==
    lastExec.done =>
        LET b    == lastExec.block
            code == lastExec.code
            armed == ArmedBy(code)
        IN  /\ RanWith(code, executionHarnessMask(b))
            /\ b.network = "regtest" => armed = RuleNames
            /\ b.network \notin {"testnet", "regtest"} => armed = {}
            /\ "nativeStackTerminal" \in armed <=> lastExec.globals.nativeStack
            /\ "resourceFaultSignal" \in armed <=> lastExec.globals.stackFault
            /\ lastExec.globals.jsonHooks => lastExec.globals.nativeDepthGuard
            /\ b.network = "regtest" => (lastExec.globals.jsonHooks <=> lastExec.globals.nativeDepthGuard)
            /\ lastExec.globals.nativeDepthLimit <= MAX_STACK_DEPTH_MUSL
            /\ lastExec.gates.hostFaultHalt => "syntaxDepth" \in lastExec.gates.lintFlags
            /\ isConsensusWallClockActive(b) => lastExec.budget = CONSENSUS_MAX_WALL_MS
            /\ lastExec.budget < watchdogMs
            /\ installed = PINNED \cup DEPENDENCY_PINNED

\* What a contract runs in is decided by the block and by the host alone: the
\* harness and the limits are those of the block on every node that may run it,
\* whatever was compiled before, and the realm it is given stays sealed and
\* dispatches what the host asked for, whatever the contract writes
\* (select.js, string_result_meter.js, sandbox.js, contract_wrapper.js).
EnvironmentFixed == BlockDecides /\ RealmSealed
===============================================================================
