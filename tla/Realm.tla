--------------------------------- MODULE Realm ---------------------------------
(***************************************************************************)
(* The realm a contract runs in: what the sandbox removes from a fresh     *)
(* context (src/sandbox.js, sandbox/neuter_check.js), what the host puts   *)
(* in (index/gateway_injection.js, runtime/isolate_globals.js), what the   *)
(* harness makes of it (harness_part_1.js, _3.js) and how the wrapper runs *)
(* the module and dispatches a method (index/contract_wrapper.js).         *)
(*                                                                         *)
(* A slot is a property: its owner and its key.  The order of the steps    *)
(* matters, since each uses what an earlier one left: a neuter needs       *)
(* defineProperty, the harness a saved copy of it, the wrapper a saved     *)
(* Function.  One reference stands for all those of its group, and one     *)
(* metered built-in for its family.                                        *)
(***************************************************************************)
EXTENDS Activations

CONSTANTS
    RealmBlocks,            \* blocks: they decide what is stripped
    MaxContractSteps        \* writes of contract code

VARIABLES
    realmBlock,
    stubborn,               \* slots the engine does not let be redefined
    realm,                  \* slot to [value, writable, configurable]
    phase,
    asked,                  \* what the host asked the wrapper for
    control,                \* the same as the wrapper's bindings hold it
    exported,               \* what the module exported
    report,                 \* what came of it
    contractSteps

realmVars == <<realmBlock, stubborn, realm, phase, asked, control, exported, report, contractSteps>>

Global(names)      == {<<"global", n>> : n \in names}
Constructor(owners) == {<<o, "constructor">> : o \in owners}
-------------------------------------------------------------------------------
(***************************************************************************)
(* The lists.                                                              *)
(***************************************************************************)
STRIPPED_GLOBAL_NAMES ==
    {"Date", "setTimeout", "setInterval", "setImmediate", "clearTimeout", "clearInterval",
     "clearImmediate", "WeakRef", "FinalizationRegistry", "Proxy", "Reflect", "fetch",
     "XMLHttpRequest", "WebSocket", "SharedArrayBuffer", "Atomics", "queueMicrotask", "Promise",
     "BigInt", "WebAssembly", "Intl", "Temporal", "structuredClone", "performance"}

BIGINT_SURFACE_STRIPPED_GLOBAL_NAMES == {"BigInt64Array", "BigUint64Array"}

STRIPPED_PROTO_METHODS ==
    {"String"} \X {"match", "matchAll", "search", "normalize", "localeCompare",
                   "toLocaleLowerCase", "toLocaleUpperCase"}
      \cup {"Number", "Array", "Object"} \X {"toLocaleString"}

NEUTERED_PROTO_CONSTRUCTORS == {"Object", "Array", "String", "Number", "Boolean", "RegExp"}

BIGINT_SURFACE_STRIPPED_PROTO_METHODS ==
    {"DataView"} \X {"getBigInt64", "getBigUint64", "setBigInt64", "setBigUint64"}

BIGINT_SURFACE_NEUTERED_PROTO_CONSTRUCTORS == {"BigInt"}

\* The prototypes captured before anything is deleted.
PROTOS == {"Object", "Array", "String", "Number", "Boolean", "RegExp", "DataView", "BigInt"}

FnFamilyTargets ==
    Constructor({"Function.prototype", "GeneratorFunction.prototype", "AsyncFunction.prototype",
                 "AsyncGeneratorFunction.prototype", "GeneratorFunction", "AsyncFunction",
                 "AsyncGeneratorFunction"})

\* References, one for each group, and values, of the host.
GatewayRefs ==
    Global({"__accessors", "__ledger", "__state", "__oracle", "__crossChain", "__staking", "__emit",
            "__math", "__controlFlow", "__logging"})
ExecutionValues ==
    Global({"__DEPTH_LIMIT", "__NR_DEPTH_LIMIT", "__PKG3_SANDBOX_ON", "__blockTime", "__METERS_ON"})

Gas            == <<"global", "__gas">>
SavedFunction  == <<"global", "__Function">>
SavedDefine    == <<"global", "__defineProperty">>
StackFault     == <<"global", "__stackFault">>
NativeStackOn  == <<"global", "__NATIVE_STACK_TERMINAL_ON">>
XChain         == <<"global", "xchain">>
DefineProperty == <<"Object", "defineProperty">>
DefineLocked   == {DefineProperty, <<"Object", "defineProperties">>}
ErrorSlots     == {"Error"} \X {"stackTraceLimit", "prepareStackTrace"}

DepthHooks == Global({"__depth_enter", "__depth_exit"})
ALLOC_HELPERS ==
    Global({"__concat", "__setconcat", "__setconcatL", "__tmpl", "__tmpltag", "__tmpltagm",
            "__arrspread", "__objspread", "__objspreadmeter"})

PrivateGlobals ==
    GatewayRefs \cup ExecutionValues \cup DepthHooks \cup ALLOC_HELPERS
      \cup {Gas, SavedFunction, SavedDefine, StackFault, NativeStackOn}

\* What the harness meters before and after it has removed the references.
EarlyMeters(block) ==
    {<<"Array", "fill">>, <<"String", "repeat">>}
      \cup (IF PlainTime(block, CONTRACT_ERA_BLOCK_TIME)
            THEN {<<"global", "Uint8Array">>, <<"Uint8Array", "constructor">>} ELSE {})
      \cup (IF isPkg3SandboxActive(block) THEN {<<"global", "Set">>, <<"Set", "constructor">>} ELSE {})
LateMeters == {<<"Array", "sort">>, <<"JSON", "stringify">>, <<"JSON", "parse">>}

HostGlobals == Global({"console", "process", "require", "importScripts"})

NeuterSlots ==
    FnFamilyTargets \cup Constructor(NEUTERED_PROTO_CONSTRUCTORS) \cup STRIPPED_PROTO_METHODS
      \cup BIGINT_SURFACE_STRIPPED_PROTO_METHODS
      \cup Constructor(BIGINT_SURFACE_NEUTERED_PROTO_CONSTRUCTORS)

NativeSlots ==
    NeuterSlots \cup Global(STRIPPED_GLOBAL_NAMES \cup BIGINT_SURFACE_STRIPPED_GLOBAL_NAMES)
      \cup Global({"eval", "Function", "RegExp", "Math", "Uint8Array", "Set"})
      \cup DefineLocked \cup ErrorSlots \cup LateMeters \cup HostGlobals
      \cup {<<"Object", "create">>, <<"Array", "fill">>, <<"String", "repeat">>,
            <<"Uint8Array", "constructor">>, <<"Set", "constructor">>}

Slots == NativeSlots \cup PrivateGlobals \cup {XChain}
-------------------------------------------------------------------------------
(***************************************************************************)
(* Properties of objects.                                                  *)
(***************************************************************************)
Open(value)   == [value |-> value, writable |-> TRUE, configurable |-> TRUE]
Locked(value) == [value |-> value, writable |-> FALSE, configurable |-> FALSE]
NoSlot        == Open("absent")

\* An assignment, a delete and a define that may fail, which is swallowed.
Assigned(r, slots, value) ==
    [s \in Slots |-> IF s \in slots /\ r[s].writable THEN [r[s] EXCEPT !.value = value] ELSE r[s]]
Deleted(r, slots) == [s \in Slots |-> IF s \in slots /\ r[s].configurable THEN NoSlot ELSE r[s]]
Defined(r, slots, value) ==
    [s \in Slots |-> IF s \in slots /\ r[s].configurable THEN Locked(value) ELSE r[s]]

\* With Object.defineProperty itself, which is there until it is removed.
Neutered(r, slots, value) == IF r[DefineProperty].value = "native" THEN Defined(r, slots, value) ELSE r

\* Mutant: a define that failed goes unnoticed.
assertNothing(r, slots) == TRUE

assertNeutered(r, slots) == \A s \in slots : r[s] = Locked("undefined")

\* An entry whose prototype was not captured ends the script.
Mapped(slots) == \A s \in slots : s[1] \in PROTOS
-------------------------------------------------------------------------------
(***************************************************************************)
(* stripGlobals.                                                           *)
(***************************************************************************)
StripBigInt(block) == isPkg3SandboxActive(block) \/ isBigIntSurfaceStripActive(block)

StrippedNames(block) ==
    {n \in STRIPPED_GLOBAL_NAMES : /\ n = "Promise" => isAsyncSurfaceActive(block)
                                   /\ n = "WebAssembly" => isPkg3SandboxActive(block)}

DeleteGlobals(r, names) == Assigned(Deleted(r, Global(names)), Global(names), "undefined")

FunctionCtors(r) ==
    Neutered(Assigned(Assigned(r, {SavedFunction}, "native"), Global({"eval", "Function"}), "undefined"),
             FnFamilyTargets, "undefined")

BigIntNeuters ==
    BIGINT_SURFACE_STRIPPED_PROTO_METHODS \cup Constructor(BIGINT_SURFACE_NEUTERED_PROTO_CONSTRUCTORS)

BigIntSurface(r) ==
    Neutered(DeleteGlobals(r, BIGINT_SURFACE_STRIPPED_GLOBAL_NAMES), BigIntNeuters, "undefined")

ErrorStacks(r) == Neutered(r, ErrorSlots, "pinned")

\* The saved copy stays configurable: the harness deletes it.
SaveAndLockDefine(r) ==
    LET saved == [r EXCEPT ![SavedDefine] = [value |-> r[DefineProperty].value, writable |-> FALSE,
                                             configurable |-> TRUE]]
    IN  Defined(Defined(saved, DefineLocked, "undefined"), {<<"Object", "create">>}, "guarded")

\* The script as a whole, and whether it ran to its end.
StripScript(r, block) ==
    LET fns    == FunctionCtors(DeleteGlobals(r, StrippedNames(block)))
        ctors  == Neutered(fns, Constructor(NEUTERED_PROTO_CONSTRUCTORS), "undefined")
        protos == Neutered(Assigned(ctors, Global({"RegExp"}), "undefined"), STRIPPED_PROTO_METHODS,
                           "undefined")
        big    == IF StripBigInt(block) THEN BigIntSurface(protos) ELSE protos
        end    == Assigned(Assigned(SaveAndLockDefine(ErrorStacks(big)), HostGlobals, "undefined"),
                           Global({"Math"}), "safeMath")
        checks == FnFamilyTargets \cup Constructor(NEUTERED_PROTO_CONSTRUCTORS) \cup STRIPPED_PROTO_METHODS
                    \cup (IF StripBigInt(block) THEN BigIntNeuters ELSE {})
    IN  [realm |-> end,
         ok |-> assertNeutered(end, checks) /\ Mapped(checks \ FnFamilyTargets)]
-------------------------------------------------------------------------------
(***************************************************************************)
(* The harness.                                                            *)
(***************************************************************************)
\* Every name with two underscores but the two that are still needed.
CleanedUp(r) == Deleted(r, PrivateGlobals \ {Gas, SavedFunction})

Harnessed(r, block) ==
    LET gas   == Defined(Deleted(r, {Gas}), {Gas}, "harness")
        early == Deleted(Defined(gas, EarlyMeters(block), "harness"), {SavedDefine})
        built == CleanedUp(Assigned(early, {XChain}, "xchain"))
    IN  Defined(built, DepthHooks \cup LateMeters \cup ALLOC_HELPERS, "harness")
-------------------------------------------------------------------------------
(***************************************************************************)
(* An execution.                                                           *)
(***************************************************************************)
Requests == [cross : BOOLEAN, manifest : BOOLEAN]

NoReport  == [is |-> "none"]
NoExports == [kind |-> "none"]

\* Modules as the wrapper can tell them apart: what they export, whether the
\* method is there and listed in crossCallable, and how their meta behaves.
MetaKinds == {"none", "throws", "stringifyThrows", "undefinedJson", "oversize", "nonObject", "object"}
Module(kind, method, callable, permissions, meta) ==
    [kind |-> kind, method |-> method, callable |-> callable, permissions |-> permissions, meta |-> meta]
Modules ==
    {Module(k, m, c, "list", "none") : k \in {"object", "function", "other"}, m \in BOOLEAN, c \in BOOLEAN}
      \cup {Module(k, TRUE, TRUE, p, "none") : k \in {"object", "function"}, p \in {"none", "other"}}
      \cup {Module(k, TRUE, TRUE, "list", meta) : k \in {"object", "function"}, meta \in MetaKinds}

RealmInit ==
    /\ realmBlock \in RealmBlocks
    /\ stubborn = {} /\ realm = <<>> /\ phase = "none"
    /\ asked \in Requests
    /\ control = asked /\ exported = NoExports /\ report = NoReport /\ contractSteps = 0

\* A new context; the engine may refuse to redefine a property of it.
createContext(refused) ==
    /\ phase = "none"
    /\ stubborn' = refused
    /\ realm' = [s \in Slots |-> IF s \in refused THEN Locked("native")
                                 ELSE IF s \in NativeSlots THEN Open("native") ELSE NoSlot]
    /\ phase' = "created"
    /\ UNCHANGED <<realmBlock, asked, control, exported, report, contractSteps>>

stripGlobals ==
    LET done == StripScript(realm, realmBlock)
    IN  /\ phase = "created"
        /\ realm' = done.realm
        /\ phase' = IF done.ok THEN "stripped" ELSE "hostFault"
        /\ UNCHANGED <<realmBlock, stubborn, asked, control, exported, report, contractSteps>>

\* injectGateway and the reference behind __gas.
injectGateway ==
    /\ phase = "stripped"
    /\ realm' = Assigned(realm, GatewayRefs \cup {Gas}, "ref")
    /\ phase' = "bridged"
    /\ UNCHANGED <<realmBlock, stubborn, asked, control, exported, report, contractSteps>>

injectExecutionGlobals ==
    LET values == ExecutionValues \cup (IF isNativeStackTerminalActive(realmBlock) THEN {NativeStackOn} ELSE {})
        refs   == IF isResourceFaultSignalActive(realmBlock) THEN {StackFault} ELSE {}
    IN  /\ phase = "bridged"
        /\ realm' = Assigned(Assigned(realm, values, "host"), refs, "ref")
        /\ phase' = "injected"
        /\ UNCHANGED <<realmBlock, stubborn, asked, control, exported, report, contractSteps>>

\* It cannot run without the saved defineProperty.
runHarness ==
    /\ phase = "injected"
    /\ realm[SavedDefine].value = "native"
    /\ realm' = Harnessed(realm, realmBlock)
    /\ phase' = "harnessed"
    /\ UNCHANGED <<realmBlock, stubborn, asked, control, exported, report, contractSteps>>

\* The wrapper takes Function, deletes it and runs the module with it.
StartModule ==
    /\ phase = "harnessed"
    /\ realm[SavedFunction].value = "native"
    /\ realm' = Deleted(realm, {SavedFunction})
    /\ phase' = "body"
    /\ UNCHANGED <<realmBlock, stubborn, asked, control, exported, report, contractSteps>>
-------------------------------------------------------------------------------
(***************************************************************************)
(* Contract code, in the module's body and in a method.                    *)
(***************************************************************************)
Running == phase \in {"body", "method"} /\ contractSteps < MaxContractSteps

\* An assignment, or a delete and an assignment.
ContractWrites(slot) ==
    /\ Running
    /\ realm[slot].writable \/ realm[slot].configurable
    /\ realm' = [realm EXCEPT ![slot] = Open("contract")]
    /\ contractSteps' = contractSteps + 1
    /\ UNCHANGED <<realmBlock, stubborn, phase, asked, control, exported, report>>

\* Below VM_LINT_HARDENING the bindings of the wrapper are in scope.
ContractSetsControl(request) ==
    /\ Running /\ ~isLintHardeningActive(realmBlock)
    /\ control' = request
    /\ contractSteps' = contractSteps + 1
    /\ UNCHANGED <<realmBlock, stubborn, realm, phase, asked, exported, report>>

\* The report of a manifest: no read of meta throws past the wrapper.
MetaOf(module) ==
    LET seen   == module.kind \in {"object", "function"}
        object == module.meta \in MetaKinds \ {"none", "throws"}
    IN  [error    |-> seen /\ module.meta \in {"throws", "stringifyThrows", "undefinedJson", "nonObject"},
         oversize |-> seen /\ module.meta = "oversize",
         type     |-> IF seen /\ object THEN "object" ELSE "undefined",
         json     |-> seen /\ module.meta = "object"]

ManifestReport(module) ==
    LET own == module.kind = "object"
    IN  [is |-> "manifest", permissions |-> own /\ module.permissions = "list",
         permissionsType |-> IF own THEN module.permissions ELSE "none", meta |-> MetaOf(module)]

Ended(result) == report' = result /\ phase' = "done"

\* The module throws, or returns and the wrapper goes on.
ModuleEnds(module) ==
    /\ phase = "body"
    /\ exported' = module
    /\ \/ control.manifest /\ Ended(ManifestReport(module))
       \/ /\ ~control.manifest
          /\ control.cross /\ ~(module.kind = "object" /\ module.callable)
          /\ Ended([is |-> "notCallable"])
       \/ /\ ~control.manifest
          /\ control.cross => module.kind = "object" /\ module.callable
          /\ IF module.kind = "function" \/ (module.kind = "object" /\ module.method)
             THEN phase' = "method" /\ UNCHANGED report
             ELSE Ended([is |-> "unknownMethod"])
    /\ UNCHANGED <<realmBlock, stubborn, realm, asked, control, contractSteps>>

ModuleThrows ==
    /\ phase = "body"
    /\ Ended([is |-> "threw"])
    /\ UNCHANGED <<realmBlock, stubborn, realm, asked, control, exported, contractSteps>>

MethodEnds ==
    /\ phase = "method"
    /\ Ended([is |-> "returned"])
    /\ UNCHANGED <<realmBlock, stubborn, realm, asked, control, exported, contractSteps>>

RealmNext ==
    \/ \E refused \in {{}} \cup {{s} : s \in NeuterSlots} : createContext(refused)
    \/ stripGlobals \/ injectGateway \/ injectExecutionGlobals \/ runHarness \/ StartModule
    \/ \E slot \in Slots : ContractWrites(slot)
    \/ \E request \in Requests : ContractSetsControl(request)
    \/ \E module \in Modules : ModuleEnds(module)
    \/ ModuleThrows \/ MethodEnds

RealmSpec == RealmInit /\ [][RealmNext]_realmVars
-------------------------------------------------------------------------------
(***************************************************************************)
(* Properties.                                                             *)
(***************************************************************************)
\* What the block strips for good, and what a delete only empties.
NeutersOf(block) == IF StripBigInt(block) THEN NeuterSlots ELSE NeuterSlots \ BigIntNeuters
EmptiedOf(block) ==
    Global(StrippedNames(block) \cup IF StripBigInt(block) THEN BIGINT_SURFACE_STRIPPED_GLOBAL_NAMES ELSE {})

\* From the contract's first step on, whatever it writes: the neuters of its block
\* hold, whichever the engine refused; the meters and hooks are the harness's; no
\* host reference, saved Function or saved defineProperty is left to be read; and
\* what the block does not strip yet is there (sandbox.js, harness_part_3.js).
RealmHolds ==
    /\ \A s \in NeutersOf(realmBlock) \cup DefineLocked : realm[s] = Locked("undefined")
    /\ \A s \in ErrorSlots : realm[s] = Locked("pinned")
    /\ \A s \in {Gas} \cup DepthHooks \cup ALLOC_HELPERS \cup EarlyMeters(realmBlock) \cup LateMeters :
         realm[s] = Locked("harness")
    /\ \A s \in PrivateGlobals \ ({Gas} \cup DepthHooks \cup ALLOC_HELPERS) :
         realm[s].value \in {"absent", "contract"}
    /\ \A s \in Global(STRIPPED_GLOBAL_NAMES \cup BIGINT_SURFACE_STRIPPED_GLOBAL_NAMES) :
         realm[s].value \in {IF s \in EmptiedOf(realmBlock) THEN "undefined" ELSE "native", "contract"}

\* Once the wrapper is hardened the module cannot change what the host asked for: a
\* cross-chain call reaches a method only through crossCallable, a manifest read
\* reaches none, and no way for meta to misbehave hides the permissions beside it
\* (contract_wrapper.js).
DispatchIsTheHosts ==
    isLintHardeningActive(realmBlock) =>
        /\ phase = "method" \/ report.is = "returned" =>
             ~asked.manifest /\ (asked.cross => exported.kind = "object" /\ exported.callable)
        /\ phase = "done" /\ asked.manifest =>
             \/ report.is = "threw"
             \/ /\ report.is = "manifest"
                /\ report.permissions = (exported.kind = "object" /\ exported.permissions = "list")
                /\ report.meta.json => ~(report.meta.error \/ report.meta.oversize)

RealmSealed == phase \in {"body", "method", "done"} => RealmHolds /\ DispatchIsTheHosts
===============================================================================
