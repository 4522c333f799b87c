------------------------------ MODULE Activations -----------------------------
(***************************************************************************)
(* The gates of an execution: which rules its network, block time, coin    *)
(* and block height turn on (src/index/runtime/activations.js,             *)
(* activation_heights.js, src/index/*_heights.js, height_gates/, *_meter.js *)
(* and host_call_bounds.js).  A block is [network, coin, height, time];    *)
(* NotANumber is a height or a time that Number() cannot read.             *)
(***************************************************************************)
EXTENDS Integers

NotANumber == -1
Unarmed == -1       \* null
Finite(n) == n >= 0

\* The sentinel 9999999999 is past every 32-bit block time.
NEVER == 2147483647

PreLaunch == {"testnet", "regtest"}

\* BINARY_ALLOC_GATE_BLOCK_TIME and the constants that share its value.
CONTRACT_ERA_BLOCK_TIME == 1786060800
REST_PATTERN_METER_GATE_BLOCK_TIME == 1798761600
-------------------------------------------------------------------------------
(***************************************************************************)
(* Block-time gates.                                                       *)
(***************************************************************************)
\* Testnet and regtest from genesis, every other network from the flag day.
FlagDay(block, gate) ==
    block.network \in PreLaunch \/ (Finite(block.time) /\ block.time >= gate)

isAsyncSurfaceActive(block)          == FlagDay(block, CONTRACT_ERA_BLOCK_TIME)
isLintHardeningActive(block)         == FlagDay(block, CONTRACT_ERA_BLOCK_TIME)
isStateKeyNulRejectActive(block)     == FlagDay(block, CONTRACT_ERA_BLOCK_TIME)
isStateKeyTypeNormalizeActive(block) == FlagDay(block, CONTRACT_ERA_BLOCK_TIME)
isMeteringEvalOrderActive(block)     == FlagDay(block, CONTRACT_ERA_BLOCK_TIME)
isCallSpreadMeterActive(block)       == FlagDay(block, CONTRACT_ERA_BLOCK_TIME)
isRestPatternMeterActive(block)      == FlagDay(block, REST_PATTERN_METER_GATE_BLOCK_TIME)
isSlashTokenDelimGuardActive(block)  == FlagDay(block, CONTRACT_ERA_BLOCK_TIME)
isSlashAmountPrecisionActive(block)  == FlagDay(block, CONTRACT_ERA_BLOCK_TIME)
isConsensusWallClockActive(block)    == FlagDay(block, CONTRACT_ERA_BLOCK_TIME)

\* F3-binary, F-NR and the math output meter: one time for every network.
PlainTime(block, gate) == Finite(block.time) /\ block.time >= gate

TimeTable(test) == [mainnet |-> Unarmed, testnet |-> test, regtest |-> 0]
ITER_SET_METER_ACTIVATION       == TimeTable(1791804379)
APPLY_LENGTH_METER_ACTIVATION   == TimeTable(1791804379)
PER_ELEMENT_METER_ACTIVATION    == TimeTable(1792303200)
HOST_CALL_BOUNDS_ACTIVATION     == TimeTable(1792303200)
STRING_RECEIVER_METER_ACTIVATION == TimeTable(1792454400)
STRING_RESULT_METER_ACTIVATION  == TimeTable(1792454400)
GAS_CEILING_SUCCESS_ACTIVATION  == TimeTable(1791804379)
JSON_STRINGIFY_HOOK_ACTIVATION  == [TimeTable(1791061097) EXCEPT !.mainnet = NEVER]
TOSTRING_SIZE_METER_ACTIVATION  == [TimeTable(1792454400) EXCEPT !.mainnet = NEVER]

\* isIterSetMeterActive and its siblings: 0 arms at genesis, an unknown network never.
TimeGate(table, block) ==
    /\ block.network \in DOMAIN table
    /\ Finite(table[block.network])
    /\ table[block.network] = 0 \/ (Finite(block.time) /\ block.time >= table[block.network])

\* jsonStringifyHookGateTime, toStringSizeMeterGateTime: an unknown network is mainnet.
GateTime(table, network) ==
    IF network \in DOMAIN table THEN table[network] ELSE table["mainnet"]

isToStringSizeMeterActive(block) ==
    LET gate == GateTime(TOSTRING_SIZE_METER_ACTIVATION, block.network)
    IN  gate = 0 \/ (Finite(block.time) /\ block.time >= gate)

\* __jsonHookGuardOn: on no network before the native-depth guard.
isJsonHookActive(block) ==
    /\ PlainTime(block, CONTRACT_ERA_BLOCK_TIME)
    /\ block.time >= GateTime(JSON_STRINGIFY_HOOK_ACTIVATION, block.network)
-------------------------------------------------------------------------------
(***************************************************************************)
(* Block-height gates, per coin.                                           *)
(***************************************************************************)
NoCoin == "none"

HeightTable(btc, ltc, doge) == [BTC |-> btc, LTC |-> ltc, DOGE |-> doge]

\* Tables of mainnet heights; testnet and regtest run the rule from genesis.
PKG3_SANDBOX_ACTIVATION      == HeightTable(961000, 3154250, 6319000)
EXEC_LINT_ACTIVATION         == HeightTable(0, 0, 0)
LINT_GLOBAL_ALIAS_ACTIVATION == HeightTable(0, 0, 0)

\* Tables of testnet heights; mainnet is unarmed and regtest from genesis.
LINT_OPTIONAL_CHAIN_ACTIVATION    == HeightTable(155001, 4906040, 67962387)
LINT_BANNED_WITH_ACTIVATION       == HeightTable(156230, 4912984, 67989993)
LINT_DESTRUCTURE_ACTIVATION       == HeightTable(156230, 4912984, 67989993)
BIGINT_SURFACE_STRIP_ACTIVATION   == HeightTable(156230, 4912984, 67989993)
LINT_SYNTAX_DEPTH_ACTIVATION      == HeightTable(156908, 4927400, 68005165)
GAS_CEILING_EXHAUSTED_ACTIVATION  == HeightTable(156908, 4927400, 68005165)
RESOURCE_FAULT_SIGNAL_ACTIVATION  == HeightTable(156908, 4927400, 68005165)
HOST_ERROR_STACK_STRIP_ACTIVATION == HeightTable(156908, 4927400, 68005165)
JSON_STRINGIFY_REENTRY_ACTIVATION == HeightTable(156908, 4927400, 68005165)
NATIVE_STACK_TERMINAL_ACTIVATION  == HeightTable(156908, 4927400, 68005165)
HOST_FAULT_HALT_ACTIVATION        == HeightTable(157073, 4928460, 68009330)

\* resolvePerCoinHeightGate, isPkg3SandboxActive
resolvePerCoinHeightGate(table, block) ==
    \/ block.network \in PreLaunch
    \/ /\ block.network = "mainnet" /\ Finite(block.height)
       /\ block.coin \in DOMAIN table /\ block.height >= table[block.coin]

resolveRegtestGenesisHeightGate(table, block) ==
    \/ block.network = "regtest"
    \/ /\ block.network = "testnet" /\ Finite(block.height)
       /\ block.coin \in DOMAIN table /\ block.height >= table[block.coin]

isPkg3SandboxActive(block)          == resolvePerCoinHeightGate(PKG3_SANDBOX_ACTIVATION, block)
isExecLintActive(block)             == resolvePerCoinHeightGate(EXEC_LINT_ACTIVATION, block)
isLintGlobalAliasActive(block)      == resolvePerCoinHeightGate(LINT_GLOBAL_ALIAS_ACTIVATION, block)
isLintOptionalChainActive(block)    == resolveRegtestGenesisHeightGate(LINT_OPTIONAL_CHAIN_ACTIVATION, block)
isLintBannedWithActive(block)       == resolveRegtestGenesisHeightGate(LINT_BANNED_WITH_ACTIVATION, block)
isLintDestructureActive(block)      == resolveRegtestGenesisHeightGate(LINT_DESTRUCTURE_ACTIVATION, block)
isLintSyntaxDepthActive(block)      == resolveRegtestGenesisHeightGate(LINT_SYNTAX_DEPTH_ACTIVATION, block)
isBigIntSurfaceStripActive(block)   == resolveRegtestGenesisHeightGate(BIGINT_SURFACE_STRIP_ACTIVATION, block)
isGasCeilingExhaustedActive(block)  == resolveRegtestGenesisHeightGate(GAS_CEILING_EXHAUSTED_ACTIVATION, block)
isResourceFaultSignalActive(block)  == resolveRegtestGenesisHeightGate(RESOURCE_FAULT_SIGNAL_ACTIVATION, block)
isHostErrorStackStripActive(block)  == resolveRegtestGenesisHeightGate(HOST_ERROR_STACK_STRIP_ACTIVATION, block)
isJsonStringifyReentryActive(block) == resolveRegtestGenesisHeightGate(JSON_STRINGIFY_REENTRY_ACTIVATION, block)
isNativeStackTerminalActive(block)  == resolveRegtestGenesisHeightGate(NATIVE_STACK_TERMINAL_ACTIVATION, block)
isHostFaultHaltActive(block)        == resolveRegtestGenesisHeightGate(HOST_FAULT_HALT_ACTIVATION, block)
-------------------------------------------------------------------------------
\* The bans the execute-time lint enforces, checkExecLint.
lintFlags(block) ==
    LET on == [async |-> isAsyncSurfaceActive(block), hardening |-> isLintHardeningActive(block),
               pkg3 |-> isPkg3SandboxActive(block), globalAlias |-> isLintGlobalAliasActive(block),
               rest |-> isRestPatternMeterActive(block),
               optionalChain |-> isLintOptionalChainActive(block),
               with |-> isLintBannedWithActive(block), destructure |-> isLintDestructureActive(block),
               syntaxDepth |-> isLintSyntaxDepthActive(block)]
    IN  {f \in DOMAIN on : on[f]}
===============================================================================
