---------------------------- MODULE SimulatorEpoch ----------------------------
(***************************************************************************)
(* The rule set a simulator runs: the default block it derives from the    *)
(* gates of its coin and network, and the warnings when a run leaves them  *)
(* (toolkit/simulator.js, toolkit/simulator/constants.js,                  *)
(* block_time_gates.js and gate_warnings.js).                              *)
(***************************************************************************)
EXTENDS Activations, FiniteSets, FiniteSetsExt

CONSTANTS
    SimNetworks, SimCoins,
    Clocks,         \* host clocks at construction, past the first flag day
    PinnedHeights, PinnedTimes,     \* what an author passes for a block
    MaxSimSteps

VARIABLES
    sim,            \* coin, network, rules, live anchor and host clock; none before construction
    simBlock,       \* [height, time]
    derived,        \* history: the block is still the one that was derived
    warned,         \* warnings given
    lastRun,        \* the block of the last call, and the deploy flags of its source
    simSteps

epochVars == <<sim, simBlock, derived, warned, lastRun, simSteps>>

NoSim == [made |-> FALSE]
NoRun == [done |-> FALSE]
Unpinned == -2

\* Past the first flag day and within 32 bits; coins that have heights, or an
\* address that names none.
ASSUME EpochAssumption ==
    /\ Clocks \subseteq CONTRACT_ERA_BLOCK_TIME .. (NEVER - 1)
    /\ PinnedHeights \cup PinnedTimes \subseteq Nat
    /\ SimCoins \subseteq DOMAIN HeightTable(0, 0, 0) \cup {NoCoin}
-------------------------------------------------------------------------------
(***************************************************************************)
(* Block-time anchors.                                                     *)
(***************************************************************************)
isArmedGateTime(t) == Finite(t) /\ t < NEVER

\* The exported *_GATE_BLOCK_TIME constants, the placeholder among them.
GATE_BLOCK_TIMES ==
    {t \in {CONTRACT_ERA_BLOCK_TIME, REST_PATTERN_METER_GATE_BLOCK_TIME, NEVER} : isArmedGateTime(t)}

GATE_FALLBACK_BLOCK_TIME == 1786060800

CONTRACT_META_REQUIRED_TIMES == [mainnet |-> 0, testnet |-> 1789257600, regtest |-> 0]
DEPLOY_INIT_STRICT_TIMES     == [mainnet |-> 1786060800, testnet |-> 0, regtest |-> 0]

OwnTime(table, network) == IF network \in DOMAIN table THEN table[network] ELSE Unarmed

TIME_NETWORK_GATES(network) ==
    [jsonHooks      |-> GateTime(JSON_STRINGIFY_HOOK_ACTIVATION, network),
     metaRequired   |-> GateTime(CONTRACT_META_REQUIRED_TIMES, network),
     initStrict     |-> GateTime(DEPLOY_INIT_STRICT_TIMES, network),
     ceilingSuccess |-> OwnTime(GAS_CEILING_SUCCESS_ACTIVATION, network),
     iterSet        |-> OwnTime(ITER_SET_METER_ACTIVATION, network),
     applyLength    |-> OwnTime(APPLY_LENGTH_METER_ACTIVATION, network),
     hostCallBounds |-> OwnTime(HOST_CALL_BOUNDS_ACTIVATION, network),
     perElement     |-> OwnTime(PER_ELEMENT_METER_ACTIVATION, network),
     stringReceiver |-> OwnTime(STRING_RECEIVER_METER_ACTIVATION, network),
     stringResult   |-> OwnTime(STRING_RESULT_METER_ACTIVATION, network),
     toStringSize   |-> GateTime(TOSTRING_SIZE_METER_ACTIVATION, network)]

networkGateTimes(network) ==
    LET gates == TIME_NETWORK_GATES(network)
    IN  {gates[g] : g \in {h \in DOMAIN gates : isArmedGateTime(gates[h]) /\ gates[h] > 0}}

\* Mutant: the anchor of the scalar gates alone.
liveScalarTime(now, network) ==
    LET elapsed == {t \in GATE_BLOCK_TIMES : t <= now}
    IN  IF elapsed = {} THEN GATE_FALLBACK_BLOCK_TIME ELSE Max(elapsed)

liveBlockTime(now, network) ==
    LET elapsed == {t \in GATE_BLOCK_TIMES \cup networkGateTimes(network) : t <= now}
    IN  IF elapsed = {} THEN GATE_FALLBACK_BLOCK_TIME ELSE Max(elapsed)

scheduledBlockTime(network) ==
    LET armed == GATE_BLOCK_TIMES \cup networkGateTimes(network)
    IN  IF armed = {} THEN GATE_FALLBACK_BLOCK_TIME ELSE Max(armed)

gatesAheadOf(live, network) ==
    LET gates == TIME_NETWORK_GATES(network)
    IN  {t \in GATE_BLOCK_TIMES : t > live}
          \cup {gates[g] : g \in {h \in DOMAIN gates : isArmedGateTime(gates[h]) /\ gates[h] > live}}
-------------------------------------------------------------------------------
(***************************************************************************)
(* Block heights.                                                          *)
(***************************************************************************)
\* HEIGHT_GATES: each gate's predicate, at a block ...
HEIGHT_GATES(block) ==
    [pkg3Sandbox |-> isPkg3SandboxActive(block), execLint |-> isExecLintActive(block),
     globalAlias |-> isLintGlobalAliasActive(block), optionalChain |-> isLintOptionalChainActive(block),
     bannedWith |-> isLintBannedWithActive(block), destructure |-> isLintDestructureActive(block),
     syntaxDepth |-> isLintSyntaxDepthActive(block), bigIntStrip |-> isBigIntSurfaceStripActive(block),
     ceilingExhausted |-> isGasCeilingExhaustedActive(block),
     resourceFault |-> isResourceFaultSignalActive(block),
     errorStackStrip |-> isHostErrorStackStripActive(block),
     hostFaultHalt |-> isHostFaultHaltActive(block),
     stringifyReentry |-> isJsonStringifyReentryActive(block),
     nativeStack |-> isNativeStackTerminalActive(block)]

\* ... and the network and heights its map arms.
HeightMap(network, heights) == [network |-> network, heights |-> heights]
HEIGHT_MAPS ==
    [pkg3Sandbox |-> HeightMap("mainnet", PKG3_SANDBOX_ACTIVATION),
     execLint |-> HeightMap("mainnet", EXEC_LINT_ACTIVATION),
     globalAlias |-> HeightMap("mainnet", LINT_GLOBAL_ALIAS_ACTIVATION),
     optionalChain |-> HeightMap("testnet", LINT_OPTIONAL_CHAIN_ACTIVATION),
     bannedWith |-> HeightMap("testnet", LINT_BANNED_WITH_ACTIVATION),
     destructure |-> HeightMap("testnet", LINT_DESTRUCTURE_ACTIVATION),
     syntaxDepth |-> HeightMap("testnet", LINT_SYNTAX_DEPTH_ACTIVATION),
     bigIntStrip |-> HeightMap("testnet", BIGINT_SURFACE_STRIP_ACTIVATION),
     ceilingExhausted |-> HeightMap("testnet", GAS_CEILING_EXHAUSTED_ACTIVATION),
     resourceFault |-> HeightMap("testnet", RESOURCE_FAULT_SIGNAL_ACTIVATION),
     errorStackStrip |-> HeightMap("testnet", HOST_ERROR_STACK_STRIP_ACTIVATION),
     hostFaultHalt |-> HeightMap("testnet", HOST_FAULT_HALT_ACTIVATION),
     stringifyReentry |-> HeightMap("testnet", JSON_STRINGIFY_REENTRY_ACTIVATION),
     nativeStack |-> HeightMap("testnet", NATIVE_STACK_TERMINAL_ACTIVATION)]

BlockAt(network, coin, height, time) ==
    [network |-> network, coin |-> coin, height |-> height, time |-> time]

heightGateThreshold(gate, coin, network) ==
    LET map == HEIGHT_MAPS[gate]
    IN  IF network = map.network /\ coin \in DOMAIN map.heights THEN map.heights[coin] ELSE Unarmed

\* Mutant: every height gate is taken to be on from genesis before launch.
heightGateNeedByNetwork(gate, coin, network) ==
    IF network \in PreLaunch THEN 1 ELSE heightGateThreshold(gate, coin, network)

heightGateNeed(gate, coin, network) ==
    IF HEIGHT_GATES(BlockAt(network, coin, 1, NotANumber))[gate] THEN 1
    ELSE heightGateThreshold(gate, coin, network)

defaultBlockHeight(coin, network) ==
    LET needs == {heightGateNeed(g, coin, network) : g \in DOMAIN HEIGHT_MAPS} \ {Unarmed}
    IN  IF needs = {} THEN 1 ELSE Max(needs)
-------------------------------------------------------------------------------
(***************************************************************************)
(* The simulator.                                                          *)
(***************************************************************************)
EpochInit ==
    /\ sim = NoSim /\ simBlock = [height |-> 1, time |-> 0] /\ derived = FALSE
    /\ warned = {} /\ lastRun = NoRun /\ simSteps = 0

Pinned(value, default) == IF value = Unpinned THEN default ELSE value

\* The constructor, initializeBlockContext.
initializeBlockContext(coin, network, rules, now, height, time) ==
    LET live      == liveBlockTime(now, network)
        scheduled == scheduledBlockTime(network)
        block     == [height |-> Pinned(height, defaultBlockHeight(coin, network)),
                      time   |-> Pinned(time, IF rules = "scheduled" THEN scheduled ELSE live)]
        preview   == /\ rules = "scheduled" /\ block.time = scheduled
                     /\ gatesAheadOf(live, network) # {}
    IN  /\ sim = NoSim
        /\ sim' = [made |-> TRUE, coin |-> coin, network |-> network, rules |-> rules,
                   now |-> now, live |-> live]
        /\ simBlock' = block
        /\ derived' = (height = Unpinned /\ time = Unpinned)
        /\ warned' = IF preview THEN {"preview"} ELSE {}
        /\ UNCHANGED <<lastRun, simSteps>>

Step == sim.made /\ simSteps < MaxSimSteps /\ simSteps' = simSteps + 1

SetBlock(height, time) ==
    /\ Step
    /\ simBlock' = [height |-> Pinned(height, simBlock.height), time |-> Pinned(time, simBlock.time)]
    /\ derived' = (derived /\ simBlock' = simBlock)
    /\ UNCHANGED <<sim, warned, lastRun>>

AdvanceBlock ==
    /\ Step
    /\ simBlock' = [height |-> simBlock.height + 1, time |-> simBlock.time + 600]
    /\ derived' = FALSE
    /\ UNCHANGED <<sim, warned, lastRun>>

warnIfPreGate == IF simBlock.time >= sim.live THEN {} ELSE {"preGate"}

\* The coin is the one in the contract's address.
warnIfPreHeightGate(coin) ==
    LET armed == {g \in DOMAIN HEIGHT_MAPS : heightGateNeed(g, coin, sim.network) # Unarmed}
        on    == HEIGHT_GATES(BlockAt(sim.network, coin, simBlock.height, simBlock.time))
    IN  IF armed # {} /\ \A g \in armed : on[g] THEN {} ELSE {"preHeight"}

LINT_NESTING_DEPTH_HEIGHTS == HeightTable(156230, 4912984, 67989993)

\* The flags of deployGateVerdict, as validateSyntax takes them: the bound on the
\* syntactic depth brings the delimiter rule with it.
deployFlags(block) ==
    LET nesting == resolveRegtestGenesisHeightGate(LINT_NESTING_DEPTH_HEIGHTS, block)
        on == [async |-> isAsyncSurfaceActive(block), hardening |-> isLintHardeningActive(block),
               pkg3 |-> isPkg3SandboxActive(block), globalAlias |-> isLintGlobalAliasActive(block),
               optionalChain |-> isLintOptionalChainActive(block),
               with |-> isLintBannedWithActive(block),
               nestingDepth |-> nesting \/ isLintSyntaxDepthActive(block),
               destructure |-> isLintDestructureActive(block),
               rest |-> isRestPatternMeterActive(block),
               syntaxDepth |-> isLintSyntaxDepthActive(block)]
    IN  {f \in DOMAIN on : on[f]}

\* The execute-time lint passes no flag for the delimiter rule, which is on then.
execFlags(block) == lintFlags(block) \cup {"nestingDepth"}

\* deploy() of a contract at an address of this coin and a call of it.
DeployAndCall(coin) ==
    LET block == BlockAt(sim.network, coin, simBlock.height, simBlock.time)
        warns == warnIfPreGate \cup warnIfPreHeightGate(coin)
    IN  /\ Step
        /\ warned' = warned \cup warns
        /\ lastRun' = [done |-> TRUE, block |-> block, derived |-> derived, warns |-> warns,
                       deploy |-> deployFlags([block EXCEPT !.coin = sim.coin]),
                       exec |-> IF isExecLintActive(block) THEN execFlags(block) ELSE {}]
        /\ UNCHANGED <<sim, simBlock, derived>>

Heights == PinnedHeights \cup {Unpinned}
Times   == PinnedTimes \cup {Unpinned}

EpochNext ==
    \/ \E coin \in SimCoins \ {NoCoin}, network \in SimNetworks, rules \in {"live", "scheduled"},
          now \in Clocks, height \in Heights, time \in Times :
            initializeBlockContext(coin, network, rules, now, height, time)
    \/ \E height \in Heights, time \in Times : SetBlock(height, time)
    \/ AdvanceBlock
    \/ \E coin \in SimCoins : DeployAndCall(coin)

EpochSpec == EpochInit /\ [][EpochNext]_epochVars
-------------------------------------------------------------------------------
(***************************************************************************)
(* Properties.                                                             *)
(***************************************************************************)
\* The block-time rules that are on at a block.
TimeRules(block) ==
    LET on == [async |-> isAsyncSurfaceActive(block), evalOrder |-> isMeteringEvalOrderActive(block),
               rest |-> isRestPatternMeterActive(block), jsonHooks |-> isJsonHookActive(block),
               iterSet |-> TimeGate(ITER_SET_METER_ACTIVATION, block),
               applyLength |-> TimeGate(APPLY_LENGTH_METER_ACTIVATION, block),
               hostCallBounds |-> TimeGate(HOST_CALL_BOUNDS_ACTIVATION, block),
               perElement |-> TimeGate(PER_ELEMENT_METER_ACTIVATION, block),
               stringReceiver |-> TimeGate(STRING_RECEIVER_METER_ACTIVATION, block),
               stringResult |-> TimeGate(STRING_RESULT_METER_ACTIVATION, block),
               ceilingSuccess |-> TimeGate(GAS_CEILING_SUCCESS_ACTIVATION, block),
               toStringSize |-> isToStringSizeMeterActive(block),
               metaRequired |-> block.time >= GateTime(CONTRACT_META_REQUIRED_TIMES, block.network),
               initStrict |-> block.time >= GateTime(DEPLOY_INIT_STRICT_TIMES, block.network)]
    IN  {r \in DOMAIN on : on[r]}

\* The height rules the chain of this coin will ever run, being past its last activation.
HeightRules(block) ==
    LET on == HEIGHT_GATES(block) IN {g \in DOMAIN on : on[g]}

Tip == 100000000    \* above every height of the tables

\* "A default simulation matches what a live chain runs right now" (simulator.js):
\* a simulator that has not warned runs every rule of the chain at the time it was
\* made; the default block runs no others, unless it is a preview and says so, and
\* draws no warning; and the lint of a deploy and of an execution in one block
\* agree (exec_lint.js), but for the delimiter rule, which the execution always has.
SimulatesTheChain ==
    lastRun.done =>
        LET b     == lastRun.block
            chain == BlockAt(sim.network, b.coin, Tip, sim.now)
            known == sim.network \in {"mainnet", "testnet", "regtest"}
        IN  /\ warned \cap {"preGate", "preHeight"} = {} =>
                  TimeRules(chain) \subseteq TimeRules(b) /\ HeightRules(b) = HeightRules(chain)
            /\ lastRun.derived /\ "preview" \notin warned => TimeRules(b) = TimeRules(chain)
            /\ lastRun.derived /\ b.coin = sim.coin /\ known => lastRun.warns = {}
            /\ b.coin = sim.coin /\ lastRun.exec # {} =>
                  lastRun.exec = lastRun.deploy \cup {"nestingDepth"}
===============================================================================
