# Verification of xchain-vm

TLA+ models of the XChain virtual machine: a library an indexer embeds to run
JavaScript contracts in V8 isolates, in this process or in a forked worker, so
that every node of the network computes the same result for the same call. The
code under `src/src/` is the reference; `PROJECT.json` maps every definition to
the lines it stands for.

## 1. The system and its parts

| part | code | state it keeps | operations |
|---|---|---|---|
| Process executor | `process-executor.js`, `process_executor/{frames,termination}.js` | queue, dispatched requests with tokens and watchdogs, current child, dispatch gate, ready timer, broken latch and its backoff, block flag | `execute`, `beginBlock`, `endBlock`, `shutdown`; handlers of frames, exits and timers |
| Snapshot channel | `process_executor/snapshot_channel.js` | the block's snapshot and token, sent, acknowledged, timer; in the worker the snapshot and token it holds | `hold`, `reference`, `flush`, `onMessage`, block and worker boundaries; `resolveWorkerCrossChainSnapshot` |
| VM worker | `vm-worker.js` | the chain of executions, the worker's own VM | `init`, `beginBlock`, `endBlock`, `execute` frames, death |
| VM entry | `index.js`, `index/methods/*` | live executor slots of the process, execution mode, caches | constructor, `reserveExecutorSlot`, block lifecycle, `readManifest` |
| Execution pipeline | `index/runtime/{execute,exec_lint,classify_error,gas_reference,contract_io}.js`, `index/methods/error_results.js` | one gas tracker, state overlay, emission collector, host signals per run | size check, lint, set-up, metering, compile, run, classify, collect |
| Gas | `gas.js` | used, exhausted, ceiling | `charge`, `effectiveCeiling` |
| State overlay | `state.js` | base state, dirty map, live-key count | `get`, `has`, `set`, `delete`, `getChanges` |
| Emissions | `collector.js`, `validator.js`, `gateway-emit.js`, `gateway_emit/*` | queued actions, logs, ids | `add`, `addLog`, `emit.*`, validation |
| Gateway | `gateway.js`, `gateway/*`, `index/gateway_injection.js`, `index/runtime/gateway_options.js`, `readonly-accessors.js` | revert flag, attestation counters, read-only snapshots | every host call a contract can make, charged before it acts |
| Caches | `index/runtime/vm_caches.js`, `index/methods/lint_and_metering.js`, `index/methods/block_lifecycle.js` | metered source, lint verdicts, per-block bytecode, harness bytecode | look up, evict the oldest, fill, drop at the block's end |
| Activation gates | `index/runtime/{activations,activation_heights}.js`, `index/*_heights.js`, `consensus-runtime.js`, `consensus-wall-clock.js` | frozen tables | which rule set an execution runs under |
| Harness | `index/runtime/harness_part_*.js`, `index/armed_harness/*`, `index/native_stack/*` | in-isolate wrappers | metered built-ins, guards |
| Source analysis | `metering*`, `lint-core*`, `syntax.js`, `sandbox*`, `stripped-globals.js` | none | rewriting and rejecting contract source |
| Toolkit | `toolkit/*` | the simulator's world (contract states, balances, heights) | deploy, execute, gate warnings, scaffolding |

How they interact. In production the VM entry owns one process executor, which
owns one worker at a time; parent and worker exchange frames over node's IPC
channel. The worker owns an in-process VM, whose pipeline runs one contract at a
time: it resolves the activation gates, consults the caches, builds the gateway
around the per-run gas tracker, state overlay and emission collector, runs the
contract, and turns what happened into a result. A result that is committed must
be the same on every node; what is wrong with one machine must therefore reach
the caller as a rejected promise (`HostFaultError`, the caller halts and retries)
and never as a result.

What is hard here: the executor's events (frames of a dying or replaced worker,
exit events, three kinds of timer, callers) come in any order, and each handler
relies on what the others left behind; the broken latch, its recovery probe and
shutdown must not leave a promise behind; the snapshot a worker was sent is lost
with the worker. In the pipeline, a contract may catch faults the host raised, and
the classification of an error must not be one the contract can choose. The
hazards are listed, each at its line, in `PROJECT.json`.

## 2. The executor and its workers (modules 1 to 7)

| module | models |
|---|---|
| `WorkerIPC` | processes and channels as parent and worker see them (external: node's `child_process`) |
| `SnapshotChannel` | the parent side of the snapshot channel: its fields as a record, its methods as operators |
| `ProcessExecutor` | the parent: one action per method and event handler |
| `VmWorker` | the child: one action per frame handler, the steps of an execution, every way of dying |
| `ExecutorSystem` | their composition, the fairness assumptions and the properties |
| `ExecutionService` | the abstract promise: a first-come first-served queue with one server |
| `ExecutorProofs` | proofs: the bookkeeping, the refinement |
| `WorkerProofs` | proofs about what is in the channels and the workers |

Correspondence. The promise of call `i` is `outcome[i]`; `queue`, `pending`,
`child`, `sawReady`, `everReady`, `broken`, `inBlock`, `shuttingDown` are the
fields of the same name, `chan` the fields of `WorkerSnapshotChannel`. `failures`
saturates at the threshold, the only thing the code asks of it. A timer is modelled by
whether it is armed (the watchdog of a request is armed while the request is
pending; `backoff` says that the last probe is recent). `flush` is one operator,
inlined in each handler that calls it, because node runs a handler to its end;
likewise a fork that throws is retried within the handler, up to the latch
(`afterWorkerLost`). A worker's death is `self` or `external`, the distinction
`isSelfInflicted` draws; SIGKILL takes effect any number of steps after the
parent sent it, which is what makes the doomed worker interesting. A snapshot is
the number of the block its call was made in.

Not every worker misbehaves: `Flaky` names those that may crash, hang, fail or
send odd frames, and timers fire only on them (a healthy worker answers within
the in-isolate budget, which the watchdog exceeds by 5 s).

### Runs

| run | question | bounds |
|---|---|---|
| `latch` | are promises lost, duplicated or reordered through failing forks, the latch, the probe, shutdown | 3 workers of which 2 flaky, 2 calls, threshold 2; two failures in a row reach the latch and the third worker is the recovery |
| `replies` | can a frame that does not belong to the dispatch in flight do harm, and what remains when callers end a block with calls outstanding | 2 workers, 1 block, held entries, an odd frame that breaks a call or follows a timeout |
| `blocks` | does a contract see its own call's snapshot across blocks and crashes, does every call settle | 2 workers, the second healthy, 2 calls, 2 blocks, a failed fork; snapshots that cross the process boundary and one that does not |
| `terminated` | does only a contract that ran resolve `hostTerminatedResult`, as the header says | a violation: see below |

The runs switch deadlock checking off because their systems may stop: the calls
and blocks are bounded, and nothing happens after `shutdown()`.

`CallerAwaits` says that callers settle a block's calls before `endBlock` and
`beginBlock`, as the indexer does. `RanOnItsSnapshot`, `ReferencesResolve` and
`EveryCallSettles` need it: without it, a call that outlives its block chooses the
next block's snapshot, the worker drops its snapshot ahead of a chained execution,
and `endBlock` disarms the acknowledgement timer while an entry is still held.

Fairness (run `blocks`): node delivers frames, exit events and due timers; a
SIGKILL takes effect; a worker that is not flaky handles its frames and finishes
its contracts. Nothing is assumed of callers or of flaky workers.

Finding (`terminated`). `onExit` cannot tell a contract that killed its worker
from a worker that died by itself after the dispatch and before the contract's
first instruction. The header promises the former only.

### Proofs

All are for every number of calls, workers, blocks, failing forks and every threshold,
and rest on `ExecutorAssumption` and `WorkerAssumption` only; the two theorems about
snapshots also assume `CallerAwaits`.

`ExecutorProofs` proves `NoPromiseLost` (`Spec => []WaitingIsTracked`), `TypeCorrect`
and `ExecutorRefinesService` (`Spec => ImplementsService`).
`WaitingIsTracked` is not inductive: that the queue stays in call order needs fresh
numbers for new calls, and that a worker is there while calls wait needs to know when
there is none. `ExecutorInv` adds exactly this; the run `latch` checks it first. The
argument follows the code: `flush`, `Latched`, `Forked` and `afterWorkerLost` each
preserve the bookkeeping (a lemma each), and every handler is a use of one of them. For
the refinement the same operators are shown to be one `Move` of the service: calls leave
at the front, at most one of them is served, the others are settled. That a promise
settles once is part of the service, so no property says it again.

`WorkerProofs` first proves `RunsInOrder`, `GenuineResults` and `NothingToTheDoomed`, which
depend on what is on its way. `RunInOrderOnce` compares starts; to be inductive it must
also say where a call can still be: `CallsInv` is

- `GateInv`: when the dispatch gate is open, and that a killed worker shut it;
- `HoldInv`: a call is held (in the channel to a worker or in its chain) by one worker at
  most, and that worker is the current one, which the executor believes to be busy with
  it, unless the executor gave the worker up and waits for its exit;
- `OrderInv`: what was dispatched comes before what is queued, what a worker has not
  started after what was started, and an answered call is held by nobody;
- `AnswerInv`: a result with the token of its dispatch is one of a contract that ended.

The executor has some twenty handlers and four effects on the workers: it serves the queue
(`Serves`), kills the worker (`Dooms`), replaces one that is gone (`Replaces`) or
leaves them alone (`Leaves`). `ExecutorShape` proves that each handler is one of these,
and the invariants are proved of the four; the steps of a worker are treated likewise.
Forged and late replies need no case of their own: a reply has an effect only if its
token is the token of the dispatch, and those are spoken for by `AnswerInv`.
TLC checked the four invariants on the three passing runs before they were proved.

`RunsOnItsSnapshot` and `ReferencesAlwaysResolve` follow the snapshots through the same
channels; they assume `CallerAwaits`. What they add to `CallsInv` is `SnapInv`:

- `BlockInv`: a waiting call carries the snapshot of the block that is open. This is
  where `CallerAwaits` is used: no block begins or ends while a call waits;
- `TokenInv(V)`, for some `V` from tokens to values: every frame, chained execution and
  worker's snapshot that mentions a token means `V` of it, and no token on the wire is
  fresh. A worker may hold an old snapshot, never a wrong one: whatever reference it
  resolves, it resolves to the data of the call;
- `AckInv`: once the current worker has acknowledged the block's token, that snapshot is
  in place there and no frame in its inbox changes it; before, nothing that waits
  to run there refers to it;
- `Silence`: a worker that is not forked yet has said nothing, so the
  acknowledgement a new worker is waited for is its own.

The handlers of the executor are six kinds as far as snapshots go: nothing is sent
(`Keeps`), the snapshot is sent again (`Resends`) or chosen (`Picks`), a call is
dispatched (`Gives`), the block turns (`Turns`), another worker comes (`Respawns`). A step
of a worker puts a snapshot in place (`Takes`), drops it (`Drops`) or leaves it
(`Passes`). TLC checked `SnapInv`'s parts on the constants of the run `blocks`, with `V`
among the functions from the tokens in use to block numbers, before they were proved.

Only model-checked: liveness (`EveryCallSettles`, outside the prover).

## 3. The execution pipeline

| module | models |
|---|---|
| `GasTracker` | `gas.js`: ceiling, charge, the exhausted flag |
| `StateStore` | `state.js`: the overlay, its canonical keys and its count; run on its own |
| `KeyValueStore` | the abstract promise of the overlay: a bounded map |
| `EmissionCollector` | `collector.js`: queued actions and log lines |
| `Execution` | `XChainVM.execute`, the gateway calls of a contract, the faults of the machine, the classifier; extends the three above |
| `MCExecution` | gate epochs, call contexts and forged errors for the runs |
| `ExecutionProofs` | proofs about `Execution`, and about `StateStore` with its refinement |
| `ListLemmas` | facts on numbers and sequences the proofs share |

Correspondence. `phase` is the line of `execute()` the host has reached: `entry`
(size check and lint), `linted` (isolate), `setup` (globals, gateway, harness),
`meter`, `compile`, `running`, `failed` (an error left the isolate) and `done`. The
contract is any program: while no error is in flight each of its steps is a metered
point, a gateway call, a throw or a return; while one is, it may catch it (a catch
clause or a discarding `finally`, both of which start with `__gas(1)`) or not. An
error is what the classifier can tell of it: its bridge tag, the phrases its text
contains, its class. `ContractErrors` is the set of errors a contract writes
itself, forgeries included. Three variables are history: `machine` (what ended the
contract, if not the contract), `hostFaulted` and `prepaid`; no action reads them
except to keep them.

Gas is charged before an argument is looked at, except where the code checks first
(`emit.execute`, `emit.crossExecute`, the controller-guard refusals). Parameters
are well formed or not; prices and limits are constants. An emit's refusals and
charges keep their order, which is what the emission cap is about: with the cap
last a refused call is paid for.

In `StateStore` a key is a type and the string it coerces to; an object key has
an identity of its own. The lookup in the snapshot is by string, the one in the
overlay by identity. `normKey` is the choke point the gate switches on.

### Runs

| run | question | bounds |
|---|---|---|
| `state_keys` | is the count exact, are the rows handed over the ones last read, is the overlay a bounded map once keys are canonical | 2 names of 3 types, an overlong one and one with a NUL byte, one value, a limit that snapshots start below, at and above |
| `execution_faults` | what is a run billed and called when errors, forgeries, swallowed exhaustion and faults of the machine and the host meet; does every run end | every epoch of the gates, ceilings of 2 and 3, charges of 1 and 3, so that one charge may overshoot; `UsedBound` ends the chase of errors that are caught and thrown again |
| `execution_calls` | who pays for queued calls, what is committed | a ceiling that affords two calls or fills the cap of two with cheap actions and one more call, every call context |

Fairness (`execution_faults`, for `RunEnds`): the host carries on with its own steps, the clock
runs and `runSync` fires its timeout. Nothing is assumed of the contract.

Gate epochs: a rule is on or off for a whole execution, and gates are armed in the
order the tables list them; `signal` and `native` are armed at the same heights
(an assumption of `Execution`, checked on every run's epochs and used by a proof).

### Proofs

`ExecutionProofs` proves for every schedule, ceiling, limit, contract and gate
setting: `BilledWithinCeiling`, `ExhaustedNeverCommits` and
`ResourceFaultsBillCeiling`. The assumptions are those of the modules: natural
prices, a positive ceiling, `signal` implies `native`. The inductive invariant
`IInv` says that the exhausted flag is the comparison of used and ceiling
(`GasInv`), that nothing was overspent or thrown before the contract runs
(`SetupInv`), and that a fault of the machine stays in flight until the classifier
sees it (`FaultInv`): the guard's because the poison throws it again at each catch,
a native overflow until a catch turns it into an ordinary error, a kill because
nothing runs after it. That is what makes the classifier's text matches safe: each
fault's own error reaches a branch that bills the ceiling (`VerdictFacts`).

`StatusCorroborated` and `HostFaultsHalt` are inductive on top of `IInv` once it is known
that only the memory limit disposes of an isolate and only the guard raises the stack
signal (`SignalsInv`); the work is in the classifier, one lemma for each way a run
settles. `FundedByCaller`, `PaidMeansQueued` and `AllOrNothing` (`QueueInv`) speak of
sums over the queue. A sum is a recursive function (`Total`), and what it is for a queue
with one more element is `TotalOfAppend`, proved by the least position at which the
two functions would differ (`LeastNumber`): every emit charges before it queues, and
queues no more than it charged. What a swallowed charge spends is never handed to
anyone, which is the inequality.

The last part of `ExecutionProofs` is about `StateStore`. It proves, for every snapshot, limit and set of keys:
`CountIsExact`, `ChangesAreTheView`, and that it implements `KeyValueStore`
(`ImplementsStore`), one lemma per operation. The count is exact because every update
of an overlay entry is compared with the view before it (`ViewAfterWrite`); with the
key gate disarmed keys of other types may spoil it, so the property speaks of canonical
overlays, and an overlay that stopped being canonical never becomes canonical again.

Only model-checked: liveness (`RunEnds`).

## 4. The caches

| module | models |
|---|---|
| `SourceLint` | `validateSyntax` and `lintSource`: the order of the checks, the rules each flag arms, the verdict of a host whose stack runs out; no state |
| `Caches` | the lint-verdict, metered-source, per-block and harness caches on the path of `execute()` |
| `MCCaches` | sources, gate epochs and callers for the runs |
| `CachesProofs` | the TLAPS proofs |

Correspondence. `lintVerdictCache` and `meteredCache` are sequences, as a
JavaScript `Map` keeps its insertion order and the eviction takes the oldest key.
`blockOpen` and `blockCache` are `_blockCache`, a `Map` between `beginBlock` and
`endBlock` and null otherwise. `harnessCache` holds the data of the masks compiled
so far. A digest stands for what it hashes. A source is what the rules and the
metering can tell of it; a report of a scanner names its rule, the refinements it
needs to be seen and those that excuse it. V8 is external: given cached data it may
hand back the program the data was made from, since it compares the length of the
source only; whether the caches are sound is then up to the keys.

`job` is the execution under way. `execute()` does not yield before the contract
has run, so between two of its steps only a failure of the host (`HostFails`, at
any step) or the end of the process (`Restart`) can come. `answer` is what the last
execution settled. `Fresh` is the reference: the same request on a node that has no
caches. The instrumented comparison of a warm and a cold node is thereby an
invariant of one node.

### Run

| run | question | bounds |
|---|---|---|
| `caches` | is a warm node a cold node | three sources on which different rules decide, two methods of one length, the epochs on either side of the syntax-depth and native-stack activations; caches of one entry, so that every fill evicts or is refused; failures of the host and restarts at any step |

Below the syntax-depth activation a stack overflow of the host is read as an error of
the source (`checkV8Syntax`, `pushParseError`) or as a scan that found nothing, and the
verdict is stored, while the comment on the cache (`vm_caches.js:55-57`) calls
`validateSyntax` a pure function of its key. The run and the proofs therefore speak of
sources within the bound (`Bounded`), which is every source once the activation is
armed.

### Proofs

`CachesProofs` proves `CachesInvisible`, `CachesSound` and `CachesBounded` for every
set of sources, callers, gate settings, ceilings and cache limits. The inductive
invariant has a part for each place a value is kept: entries of the persistent
caches hold their key's value (`PersistentInv`), data of the block and harness
caches was made from the source it is stored under (`CompiledInv`), and the job carries, at
each stage, exactly what `Fresh` would have computed so far (`JobInv`). The last
is why no step needs to know how warm the node is. The bound on the block cache is
the cardinality of a finite domain and needs its own invariant (`BoundInv`).

## 5. The toolkit simulator

| module | models |
|---|---|
| `Simulator` | `deploy`, `call`, `callGuard`, `setBlock`, `advanceBlock`, the cross-chain setters and `close`, over a machine in this process or in a worker |
| `SimulatorEpoch` | the block a new simulator starts from (`simulator/block_time_gates.js`, `constants.js`): the gates it reads, the date, pins of the author, the warnings |
| `SimulatorSeeds` | the other seeds of the world, the buckets per contract index, the warnings about scope, and what a run reads of them (`readonly-accessors.js`, `gateway/*`) |
| `MCSimulator` | sources, authors, dates and keys for the run |
| `SimulatorProofs` | proofs about the three |

Correspondence. A task is a deploy or a call, cut at its awaits: `Deploy` and `Call`
are the part up to the first one, `AfterManifest` what follows the manifest read,
`AfterRun` what follows the execution of a method. In this process a contract runs
during the first part; with a worker its options, which hold the contract's state
and the seeds by reference, are read when the executor dispatches them (`Dispatch`).
The executor is the one of section 2 as the simulator sees it: a queue, one entry in
flight, one snapshot a block, entries rejected by `shutdown()` or the broken latch.
Continuations come in the order their executions settled, those of manifest reads
and of runs mixed, since their promise chains differ in length.

A contract's state is the value of one key that every run reads and writes: the set
of runs it carries, emptied by a run that deletes the key. In `Simulator` a block's
height stands for its time too, which the gates of the deploy verdict are keyed to;
`SimulatorEpoch` has both, with the tables of `Activations`. Cross-chain data is a
count of seeds. The three modules share no state: in `MCSimulator` a behaviour is
about one of them (`part`).

| property | what it says |
|---|---|
| `SerialUnlessOverlapped` | a committed state is that of the successful runs in order; only an author who does not await can lose an update, and even then a state carries nothing but successful runs of its own contract, also when it is replaced during a run |
| `VerdictIsTheChains` | `deployGate` is the verdict the chain records, whatever else is under way, if the block does not change during the deploy |
| `SimulatesTheChain` | a simulator that has not warned runs every rule the chain runs at that date, the default block runs no others unless it is a preview and says so, and deploy and execution lint agree but for the delimiter rule |
| `SeedsReachTheContract` | a call in this process sees every earlier seed, with a worker every seed made before its block was opened; each read answers as the chain's snapshot would |

The part about the worker is as strong as the code allows: the cross-chain setters
change an object of which the worker gets a copy at the first call of a block, so a
seed made after that call reaches calls in the same block in one mode and not in the
other; `advanceBlock()` makes the modes agree.

Three things the model shows of the code and no run counts as wrong. `exec_lint.js`
says that its verdict agrees with what a deploy in the block would have produced;
the delimiter-nesting rule is always on at execution and off for mainnet deploys.
`setStake` with a bad amount and an index leaves an empty bucket of that index,
which hides the shared stakes. `getBalance` and `getTokenInfo` read without the
own-key rule; the setters' keys are therefore no inherited names in the model.

Run `simulator`: four authors (one deploy of any of five sources on either side of
three activations; two awaited runs with a seed, a block and a crash between them;
three unawaited runs in one block; two unawaited runs while the block changes), four
dates around the time gates on four networks and three coins, and three seeds of
each kind with a cap of one staker. Two runs suffice for an overlap and for a
replaced contract (a constructor is a run), three for an update lost between two
others; three stakes evict and bring back. There is no deadlock check: the author
stops when the bounds are reached.

Proofs. `SimulatorProofs` proves `SerialUnlessOverlapped`, `VerdictIsTheChains` and
`SeedsVisible` (the part of `SeedsReachTheContract` that is about several actors) for
every set of authors, sources, indexes and activation blocks and every number of tasks,
seeds, blocks and lost workers. They rest on one inductive invariant, `SimInv`, whose
parts a reader can take one at a time:

- `Placed`: a task is in the one place its stage says (queue, worker, continuations
  that are due) and there once. It is what makes `shutdown()` and the loss of a worker
  reject each task once, and it needs facts about sequences without repetition.
- `OwnEffects`: what a state, its history or a run's copy of a state holds was put there
  by successful runs of that object. Objects, not indexes: a replaced contract's runs go
  on writing to the object they looked up.
- `InTurn`: while no run of an object has overlapped another, one run at most has read
  its state and may still write it (`Live`), what it read is what the object holds, and
  the history is ahead of the state by its effect alone. The property says only that the
  two agree once nothing is under way, which is not inductive.
- `OneByOne`: an author who awaits has one task that is not done, hence no overlap.
- `Verdicts`: what the gate has concluded after each leg is what the chain has concluded
  by then (`JudgedSoFar`), if the block was one and the same at every leg so far.
- `Seeding`: no copy of the seeds is older than the block it is used in.

`SimulatesTheChain` is proved of `EpochSpec` for every set of networks, pinned blocks,
clocks from the first flag day to the sentinel `NEVER` and coins that have heights
(`EpochAssumption`), and any number of steps. The argument is about the tables, not
about runs: a time gate is a threshold that lies at or below zero, at the sentinel, or
among the anchors that `liveBlockTime` takes the latest of, so no rule switches between
the live anchor and the host clock (`Uncrossed`, `RulesGrow`); a height gate that
`heightGateNeed` finds nothing for is off at every height, and any other is on from
that height on (`GateAt`, `NeedIs`), so the default height, their largest, and a chain
past its last activation run the same gates (`RulesOfHeight`, `AtTheDefault`,
`AtTheTip`). `EpochInv` adds what lasts between calls: the live anchor belongs to the
simulator's clock and network, and a block that is still the derived one is past every
gate and, without the preview warning, at the live anchor. A table that is changed in
the source changes these lemmas at its own line.

`SeedReads` proves of `SeedsSpec` the parts of `ReadsAreSeeded` that span several setters
(`NullsMeanNever`, `OwnKeysOnly`, `ScopeIsTold`), for any keys, rounds, callers, contracts
and numbers of seeds (`SeedsAssumption`: indexes and rounds are numbers). `SeedsInv` adds
that the last price of a pair is one of its rounds (`Rounds`) and that a scoped bucket
holds no response seeded for every contract (`Scoped`), without which a run could read
one and not be warned. `StakeViewsAgree` stays with TLC: the roster is a sorted list and
its total a fold over it.

## 6. Source analysis

| module | models |
|---|---|
| `SyntaxTree` | syntax trees of the contracts' language, their tokens, the builders of `metering/ast_builders.js` |
| `Metering` | the passes of the transform (`metering.js`, `metering/*`) as functions on trees, under each gate |
| `MeteredRun` | what a tree does when it runs: the set of its traces, with the helpers as the harness has them |
| `LintScan` | the scanners that ban names and syntax (`lint-core/*`), with their scope analysis |
| `SyntaxDepth` | the scans of tokens before any parser (`nesting_depth.js`, `syntax_depth.js`) |
| `MeteringCheck` | the way of a source: scan, lint, meter; and the properties |
| `MCMetering` | every small contract of a grammar, per property |

A run's trace has the reads, calls, copies and writes in order, each with the number
of function bodies that are live, between the events of the hooks. Values are not
kept: a test goes either way, a call or a read may throw, the engine may run out of
stack, a hook may fault. The reference for each property is the source itself or the
language, not the transform: traces of the source against those of the metered tree
(`SameBehaviour`), the copies and calls an engine makes (`EverythingCharged`), the
live bodies (`DepthTracksFrames`), the fault (`NothingAfterFault`), the resolution of
a name by the language's scopes (`StaticReadsFlagged`), the depth of the tree
(`ScanBoundsDepth`).

Run `metering` takes the contracts of `SmallPrograms` before the flag days, after
them, and with the native-stack rules; those of `LintPrograms`, with all refinements;
and towers of two forms around each other for the scans. One iteration of a loop is
enough for an order or a missing charge to show. These modules recurse over trees
with `RECURSIVE` operators and stay with TLC.

What the properties leave out, because the code does: the helpers copy spread values
and look up the tag of a member after the arguments (the comment in
`allocator_transform.js` claims the order is kept); `o.p += e` before the
evaluation-order gate reads `o.p` after `e`; a `catch` with a pattern before the
native-stack gate destructures before it looks; parameter defaults run outside the
depth guard; an optional chain makes the scan's bound one level too small
(`ChainSlack`).

Two more differences are in the model, and stated where the property is:

- A call inside an optional chain is charged by a sequence around that call
  (`visitor_instrumentation.js:146-184`), and a sequence ends the chain:
  `o?.m().n()` becomes `(__gas(1), (__gas(1), o?.m()).n())`, which throws a TypeError
  where the source yields `undefined`. `SameBehaviour` compares the metered tree with
  `CallsEndChains(source)`, the source with its chains ended at each such call, so
  the metered contract behaves as a contract written that way, which for a chain with
  a call before its end is not the contract that was written.
- Neither `new` nor a tagged template is charged where it stands: the function it
  enters is, and so are its spread arguments and its long strings
  (`harness_part_4.js:287-304`). `EverythingCharged` counts loops, call expressions,
  entries and the script itself, one charge each, and copies.

Not in the grammar: classes, accessors, generators, the order of `toString` in
templates, helpers a contract calls by hand (the lint bans their names). The
reference for the bans resolves declarations and assignments; a default inside a
parameter pattern and the head of a for-of or for-in loop are outside it.

## 7. Inside the isolate, and around it

| module | models |
|---|---|
| `StringifyGuard` | `JSON.stringify`: the walk that resolves the hooks, its pool of frames, copies, nested calls from hooks, the coercion of the third argument (`harness_part_2.js`, `_3.js`, `json_stringify_reentry.js`) |
| `ParseGuard` | `JSON.parse`: one coercion, the scan of nesting, the native parser, the walk of a reviver |
| `SparseProbe` | the accessor that observes a length while a native method runs contract code (`harness_part_5.js`) |
| `BuiltinMeters` | one action for each metered built-in: what is charged before and after the native (`harness_part_1.js` to `_5.js`, `per_element_meter.js`) |
| `NativeStack` | the hooks of the native-stack rule: functions, applies and the copies they make, spread calls, tokens, overflow (`native_stack/*`) |
| `Realm` | what is stripped, injected, locked and removed before a contract runs, and the wrapper that dispatches it (`sandbox.js`, `gateway_injection.js`, `isolate_globals.js`, `contract_wrapper.js`) |
| `Activations` | every gate and its table |
| `Fleet` | the rules that derive a harness from the unarmed one, and a validator that loads, runs blocks in any order and restarts |
| `CallTree` | request and call ids over trees of nested runs (`gateway-emit.js`) |
| `VmEntry` | the constructor of the VM and the executor slots (`index.js`) |
| `MCStringify`, `MCIsolate` | their instances |

They share no state, so one run checks them side by side (`part`).

| property | what it says |
|---|---|
| `NativeInputMeasured` | the native serializer and parser get what the guards measured and paid for, however hooks nest, throw and answer; only what the third argument's coercion writes to a value passed by reference escapes it |
| `NativeWorkCharged` | what natives walk or build is charged, also for keys and lengths that contract code answers; the probe leaves no trace |
| `StackAccounted` | the budget covers every function on the native stack, and every apply and spread call under which no hook was called by hand, through throws, catches, nested holds and hooks called by hand; what is on the stack stays within the limit; without such calls the budget is exact; an overflow of the engine is terminal |
| `DiscountIsDue` | an apply is spared the units of a call only where another apply is under way with no function in between, however the applies before it ended |
| `EnvironmentFixed` | the block alone decides harness, limits and gates, whatever was compiled before (`BlockDecides`); the realm stays sealed and dispatches what the host asked for, whatever the contract writes and whichever neuter the engine refused (`RealmSealed`) |
| `IdsNameOneEmission` | an id names one emission over chains, roots, batches, nested runs and repeated blocks |
| `SlotsExact` | the count of executors is that of the machines built and not shut down |

Correspondence. A hook of a contract is any answer from a small set, another call, or
a throw. Gas is what is left of a budget. A slot of `Realm` is a property with its
value and attributes; a step of the set-up is a function on slots, in the order of
the script, so that a neuter after `defineProperty` is gone fails in the model too.
`stubborn` is a slot the engine refuses to redefine: only neuters are read back
(`assertNeutered`), and only they range over it; deleted globals, pinned error stacks
and the locks on `defineProperty` rely on the pinned engine. One host reference stands
for its group and one built-in for its family. A preimage is the tuple of its fields.

Bounds: two objects and one nested call for the pool of frames to be shared; three
moves of contract code around a probe; two calls of a built-in on two budgets; a
stack of four units, one apply at a time that copies an array-like, two sites and two calls by hand; two roots, two emissions a run
and four in all, which is a nested run and its twin, at positions 0, 1 and 10; three machines under caps of
none, one and two; blocks on either side of every gate; one write of the contract,
because a seal that gives does so at the first. No deadlock check: contracts end.

Finding (`stringify`). Past the reentry rule the walk passes a subtree it found inert
by reference and reads the slots of a frame again when it copies it later. A hook that
then writes to an object the walk has left makes the native serializer walk another
value than the one measured; the comment says that the value cannot change under it.
`NativeInputMeasured` therefore speaks of hooks that do not write; the run with
writes shows the disagreement. The native serializer coerces the third argument after
all of that (`json_stringify_reentry.js:76`, `harness_part_4.js:64`), and a contract may
write from there: the property holds of every copy, and a value passed by reference may
differ from the one measured if it was written to (`MeasuredUnlessWritten`). Once a value
was written, a call is not followed by another.

A reviver is called by the native parser while it walks the parsed value
(`harness_part_2.js:136-142`). The guard measures the text only: the walk begins within
the bound, and goes deeper where the reviver put deeper values in places still to be
walked. `ParsedWithinBounds` says exactly that.

The native stack. The comments of `harness_hooks.js` (51-55, 58-61) say that contract
code never lowers the depth below a live frame. A native reached by an apply or a
spread call may call a hook by coercion, a bound `__arrspread` as the `valueOf` of a
length, and go on to call a function of the contract: the hook may give back the units
of that native's own call. From then on the frames above the innermost function are
counted as nothing (`HookUsed`), and the claim is checked and proved for functions, which
are what recursion through it is made of. The elements of an array-like are read
between the reserve and the hold, so the depth itself may pass the limit; what is on the
stack, with what is reserved, does not. The length of an array-like and the iterables of
a spread are read before the wrapper has done anything: what runs there runs as if the
frame below had called it.

Divergences between comments and code met while modelling, of no effect on what is
checked: `select.js` says that mask 0 compiles the harness byte for byte and that only
combinations asked for are kept, but the string-result compiler derives every mask,
zero included, and fills the table of all 256 when it is installed; on regtest below
the contract era the JSON hooks are off although their gate value 0 is documented as
active since genesis; the header of `host_error_stack_strip_heights.js` calls testnet
unarmed and its table arms it; the wrapper's comment says that bounding meta keeps the
report parseable whatever the contract does, but a long permissions list is still cut
at 65536 characters.

Left out: a contract that replaces the global `JSON` writes its own report; receivers
that coerce, `adoptStatics`, results of `fromEntries` and `assign` beyond their keys.

### Proofs

`StackProofs` proves `StackAccounted` for every limit, weight of a function, number of
sites, copies under way and calls by hand. The depth is restored from records written long before they are
read: the entry of a function, the hold of a spread call, the local variable of the
apply wrapper. The invariant (`Covered`) says of each that it covers the frames that
will still be there when it is read. This holds because a function's entry stays as long
as its frame does: a contract that calls the hooks by hand has tokens, but never the
token of a frame (`HasEntry`). A hook called under a native lowers what is counted of
the frames above the innermost function to what that function has, and since no record
says more of them than of it, each record covers what it did (`Lower`). The limit is kept
by what is on the stack and reserved, not by the depth (`LiveInLimit`). That the budget is exact while the contract keeps its
hands off is a second invariant on the same records.

`HostProofs` proves `SlotsExact` for every set of machines and caps, and
`IdsNameOneEmission` for every tree of nested runs. For the ids the invariant says that
every id was made as a one-to-one function of the emission it names, in the run under
way, in the runs it asks for and in those that committed (`TreeInv`); what is proved on
the way is that the root's discriminator keeps output and position
(`DiscriminatorInjective`).

It also proves `NativeWorkCharged` (`NativesAreCharged`) and `EnvironmentFixed`
(`EnvironmentIsTheBlocks`), each from the specifications of two machines.

- *The probe.* The invariant (`ProbeInv`) says of every call on the stack what is
  underneath its accessor and which lengths it has walked and paid for; a call that
  leaves gives back exactly what it found, so the calls around it find theirs. Assumed:
  lengths do not pass `MAX_SAFE_INTEGER` (`LengthsAssumption`).
- *The meters.* Each wrapper is a balance: what it may still work for free or has
  charged covers what its native has done (`CallCovered`), one lemma for each way a call
  goes on; a `keys()` that answers more than it claimed is paid in batches, and the
  invariant keeps the batch under way apart (`Settled`). `MetersPay` is the arithmetic of
  the meters themselves, one step for each built-in. Assumed: `MaxCalls` is a number
  (`CallsAssumption`).
- *The realm.* A slot that is neither writable nor configurable survives every write,
  delete and define (`AssignedIs`, `DeletedIs`, `DefinedIs`), so the invariant only says,
  phase by phase, which slots are locked, which can still be removed and which are gone
  (`SlotsInv`). The work is in between: no part of the script or of the harness undoes
  another's, because their groups of slots do not meet (`TouchedApart`, `StripIs`,
  `HarnessIs`). A neuter that the engine refuses ends the script, whichever it is. The
  wrapper has an invariant of its own (`DispatchInv`). No bound on the contract's writes
  and no assumption on the blocks is used.
- *The fleet.* A cache holds the source of its own mask and of no other (`FleetInv`), so
  cached bytecode that V8 takes by its length is right all the same. The gates are
  arithmetic on their tables (`RegtestArmsAll`, `MainnetArmsNone`, `HalvesTogether`).
  Assumed (`FleetAssumption`): block times have 32 bits, heights are integers or
  `NotANumber`, nothing outside the pinned list matches a pin, a CPU limit is a number.
  What the derivation makes of each of the 256 masks is a fold over sequences, beyond the
  provers here; it mentions no constant, so `DerivationAssumption` is a closed formula
  which TLC evaluates completely on every run of `isolate`: the code proves the same when
  it loads (`select.js`).

Only model-checked: the JSON guards (`NativeInputMeasured`), whose functions on
values and texts are recursive, and `DiscountIsDue`.


## Plan

The components are modelled as sections 2 to 7 say, and the safety properties whose
definitions are not recursive are proved. What could come next: `StakeViewsAgree` of
`SimulatorSeeds`, whose sorted roster and folded sum would need lemmas of their own,
and the grammar of `SyntaxTree` (classes, getters and setters, generators).

Out of the prover's reach and left to TLC: liveness (`EveryCallSettles`, `RunEnds`), and
section 6 and the recursive guards of section 7, whose functions on trees are recursive.
Where a proof needs induction over numbers (sums, prefixes of sequences), it goes by a
least counterexample (`ListLemmas!LeastNumber`).

## Not modelled

`PROJECT.json` lists every part with its status. Left out on purpose:

- what V8 and isolated-vm do inside, beyond what the code relies on;
- `math.js`: arithmetic of a library behind argument checks, without state;
- `lint-core/contract_analysis.js` and messages: advice to authors that no verdict
  depends on;
- scaffolding, authoring prompts, transpiling and the file checks of the toolkit: text
  on a developer's machine;
- `bin/`, `bench/`, `tools/`: scripts that start the parts above or read the
  repository's files;
- `protocol/constants.js`, `errors.js`: tables and classes, the modules' constants.
