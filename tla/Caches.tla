-------------------------------- MODULE Caches --------------------------------
(***************************************************************************)
(* The caches of one XChainVM (index/runtime/vm_caches.js) on the path of  *)
(* execute(): lint verdicts and metered sources, first in first out and    *)
(* kept across blocks (index/methods/lint_and_metering.js), compiled       *)
(* contracts, kept for a block (index/runtime/execute.js), and compiled    *)
(* harnesses (index/string_result_meter.js).                               *)
(*                                                                         *)
(* execute() does not yield before the contract has run, so nothing else   *)
(* happens on the node between two of its steps, save a failure.           *)
(***************************************************************************)
EXTENDS SourceLint, Sequences

CONSTANTS
    Codes,          \* contract sources
    Calls,          \* what callers ask of a contract: method and the two flags
    Eras,           \* what the blocks under study have armed
    Ceilings,       \* gas ceilings of executions
    BytesPerUnit,   \* EXEC_LINT_GAS_BYTES_PER_UNIT
    maxMeteredCacheSize,
    maxBlockCacheSize   \* the limit, or 1000 where it is missing or zero

MeterFlags == {"evalOrder", "callSpread", "restPattern", "nativeStack"}

ASSUME CachesAssumption ==
    /\ \A c \in Codes : /\ c.bytes \in Nat
                        /\ {c.nested, c.deep, c.compiles, c.parses} \subseteq BOOLEAN
                        /\ c.reports \subseteq Reports
                        /\ c.steers \subseteq MeterFlags
    /\ \A e \in Eras : /\ {e.execLint, e.hardened} \subseteq BOOLEAN
                       /\ e.lint \subseteq LintFlags
                       /\ e.meter \subseteq MeterFlags
    /\ Ceilings \subseteq Nat
    /\ BytesPerUnit \in Nat \ {0}
    /\ maxMeteredCacheSize \in Int
    /\ maxBlockCacheSize \in Nat

VARIABLES
    lintVerdictCache,   \* Map in insertion order: a sequence of [key, value]
    meteredCache,
    blockOpen,          \* _blockCache is a Map: between beginBlock and endBlock
    blockCache,         \* its entries: key to the set of data V8 gave, one or none
    harnessCache,       \* function of the masks compiled so far
    job,                \* the execution under way
    answer              \* what the last execution settled, until the next begins

blockVars == <<blockOpen, blockCache>>
caches == <<lintVerdictCache, meteredCache, blockVars, harnessCache>>
vars == <<caches, job, answer>>

Requests == [code : Codes, call : Calls, era : Eras, ceiling : Ceilings]

Idle      == [at |-> "idle"]
NoAnswer  == [status |-> "none"]

Init ==
    /\ lintVerdictCache = <<>> /\ meteredCache = <<>>
    /\ blockOpen = FALSE /\ blockCache = <<>>
    /\ harnessCache = <<>>
    /\ job = Idle
    /\ answer = NoAnswer
-------------------------------------------------------------------------------
(***************************************************************************)
(* What a fresh call computes, and what a key stands for.                  *)
(***************************************************************************)

\* The gas of the execute-time lint, charged before the cache is looked at.
LintUnits(code) ==
    LET units == (code.bytes + BytesPerUnit - 1) \div BytesPerUnit
    IN  IF units > 1 THEN units ELSE 1

\* meterCode: the rewrite depends on the gates only where the source has what
\* they rewrite.
meterCode(code, flags) == [code |-> code, rewritten |-> flags \cap code.steers]

\* buildContractSource: every byte that varies in the compiled wrapper.
buildContractSource(metered, req) ==
    [body |-> metered, call |-> req.call, hardened |-> req.era.hardened]

\* Mutant: the syntax-depth flag has no bit in the key.
LintKeyShort(code, flags) == <<code, flags \ {"syntaxDepth"}>>

LintKey(code, flags) == <<code, flags>>

\* Mutant: the native stack gate has no bit in the key.
MeterKeyShort(code, flags) == <<code, flags \ {"nativeStack"}>>

MeterKey(code, flags) == <<code, flags>>

\* The whole wrapper.  (The key also has the contract's index, which only
\* separates contracts of the same code.)
BlockKey(fullSource) == fullSource

Has(cache, key) == \E i \in DOMAIN cache : cache[i].key = key

Get(cache, key) == cache[CHOOSE i \in DOMAIN cache : cache[i].key = key].value

\* Mutant: the oldest entry stays.
RememberAll(cache, key, value) == Append(cache, [key |-> key, value |-> value])

\* At capacity the oldest entry goes; a capacity below one still holds one entry.
Remember(cache, key, value) ==
    Append(IF Len(cache) >= maxMeteredCacheSize /\ cache # <<>> THEN Tail(cache) ELSE cache,
           [key |-> key, value |-> value])

\* compileScript: V8 looks at the length of the source only before it takes
\* cached data, so the script it hands back may be the one the data came from.
compileScript(source, cachedData) == {source} \cup cachedData
-------------------------------------------------------------------------------
Refuse(req, status, gas) ==
    /\ answer' = [req |-> req, status |-> status, gas |-> gas]
    /\ job' = Idle

\* The verdict lets the execution go on, or refuses it.
Judge(req, verdict, gas) ==
    IF verdict = "valid"
    THEN /\ job' = [at |-> "harness", req |-> req, gas |-> gas]
         /\ answer' = NoAnswer
    ELSE Refuse(req, verdict, gas)

\* getLintVerdict: a hit, or a fresh verdict that is remembered.  A host whose
\* stack runs out may remember another one.
LintHit(req, gas) ==
    LET key == LintKey(req.code, req.era.lint)
    IN  /\ Has(lintVerdictCache, key)
        /\ Judge(req, Get(lintVerdictCache, key), gas)
        /\ UNCHANGED caches

LintMiss(req, gas) ==
    LET key == LintKey(req.code, req.era.lint)
    IN  /\ ~Has(lintVerdictCache, key)
        /\ \E verdict \in {validateSyntax(req.code, req.era.lint)}
                          \cup OverflowVerdicts(req.code, req.era.lint) :
             /\ lintVerdictCache' = Remember(lintVerdictCache, key, verdict)
             /\ Judge(req, verdict, gas)
        /\ UNCHANGED <<meteredCache, blockVars, harnessCache>>

\* checkExecLint: nothing is charged and nothing checked below the gate.
Unlinted(req) ==
    /\ ~req.era.execLint
    /\ job' = [at |-> "harness", req |-> req, gas |-> 0]
    /\ answer' = NoAnswer
    /\ UNCHANGED caches

OutOfGas(req) ==
    /\ req.era.execLint
    /\ LintUnits(req.code) > req.ceiling
    /\ Refuse(req, "out_of_gas", req.ceiling)
    /\ UNCHANGED caches

Linted(req) ==
    /\ req.era.execLint
    /\ LintUnits(req.code) <= req.ceiling
    /\ LintHit(req, LintUnits(req.code)) \/ LintMiss(req, LintUnits(req.code))

Execute(req) ==
    /\ job = Idle
    /\ Unlinted(req) \/ OutOfGas(req) \/ Linted(req)

\* The isolate cannot be created, a set-up step fails, a parser runs out of
\* stack, the wrapper does not compile: nothing is stored.  How it settles is
\* the subject of Execution.
HostFails(req) ==
    /\ job # Idle => job.req = req
    /\ Refuse(req, "host failed", 0)
    /\ UNCHANGED caches

\* compileHarness: one source for every set of armed rules, with its own data.
CompileHarness ==
    /\ job.at = "harness"
    /\ LET mask   == job.req.era.mask
           cached == IF mask \in DOMAIN harnessCache THEN {harnessCache[mask]} ELSE {}
       IN  \E script \in compileScript(mask, cached) :
             /\ job' = [at |-> "meter", req |-> job.req, gas |-> job.gas, harness |-> script]
             /\ harnessCache' \in
                  IF cached # {} THEN {harnessCache}
                  ELSE {harnessCache, [k \in DOMAIN harnessCache \cup {mask} |->
                                         IF k = mask THEN mask ELSE harnessCache[k]]}
    /\ UNCHANGED <<lintVerdictCache, meteredCache, blockVars, answer>>

\* getMeteredCode: a failure is not remembered.
Meter ==
    /\ job.at = "meter"
    /\ LET key   == MeterKey(job.req.code, job.req.era.meter)
           fresh == meterCode(job.req.code, job.req.era.meter)
           next(metered) == [at |-> "compile", req |-> job.req, gas |-> job.gas,
                             harness |-> job.harness, metered |-> metered]
       IN  \/ /\ Has(meteredCache, key)
              /\ job' = next(Get(meteredCache, key))
              /\ UNCHANGED <<meteredCache, answer>>
           \/ /\ ~Has(meteredCache, key)
              /\ job.req.code.parses
              /\ meteredCache' = Remember(meteredCache, key, fresh)
              /\ job' = next(fresh)
              /\ UNCHANGED answer
           \/ /\ ~Has(meteredCache, key)
              /\ ~job.req.code.parses
              /\ Refuse(job.req, "metering failed", job.gas)
              /\ UNCHANGED meteredCache
    /\ UNCHANGED <<lintVerdictCache, blockVars, harnessCache>>

BlockRoom == Cardinality(DOMAIN blockCache) < maxBlockCacheSize

\* The compiled contract, from the data stored in this block when there is some.
\* New data is stored while there is room; reading it from the script may fail.
Compile ==
    /\ job.at = "compile"
    /\ LET fullSource == buildContractSource(job.metered, job.req)
           key        == BlockKey(fullSource)
           known      == key \in DOMAIN blockCache
       IN  \E script \in compileScript(fullSource, IF known THEN blockCache[key] ELSE {}) :
             /\ job' = Idle
             /\ answer' = [req |-> job.req, status |-> "ran", gas |-> job.gas,
                           script |-> script, harness |-> job.harness]
             /\ \/ blockCache' = blockCache
                \/ /\ blockOpen /\ ~known /\ BlockRoom
                   /\ \E data \in {{}, {fullSource}} :
                        blockCache' = [k \in DOMAIN blockCache \cup {key} |->
                                         IF k = key THEN data ELSE blockCache[k]]
    /\ UNCHANGED <<lintVerdictCache, meteredCache, blockOpen, harnessCache>>

beginBlock ==
    /\ job = Idle
    /\ blockOpen' = TRUE /\ blockCache' = <<>>
    /\ UNCHANGED <<lintVerdictCache, meteredCache, harnessCache, job, answer>>

endBlock ==
    /\ job = Idle
    /\ blockOpen' = FALSE /\ blockCache' = <<>>
    /\ UNCHANGED <<lintVerdictCache, meteredCache, harnessCache, job, answer>>

\* A new process starts with every cache empty.
Restart ==
    /\ lintVerdictCache' = <<>> /\ meteredCache' = <<>>
    /\ blockOpen' = FALSE /\ blockCache' = <<>>
    /\ harnessCache' = <<>>
    /\ job' = Idle
    /\ answer' = NoAnswer

Next ==
    \/ \E req \in Requests : Execute(req) \/ HostFails(req)
    \/ CompileHarness \/ Meter \/ Compile
    \/ beginBlock \/ endBlock
    \/ Restart

Spec == Init /\ [][Next]_vars
-------------------------------------------------------------------------------
(***************************************************************************)
(* Properties.                                                             *)
(***************************************************************************)

FullSources == [body : [code : Codes, rewritten : SUBSET MeterFlags], call : Calls,
                hardened : BOOLEAN]

TypeOK ==
    /\ lintVerdictCache \in Seq([key : Codes \X SUBSET LintFlags, value : Verdicts])
    /\ meteredCache \in Seq([key : Codes \X SUBSET MeterFlags,
                             value : [code : Codes, rewritten : SUBSET MeterFlags]])
    /\ blockOpen \in BOOLEAN
    /\ \A k \in DOMAIN blockCache : k \in FullSources /\ blockCache[k] \subseteq FullSources
    /\ job.at \in {"idle", "harness", "meter", "compile"}
    /\ job # Idle => job.req \in Requests /\ job.gas \in Nat

\* What an execution settles on a node that has no caches and a sound host.
Fresh(req) ==
    LET verdict == validateSyntax(req.code, req.era.lint)
        gas     == IF req.era.execLint THEN LintUnits(req.code) ELSE 0
    IN  IF gas > req.ceiling
        THEN [req |-> req, status |-> "out_of_gas", gas |-> req.ceiling]
        ELSE IF req.era.execLint /\ verdict # "valid"
        THEN [req |-> req, status |-> verdict, gas |-> gas]
        ELSE IF ~req.code.parses
        THEN [req |-> req, status |-> "metering failed", gas |-> gas]
        ELSE [req |-> req, status |-> "ran", gas |-> gas,
              script |-> buildContractSource(meterCode(req.code, req.era.meter), req),
              harness |-> req.era.mask]

\* "invisible to consensus" (vm_caches.js): whatever ran before, on whichever
\* side of an activation, and whatever was evicted or lost in a restart, an
\* execution settles as on a cold node: same verdict, same gas, same script run
\* in the same harness.  For sources a sound host can read within its stack.
CachesInvisible ==
    answer.status \notin {"none", "host failed"} =>
        (Bounded(answer.req.code, answer.req.era.lint) => answer = Fresh(answer.req))

\* Every entry of the two persistent caches is what a fresh call would answer
\* for its key, for sources a sound host can read within its stack.
CachesSound ==
    /\ \A i \in DOMAIN lintVerdictCache :
         LET e == lintVerdictCache[i]
         IN  Bounded(e.key[1], e.key[2]) => e.value = validateSyntax(e.key[1], e.key[2])
    /\ \A i \in DOMAIN meteredCache :
         LET e == meteredCache[i] IN e.value = meterCode(e.key[1], e.key[2])

FifoBound == IF maxMeteredCacheSize > 1 THEN maxMeteredCacheSize ELSE 1

\* The caches stay within their limits however long the node runs; the FIFO
\* caches hold one entry even where the limit is zero.
CachesBounded ==
    /\ Len(lintVerdictCache) <= FifoBound
    /\ Len(meteredCache) <= FifoBound
    /\ Cardinality(DOMAIN blockCache) <= maxBlockCacheSize

===============================================================================
