----------------------------- MODULE CachesProofs -----------------------------
(***************************************************************************)
(* That the caches cannot be seen from outside, for every set of sources,  *)
(* calls and eras and every size of the caches.                            *)
(*                                                                         *)
(* The invariant says where every piece of cached data came from: an entry *)
(* holds what the pass over its own key gave, and the execution under way  *)
(* carries only what a cold node would have computed so far.               *)
(***************************************************************************)
EXTENDS Caches, FiniteSetTheorems, TLAPS

\* Every verdict some host may give: one for a bounded source.
Given(code, flags) == {validateSyntax(code, flags)} \cup OverflowVerdicts(code, flags)

EntriesOf(c, f) == {[key |-> LintKey(c, f), value |-> v] : v \in Given(c, f)}

LintEntries == UNION {UNION {EntriesOf(c, f) : f \in SUBSET LintFlags} : c \in Codes}

MeterEntries ==
    UNION {{[key |-> MeterKey(c, f), value |-> meterCode(c, f)] : f \in SUBSET MeterFlags} :
             c \in {d \in Codes : d.parses}}

LintGas(req) == IF req.era.execLint THEN LintUnits(req.code) ELSE 0

\* The execution got past the lint as it would on a cold node.
Admitted(req, gas) ==
    /\ req \in Requests
    /\ gas = LintGas(req)
    /\ gas <= req.ceiling
    /\ Bounded(req.code, req.era.lint) /\ req.era.execLint =>
         validateSyntax(req.code, req.era.lint) = "valid"

HarnessJobs == {[at |-> "harness", req |-> r, gas |-> LintGas(r)] : r \in Requests}
MeterJobs   == {[at |-> "meter", req |-> r, gas |-> LintGas(r), harness |-> r.era.mask] :
                  r \in Requests}
CompileJobs == {[at |-> "compile", req |-> r, gas |-> LintGas(r), harness |-> r.era.mask,
                 metered |-> meterCode(r.code, r.era.meter)] : r \in Requests}

PersistentInv ==
    /\ lintVerdictCache \in Seq(LintEntries)
    /\ meteredCache \in Seq(MeterEntries)

CompiledInv ==
    /\ \A k \in DOMAIN blockCache : blockCache[k] \subseteq {k}
    /\ \A m \in DOMAIN harnessCache : harnessCache[m] = m

JobInv ==
    /\ job \in {Idle} \cup HarnessJobs \cup MeterJobs \cup CompileJobs
    /\ job # Idle => Admitted(job.req, job.gas)
    /\ job \in CompileJobs => job.req.code.parses

IInv == PersistentInv /\ CompiledInv /\ JobInv /\ CachesInvisible
-------------------------------------------------------------------------------
\* What linting a source costs is a natural number, and so is the bill of a request.
LEMMA LintUnitsNat == ASSUME NEW c \in Codes PROVE LintUnits(c) \in Nat
  BY CachesAssumption DEF LintUnits

\* The lint fee of a request and its ceiling are natural numbers.
LEMMA LintGasNat == ASSUME NEW req \in Requests PROVE LintGas(req) \in Nat /\ req.ceiling \in Nat
  BY LintUnitsNat, CachesAssumption DEF LintGas, Requests

\* A bounded source has one verdict.
LEMMA BoundedGiven ==
  ASSUME NEW c \in Codes, NEW f \in SUBSET LintFlags, Bounded(c, f), NEW v \in Given(c, f)
  PROVE  v = validateSyntax(c, f)
<1>1. OverflowVerdicts(c, f) = {}
  BY DEF OverflowVerdicts, Bounded, preParseFinding
<1> QED BY <1>1 DEF Given

\* Remember keeps a cache made of entries of one kind.
LEMMA RememberSeq ==
  ASSUME NEW S, NEW cache \in Seq(S), NEW key, NEW value,
         [key |-> key, value |-> value] \in S
  PROVE  Remember(cache, key, value) \in Seq(S)
  BY DEF Remember

\* An entry of the verdict cache names the pass it came from.
LEMMA LintEntry ==
  ASSUME NEW e \in LintEntries
  PROVE  \E d \in Codes, g \in SUBSET LintFlags :
           \E v \in Given(d, g) : e = [key |-> LintKey(d, g), value |-> v]
<1>1. PICK d \in Codes : e \in UNION {EntriesOf(d, f) : f \in SUBSET LintFlags}
  BY DEF LintEntries
<1>2. PICK g \in SUBSET LintFlags : e \in EntriesOf(d, g)
  BY <1>1
<1>3. \E v \in Given(d, g) : e = [key |-> LintKey(d, g), value |-> v]
  BY <1>2 DEF EntriesOf
<1> QED BY <1>3

\* Between executions there is nothing to say of the job.
LEMMA IdleJob == ASSUME job' = Idle PROVE JobInv'
<1>1. Idle \notin CompileJobs
  BY DEF Idle, CompileJobs
<1> QED BY <1>1 DEF JobInv

\* The four kinds of job of execute() tell themselves apart by the line they are at.
LEMMA JobStages ==
  /\ Idle.at = "idle"
  /\ \A j \in HarnessJobs : j.at = "harness"
  /\ \A j \in MeterJobs : j.at = "meter"
  /\ \A j \in CompileJobs : j.at = "compile"
  BY DEF Idle, HarnessJobs, MeterJobs, CompileJobs

\* Dropping the compiled code at the end of a block leaves nothing to be wrong about.
LEMMA EmptyCompiled ==
  ASSUME blockCache' = <<>>, harnessCache' \in {<<>>, harnessCache}, CompiledInv
  PROVE  CompiledInv'
  BY DEF CompiledInv

\* What a hit of the verdict cache answers.
LEMMA LintGet ==
  ASSUME PersistentInv, NEW c \in Codes, NEW f \in SUBSET LintFlags,
         Has(lintVerdictCache, LintKey(c, f))
  PROVE  Get(lintVerdictCache, LintKey(c, f)) \in Given(c, f)
<1> DEFINE i == CHOOSE j \in DOMAIN lintVerdictCache : lintVerdictCache[j].key = LintKey(c, f)
<1>1. i \in DOMAIN lintVerdictCache /\ lintVerdictCache[i].key = LintKey(c, f)
  BY DEF Has
<1>2. lintVerdictCache[i] \in LintEntries
  BY <1>1 DEF PersistentInv
<1>3. PICK d \in Codes, g \in SUBSET LintFlags :
        \E v \in Given(d, g) : lintVerdictCache[i] = [key |-> LintKey(d, g), value |-> v]
  BY <1>2, LintEntry
<1>4. d = c /\ g = f
  BY <1>1, <1>3 DEF LintKey
<1> QED BY <1>3, <1>4 DEF Get

\* What a hit of the metered-source cache answers.
LEMMA MeterGet ==
  ASSUME PersistentInv, NEW c \in Codes, NEW f \in SUBSET MeterFlags,
         Has(meteredCache, MeterKey(c, f))
  PROVE  Get(meteredCache, MeterKey(c, f)) = meterCode(c, f) /\ c.parses
<1> DEFINE i == CHOOSE j \in DOMAIN meteredCache : meteredCache[j].key = MeterKey(c, f)
<1>1. i \in DOMAIN meteredCache /\ meteredCache[i].key = MeterKey(c, f)
  BY DEF Has
<1>2. meteredCache[i] \in MeterEntries
  BY <1>1 DEF PersistentInv
<1>3. PICK d \in {e \in Codes : e.parses}, g \in SUBSET MeterFlags :
        meteredCache[i] = [key |-> MeterKey(d, g), value |-> meterCode(d, g)]
  BY <1>2 DEF MeterEntries
<1>4. d = c /\ g = f
  BY <1>1, <1>3 DEF MeterKey
<1> QED BY <1>3, <1>4 DEF Get
-------------------------------------------------------------------------------
\* Empty caches and no job.
LEMMA InitIInv == Init => IInv
<1> SUFFICES ASSUME Init PROVE IInv
  OBVIOUS
<1> USE DEF Init
<1>1. PersistentInv
  BY DEF PersistentInv
<1>2. CompiledInv
  BY DEF CompiledInv
<1>3. Idle \notin CompileJobs
  BY DEF Idle, CompileJobs
<1>4. JobInv
  BY <1>3 DEF JobInv
<1>5. CachesInvisible
  BY DEF CachesInvisible, NoAnswer
<1> QED BY <1>1, <1>2, <1>4, <1>5 DEF IInv

\* The verdict a request gets leaves the job and the answer as on a cold node.
LEMMA JudgeSound ==
  ASSUME NEW req \in Requests, NEW v \in Given(req.code, req.era.lint), req.era.execLint,
         LintUnits(req.code) <= req.ceiling, Judge(req, v, LintUnits(req.code))
  PROVE  JobInv' /\ CachesInvisible'
<1>1. req.code \in Codes /\ req.era.lint \in SUBSET LintFlags
  BY CachesAssumption DEF Requests
<1>2. Bounded(req.code, req.era.lint) => v = validateSyntax(req.code, req.era.lint)
  BY <1>1, BoundedGiven
<1>3. LintGas(req) = LintUnits(req.code) /\ LintGas(req) \in Nat /\ req.ceiling \in Nat
  BY LintGasNat DEF LintGas
<1>4. CASE v = "valid"
  <2>1. job' = [at |-> "harness", req |-> req, gas |-> LintGas(req)] /\ answer' = NoAnswer
    BY <1>3, <1>4 DEF Judge
  <2>2. job' \in HarnessJobs /\ job' \notin CompileJobs
    BY <2>1 DEF HarnessJobs, CompileJobs
  <2>3. Admitted(req, LintGas(req))
    BY <1>2, <1>3, <1>4 DEF Admitted
  <2> QED BY <2>1, <2>2, <2>3 DEF JobInv, CachesInvisible, NoAnswer, Idle
<1>5. CASE v # "valid"
  <2>1. answer' = [req |-> req, status |-> v, gas |-> LintGas(req)] /\ job' = Idle
    BY <1>3, <1>5 DEF Judge, Refuse
  <2>2. ~(LintUnits(req.code) > req.ceiling)
    BY <1>3
  <2>3. Bounded(req.code, req.era.lint) => answer' = Fresh(req)
    BY <1>2, <1>5, <2>1, <2>2 DEF Fresh, LintGas
  <2> QED BY <2>1, <2>3 DEF JobInv, CachesInvisible, Idle, CompileJobs
<1> QED BY <1>4, <1>5

\* Every look-up, eviction and fill keeps the entries those of their keys.
LEMMA NextIInv == IInv /\ [Next]_vars => IInv'
<1> SUFFICES ASSUME IInv, [Next]_vars PROVE IInv'
  OBVIOUS
<1> USE DEF IInv
<1>1. ASSUME NEW req \in Requests, Execute(req) PROVE IInv'
  <2>0. /\ req.code \in Codes /\ req.era.lint \in SUBSET LintFlags
        /\ LintGas(req) \in Nat /\ req.ceiling \in Nat
    BY CachesAssumption, LintGasNat DEF Requests
  <2>1. CASE Unlinted(req)
    <3>1. /\ job' = [at |-> "harness", req |-> req, gas |-> LintGas(req)]
          /\ answer' = NoAnswer /\ UNCHANGED caches
      BY <2>1 DEF Unlinted, LintGas
    <3>2. job' \in HarnessJobs /\ job' \notin CompileJobs
      BY <3>1 DEF HarnessJobs, CompileJobs
    <3>3. Admitted(req, LintGas(req))
      BY <2>0, <2>1 DEF Admitted, Unlinted, LintGas
    <3>4. JobInv' /\ CachesInvisible'
      BY <3>1, <3>2, <3>3 DEF JobInv, CachesInvisible, NoAnswer, Idle
    <3> QED BY <3>1, <3>4 DEF PersistentInv, CompiledInv, caches, blockVars
  <2>2. CASE OutOfGas(req)
    <3>1. answer' = [req |-> req, status |-> "out_of_gas", gas |-> req.ceiling]
      BY <2>2 DEF OutOfGas, Refuse
    <3>2. answer' = Fresh(req)
      BY <2>2, <3>1 DEF OutOfGas, Fresh
    <3>3. job' = Idle /\ UNCHANGED caches
      BY <2>2 DEF OutOfGas, Refuse
    <3>4. JobInv'
      BY <3>3, IdleJob
    <3>5. answer'.req = req
      BY <3>1
    <3>6. CachesInvisible'
      BY <3>2, <3>5 DEF CachesInvisible
    <3> QED BY <3>3, <3>4, <3>6 DEF PersistentInv, CompiledInv, caches, blockVars
  <2>3. CASE LintHit(req, LintUnits(req.code)) /\ Linted(req)
    <3>1. Get(lintVerdictCache, LintKey(req.code, req.era.lint)) \in Given(req.code, req.era.lint)
      BY <2>0, <2>3, LintGet DEF LintHit
    <3>2. JobInv' /\ CachesInvisible'
      BY <2>3, <3>1, JudgeSound DEF LintHit, Linted
    <3> QED BY <2>3, <3>2 DEF LintHit, PersistentInv, CompiledInv, caches, blockVars
  <2>4. CASE LintMiss(req, LintUnits(req.code)) /\ Linted(req)
    <3>1. PICK v \in Given(req.code, req.era.lint) :
            /\ lintVerdictCache' = Remember(lintVerdictCache, LintKey(req.code, req.era.lint), v)
            /\ Judge(req, v, LintUnits(req.code))
      BY <2>4 DEF LintMiss, Given
    <3>2. JobInv' /\ CachesInvisible'
      BY <2>4, <3>1, JudgeSound DEF Linted
    <3>3. [key |-> LintKey(req.code, req.era.lint), value |-> v] \in LintEntries
      BY <2>0 DEF LintEntries, EntriesOf
    <3>4. lintVerdictCache' \in Seq(LintEntries)
      BY <3>1, <3>3, RememberSeq DEF PersistentInv
    <3> QED BY <2>4, <3>2, <3>4 DEF LintMiss, PersistentInv, CompiledInv, blockVars
  <2> QED BY <1>1, <2>1, <2>2, <2>3, <2>4 DEF Execute, Linted
<1>2. ASSUME NEW req \in Requests, HostFails(req) PROVE IInv'
  BY <1>2 DEF HostFails, Refuse, PersistentInv, CompiledInv, caches, blockVars, JobInv,
              CachesInvisible, Idle, CompileJobs
<1>3. ASSUME CompileHarness PROVE IInv'
  <2>1. PICK r \in Requests : job = [at |-> "harness", req |-> r, gas |-> LintGas(r)]
    BY <1>3 DEF CompileHarness, JobInv, Idle, HarnessJobs, MeterJobs, CompileJobs
  <2>2. job # Idle /\ job.req = r /\ job.gas = LintGas(r) /\ job.req.era.mask = r.era.mask
    BY <2>1 DEF Idle
  <2>3. job' = [at |-> "meter", req |-> r, gas |-> LintGas(r), harness |-> r.era.mask]
    BY <1>3, <2>1, <2>2 DEF CompileHarness, compileScript, CompiledInv
  <2>4. \A m \in DOMAIN harnessCache' : harnessCache'[m] = m
    BY <1>3, <2>1, <2>2 DEF CompileHarness, CompiledInv
  <2>5. JobInv'
    BY <2>2, <2>3 DEF JobInv, MeterJobs, CompileJobs, Idle
  <2> QED BY <1>3, <2>4, <2>5 DEF CompileHarness, PersistentInv, CompiledInv, CachesInvisible, blockVars
<1>4. ASSUME Meter PROVE IInv'
  <2>1. PICK r \in Requests :
          job = [at |-> "meter", req |-> r, gas |-> LintGas(r), harness |-> r.era.mask]
    <3>1. job \in MeterJobs
      BY <1>4, JobStages DEF Meter, JobInv
    <3> QED BY <3>1 DEF MeterJobs
  <2>2. /\ job # Idle /\ job.req = r /\ job.gas = LintGas(r) /\ job.harness = r.era.mask
        /\ Admitted(r, LintGas(r))
    BY <2>1 DEF Idle, JobInv
  <2>3. r.code \in Codes /\ r.era.meter \in SUBSET MeterFlags
    BY CachesAssumption DEF Requests
  <2> DEFINE key   == MeterKey(r.code, r.era.meter)
             fresh == meterCode(r.code, r.era.meter)
             metered == [at |-> "compile", req |-> r, gas |-> LintGas(r),
                         harness |-> r.era.mask, metered |-> fresh]
  <2>4. ASSUME r.code.parses, job' = metered PROVE JobInv'
    BY <2>2, <2>4 DEF JobInv, CompileJobs, Idle
  <2>5. CASE Has(meteredCache, key)
    <3>1. Get(meteredCache, key) = fresh /\ r.code.parses
      BY <2>3, <2>5, MeterGet
    <3>2. job' = metered /\ UNCHANGED <<meteredCache, answer>>
      BY <1>4, <2>2, <2>5, <3>1 DEF Meter
    <3> QED BY <1>4, <2>4, <3>1, <3>2 DEF Meter, PersistentInv, CompiledInv, CachesInvisible, blockVars
  <2>6. CASE ~Has(meteredCache, key) /\ r.code.parses
    <3>1. job' = metered /\ meteredCache' = Remember(meteredCache, key, fresh) /\ UNCHANGED answer
      BY <1>4, <2>2, <2>6 DEF Meter
    <3>2. [key |-> key, value |-> fresh] \in MeterEntries
      BY <2>3, <2>6 DEF MeterEntries
    <3>3. meteredCache' \in Seq(MeterEntries)
      BY <3>1, <3>2, RememberSeq DEF PersistentInv
    <3> QED BY <1>4, <2>4, <2>6, <3>1, <3>3 DEF Meter, PersistentInv, CompiledInv, CachesInvisible, blockVars
  <2>7. CASE ~Has(meteredCache, key) /\ ~r.code.parses
    <3>1. /\ answer' = [req |-> r, status |-> "metering failed", gas |-> LintGas(r)]
          /\ job' = Idle /\ UNCHANGED meteredCache
      BY <1>4, <2>2, <2>7 DEF Meter, Refuse
    <3>2. LintGas(r) \in Nat /\ r.ceiling \in Nat
      BY LintGasNat
    <3>3. /\ ~(LintGas(r) > r.ceiling)
          /\ Bounded(r.code, r.era.lint) /\ r.era.execLint =>
               validateSyntax(r.code, r.era.lint) = "valid"
      BY <2>2, <3>2 DEF Admitted
    <3>4. Bounded(r.code, r.era.lint) => answer' = Fresh(r)
      BY <2>7, <3>1, <3>3 DEF Fresh, LintGas
    <3>5. JobInv'
      BY <3>1, IdleJob
    <3> QED BY <1>4, <3>1, <3>4, <3>5 DEF Meter, PersistentInv, CompiledInv, CachesInvisible, blockVars
  <2> QED BY <2>5, <2>6, <2>7
<1>5. ASSUME Compile PROVE IInv'
  <2>1. PICK r \in Requests :
          job = [at |-> "compile", req |-> r, gas |-> LintGas(r), harness |-> r.era.mask,
                 metered |-> meterCode(r.code, r.era.meter)]
    BY <1>5 DEF Compile, JobInv, Idle, HarnessJobs, MeterJobs, CompileJobs
  <2>2. /\ job # Idle /\ job.req = r /\ job.gas = LintGas(r) /\ job.harness = r.era.mask
        /\ job.metered = meterCode(r.code, r.era.meter)
        /\ Admitted(r, LintGas(r)) /\ r.code.parses
    BY <2>1 DEF Idle, JobInv, CompileJobs
  <2> DEFINE full == buildContractSource(meterCode(r.code, r.era.meter), r)
  <2>3. /\ answer' = [req |-> r, status |-> "ran", gas |-> LintGas(r),
                      script |-> full, harness |-> r.era.mask]
        /\ job' = Idle
    BY <1>5, <2>2 DEF Compile, compileScript, CompiledInv, BlockKey
  <2>4. \A k \in DOMAIN blockCache' : blockCache'[k] \subseteq {k}
    BY <1>5, <2>2 DEF Compile, CompiledInv, BlockKey
  <2>5. LintGas(r) \in Nat /\ r.ceiling \in Nat
    BY LintGasNat
  <2>6. Bounded(r.code, r.era.lint) => answer' = Fresh(r)
    BY <2>2, <2>3, <2>5 DEF Fresh, Admitted, LintGas
  <2> QED BY <1>5, <2>3, <2>4, <2>6 DEF Compile, PersistentInv, CompiledInv, CachesInvisible,
                                        JobInv, Idle, CompileJobs
<1>6. ASSUME beginBlock \/ endBlock PROVE IInv'
  <2>1. /\ blockCache' = <<>>
        /\ UNCHANGED <<lintVerdictCache, meteredCache, harnessCache, job, answer>>
    BY <1>6 DEF beginBlock, endBlock
  <2>2. CompiledInv'
    BY <2>1, EmptyCompiled
  <2> QED BY <2>1, <2>2 DEF PersistentInv, JobInv, CachesInvisible
<1>7. ASSUME Restart PROVE IInv'
  <2>1. CompiledInv'
    BY <1>7, EmptyCompiled DEF Restart
  <2>2. JobInv'
    BY <1>7, IdleJob DEF Restart
  <2>3. PersistentInv'
    BY <1>7 DEF Restart, PersistentInv
  <2>4. CachesInvisible'
    BY <1>7 DEF Restart, CachesInvisible, NoAnswer
  <2> QED BY <2>1, <2>2, <2>3, <2>4
<1>8. ASSUME UNCHANGED vars PROVE IInv'
  BY <1>8 DEF vars, caches, blockVars, PersistentInv, CompiledInv, JobInv, CachesInvisible
<1> QED BY <1>1, <1>2, <1>3, <1>4, <1>5, <1>6, <1>7, <1>8 DEF Next

\* The caches of execute() hold what their own keys give, and the execution under
\* way carries what a cold node would have computed.
THEOREM IInvHolds == Spec => []IInv
<1>1. Init => IInv
  BY InitIInv
<1>2. IInv /\ [Next]_vars => IInv'
  BY NextIInv
<1> QED BY <1>1, <1>2, PTL DEF Spec

\* Caching in execute() is invisible: every execution of a bounded source
\* settles as on a node with no caches, whatever the caches' sizes.
THEOREM CachesInvisibleHolds == Spec => []CachesInvisible
<1>1. IInv => CachesInvisible
  BY DEF IInv
<1> QED BY <1>1, IInvHolds, PTL

\* Every entry of the two persistent caches is what a fresh call of
\* getLintVerdict or getMeteredCode would answer for its key.
THEOREM CachesSoundHolds == Spec => []CachesSound
<1>1. ASSUME IInv PROVE CachesSound
  <2>1. ASSUME NEW i \in DOMAIN lintVerdictCache,
               Bounded(lintVerdictCache[i].key[1], lintVerdictCache[i].key[2])
        PROVE  lintVerdictCache[i].value =
                 validateSyntax(lintVerdictCache[i].key[1], lintVerdictCache[i].key[2])
    <3>1. lintVerdictCache[i] \in LintEntries
      BY <1>1, <2>1 DEF IInv, PersistentInv
    <3>2. PICK d \in Codes, g \in SUBSET LintFlags :
            \E v \in Given(d, g) : lintVerdictCache[i] = [key |-> LintKey(d, g), value |-> v]
      BY <3>1, LintEntry
    <3>3. lintVerdictCache[i].key[1] = d /\ lintVerdictCache[i].key[2] = g
      BY <3>2 DEF LintKey
    <3> QED BY <2>1, <3>2, <3>3, BoundedGiven
  <2>2. ASSUME NEW i \in DOMAIN meteredCache
        PROVE  meteredCache[i].value = meterCode(meteredCache[i].key[1], meteredCache[i].key[2])
    <3>1. meteredCache[i] \in MeterEntries
      BY <1>1, <2>2 DEF IInv, PersistentInv
    <3> QED BY <3>1 DEF MeterEntries, MeterKey
  <2> QED BY <2>1, <2>2 DEF CachesSound
<1> QED BY <1>1, IInvHolds, PTL
-------------------------------------------------------------------------------
(***************************************************************************)
(* The bounds.                                                             *)
(***************************************************************************)
BoundInv == CachesBounded /\ IsFiniteSet(DOMAIN blockCache)

\* Evicting the oldest entry before adding one keeps a cache within its bound.
LEMMA RememberBounded ==
  ASSUME NEW S, NEW cache \in Seq(S), NEW e \in S, NEW key, NEW value,
         e = [key |-> key, value |-> value], Len(cache) <= FifoBound
  PROVE  Len(Remember(cache, key, value)) <= FifoBound
<1>1. maxMeteredCacheSize \in Int
  BY CachesAssumption
<1>2. CASE Len(cache) >= maxMeteredCacheSize /\ cache # <<>>
  <2>1. Remember(cache, key, value) = Append(Tail(cache), e)
    BY <1>2 DEF Remember
  <2>2. Tail(cache) \in Seq(S) /\ Len(Tail(cache)) = Len(cache) - 1
    BY <1>2
  <2>3. Len(Append(Tail(cache), e)) = Len(Tail(cache)) + 1
    BY <2>2
  <2> QED BY <2>1, <2>2, <2>3
<1>3. CASE Len(cache) < maxMeteredCacheSize \/ cache = <<>>
  <2>1. Remember(cache, key, value) = Append(cache, e)
    BY <1>1, <1>3 DEF Remember
  <2>2. Len(Append(cache, e)) = Len(cache) + 1 /\ Len(cache) \in Nat
    OBVIOUS
  <2>3. Len(cache) + 1 <= FifoBound
    BY <1>1, <1>3, <2>2 DEF FifoBound
  <2> QED BY <2>1, <2>2, <2>3
<1> QED BY <1>1, <1>2, <1>3

\* The caches start empty.
LEMMA InitBound == Init => BoundInv
<1> SUFFICES ASSUME Init PROVE BoundInv
  OBVIOUS
<1>1. DOMAIN blockCache = {} /\ Len(lintVerdictCache) = 0 /\ Len(meteredCache) = 0
  BY DEF Init
<1>2. IsFiniteSet({}) /\ Cardinality({}) = 0
  BY FS_EmptySet
<1> QED BY <1>1, <1>2, CachesAssumption DEF BoundInv, CachesBounded, FifoBound

\* No step of an execution or of a block boundary exceeds a bound.
LEMMA NextBound == IInv /\ BoundInv /\ [Next]_vars => BoundInv'
<1> SUFFICES ASSUME IInv, BoundInv, [Next]_vars PROVE BoundInv'
  OBVIOUS
<1>0. maxBlockCacheSize \in Nat
  BY CachesAssumption
<1>1. ASSUME UNCHANGED <<lintVerdictCache, meteredCache, blockCache>> PROVE BoundInv'
  BY <1>1 DEF BoundInv, CachesBounded
<1>2. ASSUME blockCache' = <<>>,
             UNCHANGED <<lintVerdictCache, meteredCache>> \/
               (lintVerdictCache' = <<>> /\ meteredCache' = <<>>)
      PROVE  BoundInv'
  <2>1. DOMAIN blockCache' = {}
    BY <1>2
  <2>2. IsFiniteSet({}) /\ Cardinality({}) = 0
    BY FS_EmptySet
  <2>3. Len(lintVerdictCache') <= FifoBound /\ Len(meteredCache') <= FifoBound
    BY <1>2, CachesAssumption DEF BoundInv, CachesBounded, FifoBound
  <2> QED BY <1>0, <2>1, <2>2, <2>3 DEF BoundInv, CachesBounded
<1>3. ASSUME NEW req \in Requests, LintMiss(req, LintUnits(req.code)) PROVE BoundInv'
  <2>1. PICK v \in Given(req.code, req.era.lint) :
          lintVerdictCache' = Remember(lintVerdictCache, LintKey(req.code, req.era.lint), v)
    BY <1>3 DEF LintMiss, Given
  <2>2. req.code \in Codes /\ req.era.lint \in SUBSET LintFlags
    BY CachesAssumption DEF Requests
  <2>3. [key |-> LintKey(req.code, req.era.lint), value |-> v] \in LintEntries
    BY <2>2 DEF LintEntries, EntriesOf
  <2>4. Len(lintVerdictCache') <= FifoBound
    BY <2>1, <2>3, RememberBounded DEF IInv, PersistentInv, BoundInv, CachesBounded
  <2> QED BY <1>3, <2>4 DEF LintMiss, BoundInv, CachesBounded, blockVars
<1>4. ASSUME Meter PROVE BoundInv'
  <2>1. CASE UNCHANGED meteredCache
    BY <1>1, <1>4, <2>1 DEF Meter, blockVars
  <2>2. CASE ~UNCHANGED meteredCache
    <3>1. job \in MeterJobs
      BY <1>4, JobStages DEF Meter, IInv, JobInv
    <3>2. PICK r \in Requests :
            job = [at |-> "meter", req |-> r, gas |-> LintGas(r), harness |-> r.era.mask]
      BY <3>1 DEF MeterJobs
    <3>3. r.code \in Codes /\ r.era.meter \in SUBSET MeterFlags /\ job.req = r
      BY <3>2, CachesAssumption DEF Requests
    <3> DEFINE key   == MeterKey(r.code, r.era.meter)
               fresh == meterCode(r.code, r.era.meter)
    <3>4. meteredCache' = Remember(meteredCache, key, fresh) /\ r.code.parses
      BY <1>4, <2>2, <3>3 DEF Meter
    <3>5. [key |-> key, value |-> fresh] \in MeterEntries
      BY <3>3, <3>4 DEF MeterEntries
    <3>6. Len(meteredCache') <= FifoBound
      BY <3>4, <3>5, RememberBounded DEF IInv, PersistentInv, BoundInv, CachesBounded
    <3> QED BY <1>4, <3>6 DEF Meter, BoundInv, CachesBounded, blockVars
  <2> QED BY <2>1, <2>2
<1>5. ASSUME Compile PROVE BoundInv'
  <2>1. CASE UNCHANGED blockCache
    BY <1>1, <1>5, <2>1 DEF Compile
  <2>2. CASE ~UNCHANGED blockCache
    <3>1. BlockRoom /\ \E key : DOMAIN blockCache' = DOMAIN blockCache \cup {key}
      BY <1>5, <2>2 DEF Compile
    <3>2. PICK key : DOMAIN blockCache' = DOMAIN blockCache \cup {key}
      BY <3>1
    <3> DEFINE D == DOMAIN blockCache
    <3>a. IsFiniteSet(D)
      BY DEF BoundInv
    <3> HIDE DEF D
    <3>b. IsFiniteSet(D \cup {key}) /\ (\/ Cardinality(D \cup {key}) = Cardinality(D)
                                         \/ Cardinality(D \cup {key}) = Cardinality(D) + 1)
      BY <3>a, FS_AddElement
    <3>c. Cardinality(D) \in Nat
      BY <3>a, FS_CardinalityType
    <3>3. /\ IsFiniteSet(DOMAIN blockCache')
          /\ Cardinality(DOMAIN blockCache') <= Cardinality(DOMAIN blockCache) + 1
          /\ Cardinality(DOMAIN blockCache) \in Nat
          /\ Cardinality(DOMAIN blockCache') \in Nat
      <4>1. DOMAIN blockCache' = D \cup {key}
        BY <3>2 DEF D
      <4>2. Cardinality(D \cup {key}) <= Cardinality(D) + 1 /\ Cardinality(D \cup {key}) \in Nat
        BY <3>b, <3>c
      <4>3. D = DOMAIN blockCache
        BY DEF D
      <4> QED BY <3>b, <3>c, <4>1, <4>2, <4>3
    <3>4. Cardinality(DOMAIN blockCache') <= maxBlockCacheSize
      BY <1>0, <3>1, <3>3 DEF BlockRoom
    <3> QED BY <1>5, <3>3, <3>4 DEF Compile, BoundInv, CachesBounded
  <2> QED BY <2>1, <2>2
<1>6. ASSUME NEW req \in Requests, Execute(req) PROVE BoundInv'
  BY <1>1, <1>3, <1>6 DEF Execute, Unlinted, OutOfGas, Linted, LintHit, caches, blockVars
<1>7. ASSUME NEW req \in Requests, HostFails(req) PROVE BoundInv'
  BY <1>1, <1>7 DEF HostFails, caches, blockVars
<1>8. ASSUME CompileHarness PROVE BoundInv'
  BY <1>1, <1>8 DEF CompileHarness, blockVars
<1>9. ASSUME beginBlock \/ endBlock \/ Restart PROVE BoundInv'
  BY <1>2, <1>9 DEF beginBlock, endBlock, Restart
<1>10. ASSUME UNCHANGED vars PROVE BoundInv'
  BY <1>1, <1>10 DEF vars, caches, blockVars
<1> QED BY <1>4, <1>5, <1>6, <1>7, <1>8, <1>9, <1>10 DEF Next

\* No cache of the virtual machine outgrows its limit, however long it runs.
THEOREM CachesBoundedHolds == Spec => []CachesBounded
<1>1. Init => BoundInv
  BY InitBound
<1>2. IInv /\ BoundInv /\ [Next]_vars => BoundInv'
  BY NextBound
<1>3. BoundInv => CachesBounded
  BY DEF BoundInv
<1> QED BY <1>1, <1>2, <1>3, IInvHolds, PTL DEF Spec
===============================================================================
