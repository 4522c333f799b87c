---------------------------- MODULE ExecutionProofs ---------------------------
(***************************************************************************)
(* Proofs about Execution and the state it writes: what a run is billed,   *)
(* when it may commit and what its overlay holds, for every gas schedule,  *)
(* ceiling, contract, gate setting and limit.                              *)
(***************************************************************************)
EXTENDS Execution, FiniteSetTheorems, ListLemmas

(***************************************************************************)
(* Sums of sequences of amounts.                                           *)
(***************************************************************************)
\* The running sums of the first n amounts.
Sums(g, amounts, n) ==
    /\ g \in [0 .. n -> Nat]
    /\ g[0] = 0
    /\ \A k \in 1 .. n : g[k] = g[k - 1] + amounts[k]

\* Every sequence of amounts has running sums.
LEMMA SumsExist ==
    ASSUME NEW amounts \in Seq(Nat), NEW n \in 0 .. Len(amounts)
    PROVE  \E g : Sums(g, amounts, n)
<1>0. Len(amounts) \in Nat /\ \A k \in 1 .. Len(amounts) : amounts[k] \in Nat
  BY LenProperties, ElementOfSeq
<1> DEFINE T == {m \in 0 .. Len(amounts) : ~ \E g : Sums(g, amounts, m)}
<1> SUFFICES ASSUME T # {} PROVE FALSE
  OBVIOUS
<1>1. PICK m \in T : \A y \in T : m <= y
  <2>1. T \subseteq Nat
    BY <1>0
  <2> HIDE DEF T
  <2> QED BY <2>1, LeastNumber
<1>2. m \in Nat /\ m \in 0 .. Len(amounts)
  BY <1>0
<1>3. CASE m = 0
  <2>1. Sums([k \in 0 .. 0 |-> 0], amounts, 0)
    BY DEF Sums
  <2> QED BY <1>3, <2>1
<1>4. CASE m > 0
  <2>1. m - 1 \in 0 .. Len(amounts) /\ ~(m <= m - 1)
    BY <1>0, <1>2, <1>4
  <2>2. m - 1 \notin T
    BY <1>1, <2>1
  <2>3. PICK g : Sums(g, amounts, m - 1)
    BY <2>1, <2>2
  <2> DEFINE h == [k \in 0 .. m |-> IF k < m THEN g[k] ELSE g[m - 1] + amounts[m]]
  <2>4. \A k \in 0 .. m - 1 : g[k] \in Nat
    BY <2>3 DEF Sums
  <2>5. amounts[m] \in Nat /\ m - 1 \in 0 .. m - 1
    BY <1>0, <1>2, <1>4
  <2>6. h \in [0 .. m -> Nat] /\ h[0] = 0
    <3>1. ASSUME NEW k \in 0 .. m PROVE h[k] \in Nat
      <4>1. CASE k < m
        <5>1. k \in 0 .. m - 1 /\ h[k] = g[k]
          BY <1>2, <4>1
        <5> QED BY <2>4, <5>1
      <4>2. CASE ~(k < m)
        <5>1. h[k] = g[m - 1] + amounts[m] /\ g[m - 1] \in Nat
          BY <2>4, <2>5, <4>2
        <5> QED BY <2>5, <5>1
      <4> QED BY <4>1, <4>2
    <3>2. h[0] = 0
      BY <1>2, <1>4, <2>3 DEF Sums
    <3> QED BY <3>1, <3>2
  <2>7. ASSUME NEW k \in 1 .. m PROVE h[k] = h[k - 1] + amounts[k]
    <3>1. CASE k < m
      <4>1. k \in 1 .. m - 1 /\ k - 1 \in 0 .. m /\ k \in 0 .. m /\ k - 1 < m
        BY <1>2, <2>7, <3>1
      <4>2. g[k] = g[k - 1] + amounts[k]
        BY <2>3, <4>1 DEF Sums
      <4> QED BY <3>1, <4>1, <4>2
    <3>2. CASE k = m
      <4>1. k - 1 \in 0 .. m /\ k - 1 < m /\ m \in 0 .. m
        BY <1>2, <1>4, <3>2
      <4> QED BY <3>2, <4>1
    <3> QED BY <1>2, <3>1, <3>2
  <2> HIDE DEF h
  <2>8. Sums(h, amounts, m)
    BY <2>6, <2>7 DEF Sums
  <2> QED BY <2>8
<1> QED BY <1>2, <1>3, <1>4

\* Total is the last of the running sums.
LEMMA TotalIsSum ==
    ASSUME NEW amounts \in Seq(Nat), NEW g, Sums(g, amounts, Len(amounts))
    PROVE  Total(amounts) = g[Len(amounts)]
<1> DEFINE N == Len(amounts)
           F(f) == [n \in 0 .. N |-> IF n = 0 THEN 0 ELSE f[n - 1] + amounts[n]]
           u == CHOOSE f : f = F(f)
<1>0. N \in Nat /\ \A k \in 1 .. N : amounts[k] \in Nat
  BY LenProperties, ElementOfSeq
<1>1. Total(amounts) = u[N]
  BY DEF Total
<1>2. g = F(g)
  <2>1. ASSUME NEW n \in 0 .. N PROVE g[n] = F(g)[n]
    <3>1. CASE n = 0
      BY <3>1 DEF Sums
    <3>2. CASE n # 0
      <4>1. n \in 1 .. N
        BY <1>0, <3>2
      <4>2. g[n] = g[n - 1] + amounts[n]
        BY <4>1 DEF Sums
      <4> QED BY <3>2, <4>2
    <3> QED BY <3>1, <3>2
  <2> QED BY <2>1 DEF Sums
<1>3. u = F(u)
  <2> HIDE DEF F
  <2> QED BY <1>2
<1> HIDE DEF u, N
<1>4. \A n \in 0 .. N : u[n] = IF n = 0 THEN 0 ELSE u[n - 1] + amounts[n]
  BY <1>3
<1> DEFINE T == {n \in 0 .. N : u[n] # g[n]}
<1>5. T = {}
  <2> SUFFICES ASSUME T # {} PROVE FALSE
    OBVIOUS
  <2>1. PICK m \in T : \A y \in T : m <= y
    <3>1. T \subseteq Nat
      BY <1>0
    <3> HIDE DEF T
    <3> QED BY <3>1, LeastNumber
  <2>2. m \in 0 .. N /\ u[m] # g[m] /\ m # 0
    BY <1>4 DEF Sums
  <2>3. m - 1 \in 0 .. N /\ ~(m <= m - 1) /\ m \in 1 .. N
    BY <1>0, <2>2
  <2>4. u[m - 1] = g[m - 1]
    BY <2>1, <2>3
  <2>5. g[m] = g[m - 1] + amounts[m]
    BY <2>3 DEF Sums, N
  <2>6. u[m] = u[m - 1] + amounts[m]
    BY <1>4, <2>2
  <2> QED BY <2>2, <2>4, <2>5, <2>6
<1>6. N \in 0 .. N
  BY <1>0
<1>7. u[N] = g[N]
  BY <1>5, <1>6
<1> QED BY <1>1, <1>7 DEF N
\* One more amount adds to the total, and there is nothing in the empty sequence.
LEMMA TotalOfAppend ==
    ASSUME NEW amounts \in Seq(Nat), NEW x \in Nat
    PROVE  /\ Total(amounts) \in Nat
           /\ Total(Append(amounts, x)) = Total(amounts) + x
<1> DEFINE N == Len(amounts)
           more == Append(amounts, x)
<1>0. /\ N \in Nat /\ more \in Seq(Nat) /\ Len(more) = N + 1
      /\ \A k \in 1 .. N : more[k] = amounts[k]
      /\ more[N + 1] = x
  BY LenProperties, AppendOf
<1>1. N + 1 \in 0 .. Len(more) /\ N + 1 \in 1 .. N + 1
  BY <1>0
<1> HIDE DEF more
<1>2. PICK g : Sums(g, more, N + 1)
  BY <1>0, <1>1, SumsExist
<1> DEFINE f == [k \in 0 .. N |-> g[k]]
<1>3. Sums(f, amounts, N)
  <2>1. f \in [0 .. N -> Nat] /\ f[0] = 0
    BY <1>0, <1>2 DEF Sums
  <2>2. ASSUME NEW k \in 1 .. N PROVE f[k] = f[k - 1] + amounts[k]
    <3>1. k \in 1 .. N + 1 /\ k \in 0 .. N /\ k - 1 \in 0 .. N
      BY <1>0
    <3>2. g[k] = g[k - 1] + more[k]
      BY <1>2, <3>1 DEF Sums
    <3> QED BY <1>0, <3>1, <3>2
  <2> HIDE DEF f
  <2> QED BY <2>1, <2>2 DEF Sums
<1>4. Total(amounts) = f[N]
  <2> HIDE DEF f
  <2> QED BY <1>3, TotalIsSum
<1>5. Total(more) = g[N + 1]
  BY <1>0, <1>2, TotalIsSum
<1>6. f[N] = g[N] /\ g[N] \in Nat /\ g[N + 1] = g[N] + more[N + 1]
  <2>1. (N + 1) - 1 = N /\ N \in 0 .. N /\ N \in 0 .. N + 1
    BY <1>0
  <2>2. g[N + 1] = g[(N + 1) - 1] + more[N + 1]
    BY <1>1, <1>2 DEF Sums
  <2>3. g[N] \in Nat
    BY <1>2, <2>1 DEF Sums
  <2> QED BY <2>1, <2>2, <2>3
<1> QED BY <1>0, <1>4, <1>5, <1>6 DEF more

\* Nothing adds up to nothing.
LEMMA TotalOfNothing == Total(<< >>) = 0
<1>1. Sums([k \in 0 .. 0 |-> 0], << >>, Len(<< >>)) /\ << >> \in Seq(Nat)
  BY DEF Sums
<1>2. Total(<< >>) = [k \in 0 .. 0 |-> 0][Len(<< >>)]
  BY <1>1, TotalIsSum
<1> QED BY <1>2

\* What a charge of at least d leaves room for.
LEMMA SumWithin ==
    ASSUME NEW r \in Nat, NEW u \in Nat, NEW c \in Nat, NEW d \in Nat, NEW n \in Nat,
           r <= u, n >= d, u + n <= c
    PROVE  r + d <= u + n /\ r + d <= c
OBVIOUS

\* A sum of numbers is a number.
LEMMA SumOf == ASSUME NEW a \in Nat, NEW b \in Nat PROVE a + b \in Nat
OBVIOUS
-------------------------------------------------------------------------------
\* The flag is the comparison: used only grows and the flag is never reset.
GasInv ==
    /\ ceiling \in Nat /\ used \in Nat
    /\ exhausted \in BOOLEAN
    /\ exhausted <=> used > ceiling

SetupPhases == {"entry", "linted", "setup", "meter", "compile"}

\* Nothing has been thrown, and nothing overspent, before the contract runs.
SetupInv ==
    phase \in SetupPhases =>
        used <= ceiling /\ machine = "none" /\ thrown = Nothing /\ ~poisoned

\* A fault of the machine is in flight until the classifier sees it: the guard's
\* because the poison throws it again at every catch, a native overflow until a
\* catch makes it an ordinary error, a kill because nothing runs after it.
FaultInv ==
    /\ phase = "running" => machine \in {"none", "guard", "native"}
    /\ phase \in {"running", "failed"} =>
         /\ poisoned => machine # "none" /\ machine # "native"
         /\ machine = "guard" =>
              poisoned /\ thrown = StackError /\ (gates.signal => stackFault)
         /\ machine = "native" => thrown = NativeOverflow /\ ~gates.native
         /\ machine = "clock" => thrown = TimeoutError /\ elapsed
         /\ machine = "memory" => thrown = MemoryError /\ isolate = "disposed"
    /\ machine \in {"none", "guard", "native", "clock", "memory"}

GatesInv ==
    /\ gates \in [GateNames -> BOOLEAN]
    /\ gates.signal => gates.native
    /\ phase \in SetupPhases \cup {"running", "failed", "done"}

VerdictInv ==
    Settled => BilledWithinCeiling /\ ExhaustedNeverCommits /\ ResourceFaultsBillCeiling

IInv == GasInv /\ SetupInv /\ FaultInv /\ GatesInv /\ VerdictInv

USE ExecutionAssumption, GasAssumption DEF GateNames

\* A charge of a natural number keeps the flag and the comparison together.
LEMMA ChargeKeepsGas ==
    ASSUME GasInv, NEW n \in Nat, charge(n)
    PROVE  GasInv' /\ used' >= used /\ ceiling' = ceiling
<1>1. used' = used + n /\ ceiling' = ceiling /\ exhausted' = (exhausted \/ used + n > ceiling)
  BY DEF charge, Exceeds
<1>2. used' \in Nat /\ ceiling' \in Nat /\ exhausted' \in BOOLEAN
  BY <1>1 DEF GasInv
<1>3. exhausted' <=> used' > ceiling'
  <2>1. CASE used > ceiling
    <3>1. exhausted /\ used + n > ceiling
      BY <2>1 DEF GasInv
    <3> QED BY <3>1, <1>1
  <2>2. CASE ~(used > ceiling)
    BY <2>2, <1>1 DEF GasInv
  <2> QED BY <2>1, <2>2
<1> QED BY <1>1, <1>2, <1>3 DEF GasInv

\* A run starts unbilled, unfaulted and at the entry of execute().
LEMMA InitIInv == Init => IInv
<1> SUFFICES ASSUME Init PROVE IInv
  OBVIOUS
<1>1. ceiling \in Nat \ {0}
  <2>1. PICK r \in Requests : ceiling = effectiveCeiling(r, GasCeiling)
    BY DEF Init, GasInit
  <2> QED BY <2>1 DEF effectiveCeiling
<1>2. GasInv
  <2>1. used = 0 /\ exhausted = FALSE
    BY DEF Init, GasInit
  <2>2. ~(used > ceiling)
    BY <1>1, <2>1
  <2> QED BY <1>1, <2>1, <2>2 DEF GasInv
<1>3. SetupInv /\ FaultInv /\ GatesInv /\ VerdictInv
  BY <1>1 DEF Init, GasInit, SetupInv, SetupPhases, FaultInv, GatesInv, VerdictInv, Settled
<1> QED BY <1>2, <1>3 DEF IInv

-------------------------------------------------------------------------------
\* No error is in flight, so no fault of the machine is.
LEMMA RunningIsClean ==
    ASSUME IInv, Running
    PROVE  machine = "none" /\ ~poisoned /\ phase = "running"
<1>1. StackError # Nothing /\ NativeOverflow # Nothing
  BY DEF StackError, NativeOverflow, Nothing, AnError
<1> QED BY <1>1 DEF IInv, FaultInv, Running

\* What the contract does while no error is in flight.
LEMMA RunningStep ==
    ASSUME IInv, Running, Quiet, GasInv', UNCHANGED <<poisoned, machine>>
    PROVE  IInv'
<1>1. machine' = "none" /\ ~poisoned' /\ phase' = "running" /\ gates' = gates
  BY RunningIsClean DEF Quiet
<1>2. SetupInv' /\ VerdictInv' /\ FaultInv'
  BY <1>1 DEF SetupInv, SetupPhases, VerdictInv, Settled, FaultInv
<1>3. GatesInv'
  BY <1>1 DEF IInv, GatesInv
<1> QED BY <1>2, <1>3 DEF IInv

\* A step that settles a result the verdict invariant allows.
LEMMA SettleStep ==
    ASSUME IInv, GasInv', NEW r, Settle(r),
           ceiling' = ceiling,
           r.status \in Statuses /\ gates.ceilExhausted => r.gasUsed <= ceiling,
           used' > ceiling /\ (gates.ceilSuccess \/ gates.ceilExhausted) => r.status # "success",
           r.status \in Statuses /\ machine # "none" =>
               r.gasUsed = ceiling /\ r.status # "success"
    PROVE  IInv'
<1>1. phase' = "done" /\ result' = r /\ gates' = gates /\ machine' = machine
  BY DEF Settle, runVars
<1>2. SetupInv' /\ FaultInv'
  BY <1>1 DEF SetupInv, SetupPhases, FaultInv, IInv
<1>3. GatesInv'
  BY <1>1 DEF IInv, GatesInv
<1>4. VerdictInv'
  BY <1>1 DEF VerdictInv, Settled, Verdicts, BilledWithinCeiling, ExhaustedNeverCommits,
              ResourceFaultsBillCeiling
<1> QED BY <1>2, <1>3, <1>4 DEF IInv

\* A failed outcome of the set-up: it bills what the set-up has used.
LEMMA SetupFails ==
    ASSUME IInv, GasInv', machine = "none", ceiling' = ceiling,
           NEW status, status # "success",
           NEW g \in Nat, g <= ceiling, Settle(errorResult(status, g))
    PROVE  IInv'
<1> DEFINE r == errorResult(status, g)
<1>1. r.status = status /\ r.gasUsed = g
  BY DEF errorResult, NoResult
<1>2. Settle(r)
  OBVIOUS
<1> HIDE DEF r
<1> QED BY <1>1, <1>2, SettleStep

\* A step of the host from one phase of the set-up to the next.
LEMMA AdvanceStep ==
    ASSUME IInv, NEW from \in SetupPhases, NEW to \in SetupPhases \cup {"running"},
           Advance(from, to), GasInv', used' <= ceiling, ceiling' = ceiling
    PROVE  IInv'
<1>1. /\ phase' = to /\ phase = from
      /\ gates' = gates
      /\ machine' = machine /\ thrown' = thrown /\ poisoned' = poisoned
  BY DEF Advance, runVars
<1>2. machine = "none" /\ thrown = Nothing /\ ~poisoned
  BY <1>1 DEF IInv, SetupInv
<1>3. SetupInv' /\ FaultInv' /\ VerdictInv' /\ GatesInv'
  BY <1>1, <1>2 DEF SetupInv, SetupPhases, FaultInv, VerdictInv, Settled, GatesInv, IInv
<1> QED BY <1>3 DEF IInv

\* A step that leaves the tracker alone leaves its bookkeeping alone.
LEMMA SameGas == ASSUME GasInv, UNCHANGED gasVars
                 PROVE  GasInv' /\ used' = used /\ ceiling' = ceiling
BY DEF GasInv, gasVars

\* The size check, lint, set-up, metering and compilation, with every way they fail.
LEMMA SetupStep ==
    ASSUME IInv, RefuseCodeSize \/ Setup
    PROVE  IInv'
<1>0. GasInv /\ used \in Nat /\ ceiling \in Nat
  BY DEF IInv, GasInv
<1>1. phase \in SetupPhases => used <= ceiling /\ machine = "none"
  BY DEF IInv, SetupInv
<1>2. "hostfault" # "success" /\ OverflowStatus # "success"
        /\ HaltStatus("error") # "success" /\ HaltStatus("rejected") # "success"
  BY DEF OverflowStatus, HaltStatus
<1>3. ASSUME phase \in SetupPhases, UNCHANGED gasVars, NEW status, status # "success",
             Settle(errorResult(status, used))
      PROVE  IInv'
  BY <1>0, <1>1, <1>3, SameGas, SetupFails
<1>4. ASSUME UNCHANGED gasVars, NEW from \in SetupPhases,
             NEW to \in SetupPhases \cup {"running"}, Advance(from, to)
      PROVE  IInv'
  <2>1. phase = from
    BY <1>4 DEF Advance
  <2> QED BY <2>1, <1>0, <1>1, <1>4, SameGas, AdvanceStep
<1>5. CASE RefuseCodeSize
  BY <1>5, <1>3 DEF RefuseCodeSize, SettleError, SetupPhases
<1>6. CASE checkExecLint
  <2>1. phase = "entry" /\ charge(LintGas) /\ LintGas \in Nat
    BY <1>6 DEF checkExecLint
  <2>2. GasInv' /\ ceiling' = ceiling /\ used' = used + LintGas
    BY <2>1, <1>0, ChargeKeepsGas DEF charge
  <2>3. used <= ceiling /\ machine = "none"
    BY <2>1, <1>1 DEF SetupPhases
  <2>4. CASE Exceeds(LintGas)
    BY <2>4, <1>6, <1>0, <2>2, <2>3, SetupFails DEF checkExecLint
  <2>5. CASE ~Exceeds(LintGas)
    <3>1. used + LintGas \in Nat /\ used + LintGas <= ceiling
      BY <2>5, <2>1, <1>0 DEF Exceeds
    <3>2. CASE Advance("entry", "linted")
      BY <3>1, <3>2, <2>2, AdvanceStep DEF SetupPhases
    <3>3. ASSUME NEW status, status # "success", Settle(errorResult(status, used + LintGas))
          PROVE  IInv'
      BY <3>1, <3>3, <2>2, <2>3, SetupFails
    <3> QED BY <3>2, <3>3, <1>2, <1>6, <2>5 DEF checkExecLint, HostFails
  <2> QED BY <2>4, <2>5
<1>7. CASE SkipExecLint
  BY <1>7, <1>4 DEF SkipExecLint, SetupPhases
<1>8. CASE createIsolate
  BY <1>8, <1>2, <1>3, <1>4 DEF createIsolate, HostFails, SetupPhases
<1>9. CASE hostSetup
  BY <1>9, <1>2, <1>3, <1>4 DEF hostSetup, HostFails, SetupPhases
<1>10. CASE getMeteredCode
  BY <1>10, <1>2, <1>3, <1>4 DEF getMeteredCode, HostFails, SettleError, SetupPhases
<1>11. CASE compileWrapper
  BY <1>11, <1>2, <1>3, <1>4 DEF compileWrapper, HostFails, SetupPhases
<1> QED BY <1>5, <1>6, <1>7, <1>8, <1>9, <1>10, <1>11 DEF Setup

-------------------------------------------------------------------------------
\* Gateway calls, metered points and the contract's own throws.
LEMMA CallStep ==
    ASSUME IInv,
           \/ \E n \in ComputeUnits : Compute(n) \/ SwallowedCharge(n)
           \/ \E n \in HostReadGas : HostRead(n)
           \/ \E a \in Args : \/ Read(a) \/ StateDelete(a)
                             \/ \E v \in Values \cup Unstorable : StateSet(a, v)
           \/ \E ok \in BOOLEAN :
                 \/ request(ok)
                 \/ \E action \in PlainActions : Emit(action, ok)
                 \/ \E g \in CallLimits : execute(ok, g) \/ crossExecute(ok, g)
           \/ \E e \in ContractErrors : Throw(e)
           \/ log \/ revert
    PROVE  IInv'
<1>0. GasInv
  BY DEF IInv
<1>1. ASSUME Running, Quiet, UNCHANGED <<poisoned, machine>>, NEW n \in Nat, charge(n)
      PROVE  IInv'
  BY <1>0, <1>1, ChargeKeepsGas, RunningStep
<1>2. ASSUME Running, Quiet, UNCHANGED <<poisoned, machine>>, UNCHANGED gasVars
      PROVE  IInv'
  BY <1>0, <1>2, SameGas, RunningStep
<1> USE DEF Throws, Fails, Goes, runVars
<1>3. CASE \/ \E n \in ComputeUnits : Compute(n) \/ SwallowedCharge(n)
           \/ \E n \in HostReadGas : HostRead(n)
  BY <1>3, <1>1 DEF Compute, HostRead, Charged, SwallowedCharge
<1>4. CASE \E a \in Args : Read(a)
  BY <1>4, <1>1 DEF Read
<1>5. CASE \E a \in Args : StateDelete(a)
  BY <1>5, <1>1 DEF StateDelete
<1>6. CASE \E a \in Args, v \in Values \cup Unstorable : StateSet(a, v)
  BY <1>6, <1>1 DEF StateSet
<1>7. CASE \E ok \in BOOLEAN : request(ok)
  <2>1. PICK ok \in BOOLEAN : request(ok)
    BY <1>7
  <2>2. CASE Refused
    BY <2>1, <2>2, <1>2 DEF request, Refused
  <2>3. CASE ~Refused
    <3>1. Running /\ Quiet /\ UNCHANGED <<poisoned, machine>>
      BY <2>1, <2>3 DEF request
    <3>2. charge(AttestGas) \/ charge(AttestGas + EmissionGas)
      BY <2>1, <2>3 DEF request
    <3>3. AttestGas \in Nat /\ AttestGas + EmissionGas \in Nat
      OBVIOUS
    <3> QED BY <3>1, <3>2, <3>3, <1>1
  <2> QED BY <2>2, <2>3
<1>8. CASE \E ok \in BOOLEAN, action \in PlainActions : Emit(action, ok)
  BY <1>8, <1>1 DEF Emit
<1>9. ASSUME NEW action, NEW cost \in Nat, NEW reserves, Running, Prepaid(action, cost, reserves)
      PROVE  IInv'
  BY <1>9, <1>1 DEF Prepaid
<1>10. CASE \E ok \in BOOLEAN, g \in CallLimits : execute(ok, g)
  <2>1. PICK ok \in BOOLEAN, g \in CallLimits : execute(ok, g)
    BY <1>10
  <2>2. EmissionGas + g \in Nat
    OBVIOUS
  <2>3. Running /\ (Refused \/ Prepaid("EXECUTE", EmissionGas + g, g))
    BY <2>1 DEF execute
  <2> QED BY <2>2, <2>3, <1>9, <1>2 DEF Refused
<1>11. CASE \E ok \in BOOLEAN, g \in CallLimits : crossExecute(ok, g)
  <2>1. PICK ok \in BOOLEAN, g \in CallLimits : crossExecute(ok, g)
    BY <1>11
  <2>2. EmissionGas + XcallGas + g \in Nat
    OBVIOUS
  <2>3. Running /\ (Refused \/ Prepaid("XCALL", EmissionGas + XcallGas + g, g))
    BY <2>1 DEF crossExecute
  <2> QED BY <2>2, <2>3, <1>9, <1>2 DEF Refused
<1>12. CASE \E e \in ContractErrors : Throw(e)
  BY <1>12, <1>2 DEF Throw, Effects
<1>13. CASE log
  BY <1>13, <1>2 DEF log
<1>14. CASE revert
  BY <1>14, <1>2 DEF revert
<1> QED BY <1>3, <1>4, <1>5, <1>6, <1>7, <1>8, <1>10, <1>11, <1>12, <1>13, <1>14

\* Faults, and the errors on their way to the classifier.
LEMMA FaultStep ==
    ASSUME IInv, Machine \/ Catch \/ Uncaught
    PROVE  IInv'
<1>0. GasInv /\ FaultInv /\ GatesInv /\ phase \in {"running", "failed"}
  BY DEF IInv, Machine, Catch, Uncaught, depthGuard, nativeOverflow, TimePasses, wallClock,
         memoryLimit, Running
<1>1. ASSUME GasInv', FaultInv', gates' = gates, phase' \in {"running", "failed"}
      PROVE  IInv'
  BY <1>0, <1>1 DEF IInv, SetupInv, SetupPhases, GatesInv, VerdictInv, Settled
<1>2. ASSUME TripGuard, phase = "running" PROVE IInv'
  <2>1. GasInv' /\ gates' = gates /\ phase' = "running"
    BY <1>0, <1>2, SameGas DEF TripGuard, Effects
  <2>2. FaultInv'
    BY <1>0, <1>2 DEF TripGuard, FaultInv, GatesInv
  <2> QED BY <2>1, <2>2, <1>1
<1>3. CASE depthGuard
  BY <1>3, <1>2 DEF depthGuard, Running
<1>4. CASE nativeOverflow
  <2>1. CASE gates.native
    BY <1>4, <2>1, <1>2 DEF nativeOverflow, Running
  <2>2. CASE ~gates.native
    <3>1. GasInv' /\ gates' = gates /\ phase' = "running" /\ phase = "running"
      BY <1>0, <1>4, <2>2, SameGas DEF nativeOverflow, Effects, Quiet, Running
    <3>2. thrown' = NativeOverflow /\ machine' = "native" /\ poisoned' = poisoned /\ ~poisoned
      BY <1>4, <2>2, RunningIsClean DEF nativeOverflow
    <3>3. FaultInv'
      BY <2>2, <3>1, <3>2 DEF FaultInv
    <3> QED BY <3>1, <3>3, <1>1
  <2> QED BY <2>1, <2>2
<1>5. CASE TimePasses
  <2>1. GasInv' /\ gates' = gates /\ phase' = phase
    BY <1>0, <1>5, SameGas DEF TimePasses, Effects
  <2>2. FaultInv'
    BY <1>0, <1>5 DEF TimePasses, FaultInv, runVars
  <2> QED BY <2>1, <2>2, <1>0, <1>1
<1>6. CASE wallClock
  <2>1. GasInv' /\ gates' = gates /\ phase' = "failed"
    BY <1>0, <1>6, SameGas DEF wallClock, Killed, Effects
  <2>2. FaultInv'
    BY <1>0, <1>6 DEF wallClock, Killed, FaultInv
  <2> QED BY <2>1, <2>2, <1>1
<1>7. CASE memoryLimit
  <2>1. GasInv' /\ gates' = gates /\ phase' = "failed"
    BY <1>0, <1>7, SameGas DEF memoryLimit, Killed, Effects
  <2>2. FaultInv'
    BY <1>0, <1>7 DEF memoryLimit, Killed, FaultInv
  <2> QED BY <2>1, <2>2, <1>1
<1>8. CASE Catch
  <2>0. gates' = gates /\ phase' = phase /\ phase = "running" /\ poisoned' = poisoned
          /\ stackFault' = stackFault
    BY <1>8 DEF Catch, Quiet, hostVars
  <2>1. CASE poisoned
    <3>1. GasInv'
      BY <1>0, <1>8, <2>1, SameGas DEF Catch
    <3>2. FaultInv'
      BY <1>0, <1>8, <2>0, <2>1 DEF Catch, FaultInv
    <3> QED BY <2>0, <3>1, <3>2, <1>1
  <2>2. CASE ~poisoned
    <3>1. GasInv'
      BY <1>0, <1>8, <2>2, ChargeKeepsGas DEF Catch
    <3>2. machine' = "none"
      BY <1>0, <1>8, <2>2, <2>0 DEF Catch, FaultInv
    <3>3. FaultInv'
      BY <2>0, <2>2, <3>2 DEF FaultInv
    <3> QED BY <2>0, <3>1, <3>3, <1>1
  <2> QED BY <2>1, <2>2
<1>9. CASE Uncaught
  <2>1. GasInv' /\ gates' = gates /\ phase' = "failed"
    BY <1>0, <1>9, SameGas DEF Uncaught, Effects
  <2>2. FaultInv'
    BY <1>0, <1>9 DEF Uncaught, FaultInv, runVars, hostVars
  <2> QED BY <2>1, <2>2, <1>1
<1> QED BY <1>3, <1>4, <1>5, <1>6, <1>7, <1>8, <1>9 DEF Machine

\* The classifier: a fault of the machine reaches a branch that bills the
\* ceiling, and past the exhaustion gate no branch bills more than it.
LEMMA VerdictFacts ==
    ASSUME IInv, phase = "failed"
    PROVE  /\ VerdictOf.status \in Statuses \ {"success"}
           /\ gates.ceilExhausted => VerdictOf.gasUsed <= ceiling
           /\ machine # "none" => VerdictOf.gasUsed = ceiling
<1>0. GasInv /\ FaultInv /\ GatesInv
  BY DEF IInv
<1> USE DEF VerdictOf, Verdict
<1>1. VerdictOf.status \in Statuses \ {"success"}
  BY DEF Statuses
<1>2. ASSUME gates.ceilExhausted PROVE VerdictOf.gasUsed <= ceiling
  <2>1. CASE exhausted
    BY <1>0, <1>2, <2>1 DEF GasInv
  <2>2. CASE ~exhausted
    <3>1. VerdictOf.gasUsed = used \/ VerdictOf.gasUsed = ceiling
      OBVIOUS
    <3>2. used <= ceiling /\ ceiling <= ceiling
      BY <1>0, <2>2 DEF GasInv
    <3> HIDE DEF VerdictOf
    <3> QED BY <3>1, <3>2
  <2> QED BY <2>1, <2>2
<1>3. ASSUME machine # "none" PROVE VerdictOf.gasUsed = ceiling
  <2> USE DEF Says, Disposed, SignalOn, ClockStands, MemoryStands, StackStands, AnError
  <2>1. CASE machine = "guard"
    <3>1. thrown = StackError /\ (gates.signal => stackFault)
      BY <1>0, <2>1 DEF FaultInv
    <3>2. thrown.tag = "none" /\ thrown.says = {"call stack"} /\ thrown.exact = TRUE
      BY <3>1 DEF StackError
    <3> QED BY <3>1, <3>2
  <2>2. CASE machine = "native"
    <3>1. thrown = NativeOverflow /\ ~gates.signal
      BY <1>0, <2>2 DEF FaultInv, GatesInv
    <3>2. thrown.tag = "none" /\ thrown.says = {"call stack"} /\ thrown.range = TRUE
      BY <3>1 DEF NativeOverflow
    <3> QED BY <3>1, <3>2
  <2>3. CASE machine = "clock"
    <3>1. thrown = TimeoutError /\ elapsed
      BY <1>0, <2>3 DEF FaultInv
    <3>2. thrown.tag = "none" /\ thrown.says = {"timed out"}
      BY <3>1 DEF TimeoutError
    <3> QED BY <3>1, <3>2
  <2>4. CASE machine = "memory"
    <3>1. thrown = MemoryError /\ isolate = "disposed"
      BY <1>0, <2>4 DEF FaultInv
    <3>2. thrown.tag = "none" /\ thrown.says = {"disposed", "memory limit"}
      BY <3>1 DEF MemoryError
    <3> QED BY <3>1, <3>2
  <2> QED BY <1>0, <1>3, <2>1, <2>2, <2>3, <2>4 DEF FaultInv
<1> QED BY <1>1, <1>2, <1>3

\* Both ways a run gets its result: the classifier, and a contract that returns.
LEMMA SettlesStep ==
    ASSUME IInv, classifyError \/ Return
    PROVE  IInv'
<1>0. GasInv /\ GatesInv
  BY DEF IInv
<1>1. CASE classifyError
  <2> DEFINE r == errorResult(VerdictOf.status, VerdictOf.gasUsed)
  <2>1. phase = "failed" /\ Settle(r) /\ GasInv' /\ ceiling' = ceiling
    BY <1>0, <1>1, SameGas DEF classifyError, SettleError
  <2>2. r.status = VerdictOf.status /\ r.gasUsed = VerdictOf.gasUsed
    BY DEF errorResult, NoResult
  <2> HIDE DEF r
  <2> QED BY <2>1, <2>2, VerdictFacts, SettleStep
<1>2. CASE Return
  <2>1. Running /\ GasInv' /\ ceiling' = ceiling /\ used' = used /\ machine = "none"
    BY <1>0, <1>2, SameGas, RunningIsClean DEF Return, SettleError
  <2>2. CASE exhausted /\ (gates.ceilSuccess \/ gates.ceilExhausted)
    <3> DEFINE r == errorResult("out_of_gas", ceiling)
    <3>1. Settle(r)
      BY <1>2, <2>2 DEF Return, SettleError
    <3>2. r.status = "out_of_gas" /\ r.gasUsed = ceiling
      BY DEF errorResult, NoResult
    <3> HIDE DEF r
    <3> QED BY <1>0, <2>1, <3>1, <3>2, SettleStep DEF GasInv
  <2>3. CASE ~(exhausted /\ (gates.ceilSuccess \/ gates.ceilExhausted))
    <3>1. gates.ceilSuccess \/ gates.ceilExhausted => used <= ceiling
      BY <1>0, <2>3 DEF GasInv
    <3>2. PICK r : Settle(r) /\ r.gasUsed = used
      <4>1. errorResult("error", used).gasUsed = used
        BY DEF errorResult, NoResult
      <4> QED BY <1>2, <2>3, <4>1 DEF Return, SettleError
    <3> QED BY <1>0, <2>1, <3>1, <3>2, SettleStep DEF GasInv
  <2> QED BY <2>2, <2>3
<1> QED BY <1>1, <1>2

\* Nothing changes.
LEMMA StutterStep == ASSUME IInv, UNCHANGED vars PROVE IInv'
BY DEF IInv, vars, gasVars, runVars, hostVars, GasInv, SetupInv, FaultInv, GatesInv, VerdictInv,
       Settled, Verdicts, BilledWithinCeiling, ExhaustedNeverCommits, ResourceFaultsBillCeiling

\* The inductive invariant of the pipeline holds in every reachable state of execute().
THEOREM IInvHolds == Spec => []IInv
<1>1. IInv /\ [Next]_vars => IInv'
  <2> SUFFICES ASSUME IInv, [Next]_vars PROVE IInv'
    OBVIOUS
  <2>1. CASE RefuseCodeSize \/ Setup
    BY <2>1, SetupStep
  <2>2. CASE Contract
    BY <2>2, CallStep, FaultStep, SettlesStep DEF Contract
  <2>3. CASE Machine
    BY <2>3, FaultStep
  <2>4. CASE classifyError
    BY <2>4, SettlesStep
  <2>5. CASE Finished \/ UNCHANGED vars
    BY <2>5, StutterStep DEF Finished
  <2> QED BY <2>1, <2>2, <2>3, <2>4, <2>5 DEF Next
<1> QED BY <1>1, InitIInv, PTL DEF Spec

\* Past the exhaustion gate no result of execute() is billed above the ceiling
\* of its run, on any path through the contract, the harness or the classifier.
THEOREM BilledWithinCeilingHolds == Spec => []BilledWithinCeiling
<1>1. IInv => BilledWithinCeiling
  BY DEF IInv, VerdictInv, BilledWithinCeiling, Verdicts
<1> QED BY <1>1, IInvHolds, PTL

\* A run that crossed its ceiling never commits once a ceiling gate is on, even
\* when a harness wrapper swallowed the error (execute.js, after runSync).
THEOREM ExhaustedNeverCommitsHolds == Spec => []ExhaustedNeverCommits
<1>1. IInv => ExhaustedNeverCommits
  BY DEF IInv, VerdictInv, ExhaustedNeverCommits
<1> QED BY <1>1, IInvHolds, PTL

\* A contract that the depth guard, a native overflow, the wall clock or the
\* memory limit ended is billed its ceiling and commits nothing (classifyError).
THEOREM ResourceFaultsBillCeilingHolds == Spec => []ResourceFaultsBillCeiling
<1>1. IInv => ResourceFaultsBillCeiling
  BY DEF IInv, VerdictInv, ResourceFaultsBillCeiling, Verdicts
<1> QED BY <1>1, IInvHolds, PTL

-------------------------------------------------------------------------------
(***************************************************************************)
(* What a status says about the run.                                       *)
(***************************************************************************)
\* Only the memory limit disposes of an isolate and only the guard reports a stack
\* fault, which poisons the run; there is no result, and no failure of the host,
\* before the run is settled.
SignalsInv ==
    /\ isolate = "disposed" => machine = "memory"
    /\ stackFault => poisoned
    /\ ~Settled => result = NoResult /\ hostFaulted = FALSE

StatusInv == SignalsInv /\ StatusCorroborated /\ HostFaultsHalt

\* A run starts with nothing to corroborate.
LEMMA InitStatusInv == Init => StatusInv
BY DEF Init, StatusInv, SignalsInv, StatusCorroborated, HostFaultsHalt, Settled, NoResult, Rejections

\* A step of the contract, of the machine or of the set-up that settles nothing.
LEMMA UnsettledStep ==
    ASSUME StatusInv, ~Settled, ~Settled', UNCHANGED <<result, hostFaulted>>,
           isolate' = "disposed" => machine' = "memory", stackFault' => poisoned'
    PROVE  StatusInv'
BY DEF StatusInv, SignalsInv, StatusCorroborated, HostFaultsHalt, Settled, NoResult, Rejections

\* A step that settles on a result.
LEMMA SettledStep ==
    ASSUME StatusInv, NEW r, Settle(r),
           r.status = "revert" => reverted,
           r.status = "out_of_gas" => used' > ceiling',
           gates.harden => /\ r.status = "out_of_memory" => machine = "memory"
                           /\ r.status = "timeout" => elapsed \/ machine = "memory",
           SignalOn => /\ r.status = "out_of_stack" => machine = "guard"
                       /\ machine = "memory" => r.status \in {"out_of_memory", "out_of_gas"},
           hostFaulted' /\ gates.depth /\ gates.halt => r.status = "hostfault",
           r.status \in Rejections => hostFaulted'
    PROVE  StatusInv'
<1>1. /\ phase' = "done" /\ result' = r /\ gates' = gates /\ machine' = machine /\ reverted' = reverted
      /\ elapsed' = elapsed /\ poisoned' = poisoned /\ stackFault' = stackFault
      /\ isolate' = "disposed" => isolate = "disposed"
  BY DEF Settle, runVars, Release
<1>2. SignalsInv'
  BY <1>1 DEF StatusInv, SignalsInv, Settled
<1>3. StatusCorroborated'
  BY <1>1 DEF StatusCorroborated, Settled, SignalOn
<1>4. HostFaultsHalt'
  BY <1>1 DEF HostFaultsHalt, Settled
<1> QED BY <1>2, <1>3, <1>4 DEF StatusInv

\* The set-up: a failure of the host is told from an outcome of the contract.
LEMMA SetupStatus ==
    ASSUME IInv, StatusInv, RefuseCodeSize \/ Setup
    PROVE  StatusInv'
<1>0. phase \in SetupPhases /\ ~Settled
  BY DEF RefuseCodeSize, Setup, checkExecLint, SkipExecLint, createIsolate, hostSetup, getMeteredCode,
         compileWrapper, Advance, SetupPhases, Settled
<1>1. machine = "none" /\ ~hostFaulted /\ GasInv
  BY <1>0 DEF IInv, SetupInv, StatusInv, SignalsInv
<1>2. ASSUME NEW from, NEW to, Advance(from, to), to # "done",
             UNCHANGED isolate \/ isolate' = "live"
      PROVE  StatusInv'
  <2>1. /\ ~Settled' /\ UNCHANGED <<result, hostFaulted, machine, stackFault, poisoned>>
    BY <1>2 DEF Advance, Settled, runVars
  <2> QED BY <2>1, <1>0, <1>2, UnsettledStep DEF StatusInv, SignalsInv
<1>3. ASSUME NEW g, Settle(errorResult("error", g)), hostFaulted' = hostFaulted
      PROVE  StatusInv'
  <2> DEFINE r == errorResult("error", g)
  <2>1. r.status = "error" /\ Settle(r)
    BY <1>3 DEF errorResult, NoResult
  <2> HIDE DEF r
  <2> QED BY <2>1, <1>1, <1>3, SettledStep DEF Rejections
<1>4. ASSUME NEW g, NEW status \in {"hostfault", "rejected", "error"}, HostFails(status, g),
             gates.depth /\ gates.halt => status = "hostfault"
      PROVE  StatusInv'
  <2> DEFINE r == errorResult(status, g)
  <2>1. r.status = status /\ Settle(r) /\ hostFaulted'
    BY <1>4 DEF errorResult, NoResult, HostFails
  <2> HIDE DEF r
  <2> QED BY <2>1, <1>1, <1>4, SettledStep DEF Rejections
<1>5. /\ OverflowStatus \in {"hostfault", "error"} /\ (gates.depth => OverflowStatus = "hostfault")
      /\ \A s : HaltStatus(s) \in {"hostfault", s} /\ (gates.halt => HaltStatus(s) = "hostfault")
  BY DEF OverflowStatus, HaltStatus
<1>6. CASE RefuseCodeSize
  BY <1>6, <1>3 DEF RefuseCodeSize, SettleError
<1>7. CASE checkExecLint
  <2>1. CASE Exceeds(LintGas)
    <3> DEFINE r == errorResult("out_of_gas", ceiling)
    <3>1. Settle(r) /\ hostFaulted' = hostFaulted /\ charge(LintGas)
      BY <1>7, <2>1 DEF checkExecLint
    <3>2. r.status = "out_of_gas"
      BY DEF errorResult, NoResult
    <3>3. used' > ceiling'
      BY <2>1, <3>1 DEF charge, Exceeds
    <3> HIDE DEF r
    <3> QED BY <3>1, <3>2, <3>3, <1>1, SettledStep DEF Rejections
  <2>2. CASE ~Exceeds(LintGas)
    <3>1. \/ Advance("entry", "linted") /\ UNCHANGED isolate
          \/ Settle(errorResult("error", used + LintGas)) /\ UNCHANGED hostFaulted
          \/ HostFails("hostfault", used + LintGas)
          \/ HostFails(OverflowStatus, used + LintGas)
          \/ HostFails(HaltStatus("rejected"), used + LintGas)
      BY <1>7, <2>2 DEF checkExecLint
    <3> QED BY <3>1, <1>2, <1>3, <1>4, <1>5
  <2> QED BY <2>1, <2>2
<1>8. CASE SkipExecLint
  BY <1>8, <1>2 DEF SkipExecLint
<1>9. CASE createIsolate
  BY <1>9, <1>2, <1>4 DEF createIsolate
<1>10. CASE hostSetup
  BY <1>10, <1>2, <1>4 DEF hostSetup
<1>11. CASE getMeteredCode
  BY <1>11, <1>2, <1>3, <1>4, <1>5 DEF getMeteredCode, SettleError
<1>12. CASE compileWrapper
  BY <1>12, <1>2, <1>4, <1>5 DEF compileWrapper
<1> QED BY <1>6, <1>7, <1>8, <1>9, <1>10, <1>11, <1>12 DEF Setup

\* The contract and the machine: no step but the last settles anything.
LEMMA RunStatus ==
    ASSUME IInv, StatusInv, Contract \/ Machine, ~Return
    PROVE  StatusInv'
<1>0. phase \in {"running", "failed"}
  <2>1. Machine \/ Catch \/ Uncaught \/ Running
    BY DEF Contract, Compute, HostRead, Charged, SwallowedCharge, Read, StateSet, StateDelete,
           request, Emit, execute, crossExecute, Throw, log, revert
  <2> QED BY <2>1 DEF Machine, Catch, Uncaught, depthGuard, nativeOverflow, TimePasses, wallClock,
                      memoryLimit, Running
<1>1. ~Settled /\ SignalsInv
  BY <1>0 DEF Settled, StatusInv
<1>2. ASSUME Quiet, UNCHANGED poisoned,
             \/ UNCHANGED machine
             \/ machine = "native" /\ machine' = "none"
             \/ machine = "none" /\ machine' = "native"
      PROVE  StatusInv'
  <2>1. ~Settled' /\ UNCHANGED <<result, hostFaulted, isolate, stackFault>>
    BY <1>1, <1>2 DEF Quiet, Settled, hostVars
  <2> QED BY <2>1, <1>1, <1>2, UnsettledStep DEF SignalsInv
<1>3. ASSUME TripGuard, machine # "memory" PROVE StatusInv'
  <2>1. ~Settled' /\ UNCHANGED <<result, hostFaulted, isolate>> /\ poisoned' = TRUE
    BY <1>1, <1>3 DEF TripGuard, Settled
  <2> QED BY <2>1, <1>1, <1>3, UnsettledStep DEF SignalsInv
<1>4. ASSUME NEW e, NEW how, Killed(e, how), phase = "running",
             (UNCHANGED isolate /\ isolate # "disposed") \/ how = "memory"
      PROVE  StatusInv'
  <2>1. ~Settled' /\ UNCHANGED <<result, hostFaulted, stackFault, poisoned>> /\ machine' = how
    BY <1>4 DEF Killed, Settled
  <2> QED BY <2>1, <1>1, <1>4, UnsettledStep DEF SignalsInv
<1>5. phase = "running" => machine # "memory" /\ isolate # "disposed"
  BY <1>1 DEF IInv, FaultInv, SignalsInv
<1>6. CASE depthGuard
  BY <1>3, <1>5, <1>6 DEF depthGuard, Running
<1>7. CASE nativeOverflow
  <2>1. machine = "none" /\ phase = "running"
    BY <1>7, RunningIsClean DEF nativeOverflow
  <2>2. CASE gates.native
    BY <1>3, <1>5, <1>7, <2>1, <2>2 DEF nativeOverflow
  <2>3. CASE ~gates.native
    BY <1>2, <1>7, <2>1, <2>3 DEF nativeOverflow
  <2> QED BY <2>2, <2>3
<1>8. CASE TimePasses
  <2>1. ~Settled' /\ UNCHANGED <<result, hostFaulted, stackFault, poisoned, isolate, machine>>
    BY <1>1, <1>8 DEF TimePasses, Settled, runVars
  <2> QED BY <2>1, <1>1, UnsettledStep DEF SignalsInv
<1>9. CASE wallClock
  BY <1>4, <1>5, <1>9 DEF wallClock
<1>10. CASE memoryLimit
  BY <1>4, <1>10 DEF memoryLimit
<1>11. CASE Catch
  <2>1. /\ Quiet /\ UNCHANGED poisoned
        /\ UNCHANGED machine \/ (machine = "native" /\ machine' = "none")
    BY <1>11 DEF Catch
  <2> QED BY <1>2, <2>1
<1>12. CASE Uncaught
  <2>1. ~Settled' /\ UNCHANGED <<result, hostFaulted, stackFault, poisoned, isolate, machine>>
    BY <1>12 DEF Uncaught, Settled, runVars, hostVars
  <2> QED BY <2>1, <1>1, UnsettledStep DEF SignalsInv
<1> USE DEF Throws, Fails, Goes, runVars
<1>13. CASE \/ \E n \in ComputeUnits : Compute(n) \/ SwallowedCharge(n)
            \/ \E n \in HostReadGas : HostRead(n)
  BY <1>13, <1>2 DEF Compute, HostRead, Charged, SwallowedCharge
<1>14. CASE \E a \in Args : Read(a) \/ StateDelete(a) \/ \E v \in Values \cup Unstorable : StateSet(a, v)
  BY <1>14, <1>2 DEF Read, StateDelete, StateSet
<1>15. CASE \E ok \in BOOLEAN : request(ok)
  BY <1>15, <1>2 DEF request, Refused
<1>16. CASE \E ok \in BOOLEAN, action \in PlainActions : Emit(action, ok)
  BY <1>16, <1>2 DEF Emit
<1>17. CASE \E ok \in BOOLEAN, g \in CallLimits : execute(ok, g)
  BY <1>17, <1>2 DEF execute, Refused, Prepaid
<1>18. CASE \E ok \in BOOLEAN, g \in CallLimits : crossExecute(ok, g)
  BY <1>18, <1>2 DEF crossExecute, Refused, Prepaid
<1>19. CASE \E e \in ContractErrors : Throw(e)
  BY <1>19, <1>2 DEF Throw
<1>20. CASE log \/ revert
  BY <1>20, <1>2 DEF log, revert
<1> QED BY <1>6, <1>7, <1>8, <1>9, <1>10, <1>11, <1>12, <1>13, <1>14, <1>15, <1>16, <1>17, <1>18, <1>19,
           <1>20 DEF Contract, Machine

\* The classifier believes no status that nothing but the error's text speaks for.
LEMMA VerdictCorroborated ==
    ASSUME IInv, StatusInv, phase = "failed"
    PROVE  /\ VerdictOf.status = "revert" => reverted
           /\ VerdictOf.status = "out_of_gas" => used > ceiling
           /\ gates.harden =>
                /\ VerdictOf.status = "out_of_memory" => machine = "memory"
                /\ VerdictOf.status = "timeout" => elapsed \/ machine = "memory"
           /\ SignalOn =>
                /\ VerdictOf.status = "out_of_stack" => machine = "guard"
                /\ machine = "memory" => VerdictOf.status \in {"out_of_memory", "out_of_gas"}
<1>0. GasInv /\ FaultInv /\ SignalsInv
  BY DEF IInv, StatusInv
<1>1. (exhausted => used > ceiling) /\ (Disposed => machine = "memory")
  BY <1>0 DEF GasInv, SignalsInv, Disposed
<1> USE DEF VerdictOf, Verdict
<1>2. /\ VerdictOf.status = "revert" => reverted
      /\ VerdictOf.status = "out_of_gas" => used > ceiling
  BY <1>1
<1>3. ASSUME gates.harden
      PROVE  /\ VerdictOf.status = "out_of_memory" => machine = "memory"
             /\ VerdictOf.status = "timeout" => elapsed \/ machine = "memory"
  BY <1>1, <1>3 DEF ClockStands, MemoryStands
<1>4. ASSUME SignalOn, VerdictOf.status = "out_of_stack" PROVE machine = "guard"
  <2>1. Says("call stack") /\ StackStands
    BY <1>4
  <2>2. stackFault
    BY <1>4, <2>1 DEF StackStands, SignalOn
  <2>3. machine \in {"guard", "clock", "memory"}
    BY <1>0, <2>2 DEF SignalsInv, FaultInv
  <2>4. machine \in {"clock", "memory"} => ~Says("call stack")
    <3> HIDE DEF VerdictOf, Verdict
    <3>1. TimeoutError.says = {"timed out"} /\ MemoryError.says = {"disposed", "memory limit"}
      BY DEF TimeoutError, MemoryError, AnError
    <3>2. /\ machine = "clock" => thrown = TimeoutError
          /\ machine = "memory" => thrown = MemoryError
      BY <1>0 DEF FaultInv
    <3>3. machine \in {"clock", "memory"} =>
            thrown.says = {"timed out"} \/ thrown.says = {"disposed", "memory limit"}
      BY <3>1, <3>2
    <3> QED BY <3>3 DEF Says
  <2> QED BY <2>1, <2>3, <2>4
<1>5. ASSUME SignalOn, machine = "memory"
      PROVE  VerdictOf.status \in {"out_of_memory", "out_of_gas"}
  <2>1. Disposed /\ thrown.tag = "none" /\ Says("memory limit")
    <3> HIDE DEF VerdictOf, Verdict
    <3>1. MemoryError.says = {"disposed", "memory limit"} /\ MemoryError.tag = "none"
      BY DEF MemoryError, AnError
    <3>2. thrown = MemoryError /\ Disposed
      BY <1>0, <1>5 DEF FaultInv, Disposed
    <3> QED BY <3>1, <3>2 DEF Says
  <2> QED BY <1>5, <2>1
<1> QED BY <1>2, <1>3, <1>4, <1>5

\* The classifier, and the return of the contract.
LEMMA SettlesStatus ==
    ASSUME IInv, StatusInv, classifyError \/ Return
    PROVE  StatusInv'
<1>0. GasInv /\ ~Settled /\ ~hostFaulted
  BY DEF IInv, classifyError, Return, Running, Settled, StatusInv, SignalsInv
<1>1. CASE classifyError
  <2> DEFINE r == errorResult(VerdictOf.status, VerdictOf.gasUsed)
  <2>1. phase = "failed" /\ Settle(r) /\ UNCHANGED <<used, ceiling, hostFaulted>>
    BY <1>1 DEF classifyError, SettleError, gasVars
  <2>2. r.status = VerdictOf.status
    BY DEF errorResult, NoResult
  <2>3. VerdictOf.status \notin Rejections
    BY <2>1, VerdictFacts DEF Statuses, Rejections
  <2> HIDE DEF r
  <2> QED BY <1>0, <2>1, <2>2, <2>3, VerdictCorroborated, SettledStep
<1>2. CASE Return
  <2>1. machine = "none"
    BY <1>2, RunningIsClean DEF Return
  <2>2. CASE exhausted /\ (gates.ceilSuccess \/ gates.ceilExhausted)
    <3> DEFINE r == errorResult("out_of_gas", ceiling)
    <3>1. Settle(r) /\ UNCHANGED <<used, ceiling, hostFaulted>>
      BY <1>2, <2>2 DEF Return, SettleError, gasVars
    <3>2. r.status = "out_of_gas" /\ used > ceiling
      BY <1>0, <2>2 DEF errorResult, NoResult, GasInv
    <3> HIDE DEF r
    <3> QED BY <1>0, <2>1, <3>1, <3>2, SettledStep DEF Rejections
  <2>3. CASE ~(exhausted /\ (gates.ceilSuccess \/ gates.ceilExhausted))
    <3>1. PICK r : Settle(r) /\ r.status \in {"error", "success"} /\ UNCHANGED <<used, ceiling, hostFaulted>>
      <4>1. errorResult("error", used).status = "error"
        BY DEF errorResult, NoResult
      <4> QED BY <1>2, <2>3, <4>1 DEF Return, SettleError, gasVars
    <3> QED BY <1>0, <2>1, <3>1, SettledStep DEF Rejections
  <2> QED BY <2>2, <2>3
<1> QED BY <1>1, <1>2

\* Nothing to corroborate comes up while nothing happens.
LEMMA StutterStatus == ASSUME StatusInv, UNCHANGED vars PROVE StatusInv'
BY DEF StatusInv, vars, gasVars, runVars, hostVars, SignalsInv, Settled, StatusCorroborated,
       HostFaultsHalt, SignalOn

\* Every step of a run (execute.js, classify_error.js) keeps the invariant.
THEOREM StatusInvHolds == Spec => []StatusInv
<1>1. IInv /\ StatusInv /\ [Next]_vars => StatusInv'
  <2> SUFFICES ASSUME IInv, StatusInv, [Next]_vars PROVE StatusInv'
    OBVIOUS
  <2>1. CASE RefuseCodeSize \/ Setup
    BY <2>1, SetupStatus
  <2>2. CASE (Contract \/ Machine) /\ ~Return
    BY <2>2, RunStatus
  <2>3. CASE classifyError \/ Return
    BY <2>3, SettlesStatus
  <2>4. CASE Finished \/ UNCHANGED vars
    BY <2>4, StutterStatus DEF Finished
  <2> QED BY <2>1, <2>2, <2>3, <2>4 DEF Next
<1> QED BY <1>1, InitStatusInv, IInvHolds, PTL DEF Spec

\* A contract cannot talk itself into a status: whatever it throws, catches and
\* throws again, a revert, an exhaustion, and past the hardening gates a memory, a
\* stack and a timeout verdict of classifyError have their cause in the host.
THEOREM StatusCorroboratedHolds == Spec => []StatusCorroborated
<1>1. StatusInv => StatusCorroborated
  BY DEF StatusInv
<1> QED BY <1>1, StatusInvHolds, PTL

\* Past the syntax-depth and the host-fault gate a failure of this host halts it
\* and is never settled as a verdict on the contract; nothing else halts it.
THEOREM HostFaultsHaltHolds == Spec => []HostFaultsHalt
<1>1. StatusInv => HostFaultsHalt
  BY DEF StatusInv
<1> QED BY <1>1, StatusInvHolds, PTL
-------------------------------------------------------------------------------
(***************************************************************************)
(* What a run queues is paid for and handed over whole.                    *)
(***************************************************************************)
Queued == [action : PlainActions \cup {"EXECUTE", "XCALL", "ATTEST"}, reserves : Nat]

QueueInv ==
    /\ emissions \in Seq(Queued) /\ Len(emissions) <= MaxEmissions
    /\ prepaid \in Nat
    /\ FundedByCaller /\ PaidMeansQueued /\ AllOrNothing

\* What add() does to the sums: the new action adds its fee and what it reserves.
LEMMA QueueAdds ==
    ASSUME NEW es \in Seq(Queued), NEW e \in Queued
    PROVE  /\ Append(es, e) \in Seq(Queued) /\ Len(Append(es, e)) = Len(es) + 1
           /\ Reserved(es) \in Nat /\ CallCosts(es) \in Nat
           /\ Reserved(Append(es, e)) = Reserved(es) + (EmissionGas + e.reserves)
           /\ CallCosts(Append(es, e)) = CallCosts(es) + CallCost(e)
<1> DEFINE more == Append(es, e)
           N == Len(es)
           fees(s) == [i \in 1 .. Len(s) |-> EmissionGas + s[i].reserves]
           costs(s) == [i \in 1 .. Len(s) |-> CallCost(s[i])]
<1>0. EmissionGas \in Nat /\ XcallGas \in Nat
  OBVIOUS
<1>1. /\ N \in Nat /\ more \in Seq(Queued) /\ Len(more) = N + 1
      /\ \A i \in 1 .. N : more[i] = es[i]
      /\ more[N + 1] = e
      /\ \A i \in 1 .. N : es[i] \in Queued
  BY LenProperties, AppendOf, ElementOfSeq
<1>2. \A x \in Queued : EmissionGas + x.reserves \in Nat
  BY <1>0 DEF Queued
<1>3. ASSUME NEW x \in Queued PROVE CallCost(x) \in Nat
  <2>1. x.reserves \in Nat
    BY DEF Queued
  <2>2. CASE x.action = "EXECUTE"
    BY <1>0, <2>1, <2>2, SMTT(30) DEF CallCost
  <2>3. CASE x.action = "XCALL"
    BY <1>0, <2>1, <2>3, SMTT(30) DEF CallCost
  <2>4. CASE x.action # "EXECUTE" /\ x.action # "XCALL"
    BY <2>4 DEF CallCost
  <2> QED BY <2>2, <2>3, <2>4
<1> HIDE DEF more
<1>4. fees(es) \in Seq(Nat) /\ costs(es) \in Seq(Nat) /\ Len(fees(es)) = N /\ Len(costs(es)) = N
  <2>1. fees(es) \in [1 .. N -> Nat] /\ costs(es) \in [1 .. N -> Nat]
    BY <1>1, <1>2, <1>3
  <2> HIDE DEF fees, costs
  <2> QED BY <1>1, <2>1, ListOf
<1>5. fees(more) = Append(fees(es), EmissionGas + e.reserves)
  <2> DEFINE b == Append(fees(es), EmissionGas + e.reserves)
  <2>1. /\ b \in Seq(Nat) /\ Len(b) = N + 1 /\ b[N + 1] = EmissionGas + e.reserves
        /\ \A i \in 1 .. N : b[i] = fees(es)[i]
    BY <1>2, <1>4, AppendOf
  <2>2. fees(more) \in Seq(Nat) /\ Len(fees(more)) = N + 1
    <3>1. \A i \in 1 .. N + 1 : more[i] \in Queued
      BY <1>1, ElementOfSeq
    <3>2. fees(more) \in [1 .. N + 1 -> Nat] /\ N + 1 \in Nat
      BY <1>1, <1>2, <3>1
    <3> HIDE DEF fees
    <3> QED BY <3>2, ListOf
  <2>3. \A i \in 1 .. N + 1 : fees(more)[i] = b[i]
    <3> SUFFICES ASSUME NEW i \in 1 .. N + 1 PROVE fees(more)[i] = b[i]
      OBVIOUS
    <3>1. CASE i = N + 1
      BY <1>1, <2>1, <3>1
    <3>2. CASE i # N + 1
      <4>1. i \in 1 .. N
        BY <1>1, <3>2
      <4> QED BY <1>1, <2>1, <4>1
    <3> QED BY <3>1, <3>2
  <2> DEFINE a == fees(more)
  <2>4. /\ a \in Seq(Nat) /\ b \in Seq(Nat) /\ Len(a) = Len(b)
        /\ \A i \in 1 .. Len(a) : a[i] = b[i]
    BY <2>1, <2>2, <2>3, Zenon
  <2> HIDE DEF a, b
  <2>5. a = b
    BY <2>4, SeqEqual
  <2> QED BY <2>5 DEF a, b
<1>6. costs(more) = Append(costs(es), CallCost(e))
  <2> DEFINE b == Append(costs(es), CallCost(e))
  <2>1. /\ b \in Seq(Nat) /\ Len(b) = N + 1 /\ b[N + 1] = CallCost(e)
        /\ \A i \in 1 .. N : b[i] = costs(es)[i]
    BY <1>3, <1>4, AppendOf, SMTT(30)
  <2>2. costs(more) \in Seq(Nat) /\ Len(costs(more)) = N + 1
    <3>1. \A i \in 1 .. N + 1 : more[i] \in Queued
      BY <1>1, ElementOfSeq
    <3>2. costs(more) \in [1 .. N + 1 -> Nat] /\ N + 1 \in Nat
      BY <1>1, <1>3, <3>1
    <3> HIDE DEF costs
    <3> QED BY <3>2, ListOf
  <2>3. \A i \in 1 .. N + 1 : costs(more)[i] = b[i]
    <3> SUFFICES ASSUME NEW i \in 1 .. N + 1 PROVE costs(more)[i] = b[i]
      OBVIOUS
    <3>1. CASE i = N + 1
      BY <1>1, <2>1, <3>1
    <3>2. CASE i # N + 1
      <4>1. i \in 1 .. N
        BY <1>1, <3>2
      <4> QED BY <1>1, <2>1, <4>1
    <3> QED BY <3>1, <3>2
  <2> DEFINE a == costs(more)
  <2>4. /\ a \in Seq(Nat) /\ b \in Seq(Nat) /\ Len(a) = Len(b)
        /\ \A i \in 1 .. Len(a) : a[i] = b[i]
    BY <2>1, <2>2, <2>3, Zenon
  <2> HIDE DEF a, b
  <2>5. a = b
    BY <2>4, SeqEqual
  <2> QED BY <2>5 DEF a, b
<1>7. /\ Total(fees(es)) \in Nat /\ Total(costs(es)) \in Nat
      /\ Total(fees(more)) = Total(fees(es)) + (EmissionGas + e.reserves)
      /\ Total(costs(more)) = Total(costs(es)) + CallCost(e)
  <2> HIDE DEF fees, costs
  <2> QED BY <1>2, <1>3, <1>4, <1>5, <1>6, TotalOfAppend
<1> QED BY <1>1, <1>7 DEF Reserved, CallCosts, more

\* A run starts with an empty queue.
LEMMA InitQueueInv == Init => QueueInv
<1> SUFFICES ASSUME Init PROVE QueueInv
  OBVIOUS
<1>1. emissions = << >> /\ prepaid = 0 /\ GasInv /\ phase = "entry"
  BY InitIInv DEF Init, CollectorInit, IInv
<1>2. Reserved(emissions) = 0 /\ CallCosts(emissions) = 0
  <2>1. /\ [i \in 1 .. Len(emissions) |-> EmissionGas + emissions[i].reserves] = << >>
        /\ [i \in 1 .. Len(emissions) |-> CallCost(emissions[i])] = << >>
    BY <1>1
  <2> QED BY <2>1, TotalOfNothing DEF Reserved, CallCosts
<1>3. emissions \in Seq(Queued) /\ Len(emissions) <= MaxEmissions
  BY <1>1, CollectorAssumption
<1>4. FundedByCaller /\ PaidMeansQueued /\ AllOrNothing
  BY <1>1, <1>2 DEF FundedByCaller, PaidMeansQueued, AllOrNothing, GasInv, Settled
<1> QED BY <1>1, <1>3, <1>4 DEF QueueInv

\* The sums of a queue are numbers.
LEMMA QueueSums ==
    ASSUME QueueInv
    PROVE  Reserved(emissions) \in Nat /\ CallCosts(emissions) \in Nat
<1>1. [action |-> "ATTEST", reserves |-> 0] \in Queued
  BY DEF Queued
<1> QED BY <1>1, QueueAdds DEF QueueInv

\* A step that queues nothing and pays for no call.
LEMMA QueueKept ==
    ASSUME GasInv, GasInv', QueueInv, ~Settled', UNCHANGED <<emissions, prepaid, gates>>,
           used' >= used, ceiling' = ceiling
    PROVE  QueueInv'
<1>1. Reserved(emissions)' = Reserved(emissions) /\ CallCosts(emissions)' = CallCosts(emissions)
  BY DEF Reserved, CallCosts
<1>2. FundedByCaller'
  BY <1>1, QueueSums, SMTT(30) DEF QueueInv, FundedByCaller, GasInv
<1>3. PaidMeansQueued' /\ AllOrNothing'
  BY <1>1 DEF QueueInv, PaidMeansQueued, AllOrNothing
<1> QED BY <1>2, <1>3 DEF QueueInv

\* A step that settles hands over the queue or nothing.
LEMMA QueueSettled ==
    ASSUME GasInv, GasInv', QueueInv, NEW r, Settle(r), used' >= used, ceiling' = ceiling,
           r.status = "success" => r.emitted = emissions,
           r.status # "success" => r.changes = {} /\ r.deletes = {} /\ r.emitted = << >>
    PROVE  QueueInv'
<1>1. UNCHANGED <<emissions, prepaid, gates>> /\ result' = r
  BY DEF Settle, collectorVars, runVars
<1>2. Reserved(emissions)' = Reserved(emissions) /\ CallCosts(emissions)' = CallCosts(emissions)
  BY <1>1 DEF Reserved, CallCosts
<1>3. FundedByCaller'
  BY <1>1, <1>2, QueueSums, SMTT(30) DEF QueueInv, FundedByCaller, GasInv
<1>4. PaidMeansQueued' /\ AllOrNothing'
  BY <1>1, <1>2 DEF QueueInv, PaidMeansQueued, AllOrNothing
<1> QED BY <1>1, <1>3, <1>4 DEF QueueInv

\* An error hands over nothing.
LEMMA QueueFails ==
    ASSUME GasInv, GasInv', QueueInv, NEW status, NEW g, status # "success",
           Settle(errorResult(status, g)), used' >= used, ceiling' = ceiling
    PROVE  QueueInv'
<1> DEFINE r == errorResult(status, g)
<1>1. r.status = status /\ r.changes = {} /\ r.deletes = {} /\ r.emitted = << >> /\ Settle(r)
  BY DEF errorResult, NoResult
<1> HIDE DEF r
<1> QED BY <1>1, QueueSettled

\* A step that queues an action within the cap, having charged at least its fee and
\* what it reserves, without crossing the ceiling.
LEMMA QueueGrown ==
    ASSUME GasInv, GasInv', QueueInv, ~Settled', gates' = gates,
           NEW action \in PlainActions \cup {"EXECUTE", "XCALL", "ATTEST"}, NEW reserves \in Nat,
           add(action, reserves), NEW cost \in Nat,
           cost >= EmissionGas + reserves, used + cost <= ceiling,
           used' = used + cost, ceiling' = ceiling,
           prepaid' = prepaid + CallCost([action |-> action, reserves |-> reserves])
    PROVE  QueueInv'
<1> DEFINE e == [action |-> action, reserves |-> reserves]
<1>1. e \in Queued /\ e.reserves = reserves
  BY DEF Queued
<1>2. emissions' = Append(emissions, e) /\ Len(emissions) < MaxEmissions
  BY DEF add, ensureRoom
<1>3. CallCost(e) \in Nat
  <2>1. CASE action = "EXECUTE"
    BY <2>1 DEF CallCost
  <2>2. CASE action = "XCALL"
    BY <2>2 DEF CallCost
  <2>3. CASE action # "EXECUTE" /\ action # "XCALL"
    BY <2>3 DEF CallCost
  <2> QED BY <2>1, <2>2, <2>3
<1>4. prepaid' = prepaid + CallCost(e)
  OBVIOUS
<1> HIDE DEF e
<1>5. /\ emissions' \in Seq(Queued) /\ Len(emissions') = Len(emissions) + 1
      /\ Reserved(emissions)' = Reserved(emissions) + (EmissionGas + reserves)
      /\ CallCosts(emissions)' = CallCosts(emissions) + CallCost(e)
      /\ Reserved(emissions) \in Nat /\ CallCosts(emissions) \in Nat
  <2>1. /\ Reserved(emissions)' = Reserved(Append(emissions, e))
        /\ CallCosts(emissions)' = CallCosts(Append(emissions, e))
    BY <1>2 DEF Reserved, CallCosts
  <2> QED BY <1>1, <1>2, <2>1, QueueAdds DEF QueueInv
<1>6. emissions' \in Seq(Queued) /\ Len(emissions)' <= MaxEmissions
  <2>1. Len(emissions) \in Nat /\ MaxEmissions \in Nat
    BY LenProperties, CollectorAssumption DEF QueueInv
  <2> QED BY <1>2, <1>5, <2>1
<1>7. FundedByCaller'
  <2>1. /\ Reserved(emissions) <= used /\ used \in Nat /\ ceiling \in Nat /\ EmissionGas \in Nat
    BY DEF QueueInv, FundedByCaller, GasInv
  <2>2. EmissionGas + reserves \in Nat
    BY <2>1, SumOf
  <2>3. /\ Reserved(emissions) + (EmissionGas + reserves) <= used + cost
        /\ Reserved(emissions) + (EmissionGas + reserves) <= ceiling
    BY <1>5, <2>1, <2>2, SumWithin
  <2>4. Reserved(emissions)' <= used' /\ Reserved(emissions)' <= ceiling'
    BY <1>5, <2>3, Zenon
  <2> QED BY <2>4 DEF FundedByCaller
<1>8. PaidMeansQueued' /\ prepaid' \in Nat
  <2>1. prepaid \in Nat /\ (gates.capFirst => prepaid = CallCosts(emissions))
    BY DEF QueueInv, PaidMeansQueued
  <2>2. prepaid' \in Nat /\ (gates.capFirst => prepaid' = CallCosts(emissions)')
    BY <1>3, <1>4, <1>5, <2>1, SumOf, Zenon
  <2> QED BY <2>2 DEF PaidMeansQueued
<1>9. AllOrNothing'
  BY DEF AllOrNothing
<1> QED BY <1>6, <1>7, <1>8, <1>9 DEF QueueInv

\* The queue while a run is set up.
LEMMA SetupQueue ==
    ASSUME IInv, IInv', QueueInv, RefuseCodeSize \/ Setup
    PROVE  QueueInv'
<1>0. /\ GasInv /\ GasInv' /\ (UNCHANGED gasVars \/ charge(LintGas))
      /\ LintGas \in Nat
  BY DEF IInv, RefuseCodeSize, Setup, SettleError, checkExecLint, SkipExecLint, createIsolate,
         hostSetup, getMeteredCode, compileWrapper
<1>1. used' >= used /\ ceiling' = ceiling
  BY <1>0, ChargeKeepsGas DEF GasInv, gasVars
<1>2. ASSUME NEW from, NEW to, Advance(from, to), to # "done" PROVE QueueInv'
  <2>1. ~Settled' /\ UNCHANGED <<emissions, prepaid, gates>>
    BY <1>2 DEF Advance, Settled, runVars, collectorVars
  <2> QED BY <1>0, <1>1, <2>1, QueueKept
<1>3. ASSUME NEW status, NEW g, status # "success", Settle(errorResult(status, g)) PROVE QueueInv'
  BY <1>0, <1>1, <1>3, QueueFails
<1>4. /\ OverflowStatus # "success"
      /\ \A s : HaltStatus(s) \in {"hostfault", s}
  BY DEF OverflowStatus, HaltStatus
<1>5. CASE RefuseCodeSize
  BY <1>3, <1>5 DEF RefuseCodeSize, SettleError
<1>6. CASE checkExecLint
  BY <1>2, <1>3, <1>4, <1>6 DEF checkExecLint, HostFails
<1>7. CASE SkipExecLint
  BY <1>2, <1>7 DEF SkipExecLint
<1>8. CASE createIsolate
  BY <1>2, <1>3, <1>8 DEF createIsolate, HostFails
<1>9. CASE hostSetup
  BY <1>2, <1>3, <1>9 DEF hostSetup, HostFails
<1>10. CASE getMeteredCode
  BY <1>2, <1>3, <1>4, <1>10 DEF getMeteredCode, SettleError, HostFails
<1>11. CASE compileWrapper
  BY <1>2, <1>3, <1>4, <1>11 DEF compileWrapper, HostFails
<1> QED BY <1>5, <1>6, <1>7, <1>8, <1>9, <1>10, <1>11 DEF Setup

\* The calls of the gateway that queue nothing: computation, reads, writes, a log
\* line, a revert, an error of the contract, a catch, and the faults of the machine.
LEMMA QuietQueue ==
    ASSUME IInv, IInv', QueueInv,
           \/ \E n \in ComputeUnits : Compute(n) \/ SwallowedCharge(n)
           \/ \E n \in HostReadGas : HostRead(n)
           \/ \E a \in Args : Read(a) \/ StateDelete(a) \/ \E v \in Values \cup Unstorable : StateSet(a, v)
           \/ \E e \in ContractErrors : Throw(e)
           \/ log \/ revert \/ Catch \/ Uncaught \/ Machine
    PROVE  QueueInv'
<1>0. GasInv /\ GasInv'
  BY DEF IInv
<1>1. ASSUME NEW n \in Nat, charge(n) PROVE used' >= used /\ ceiling' = ceiling
  BY <1>0, <1>1, ChargeKeepsGas
<1>2. ASSUME UNCHANGED gasVars PROVE used' >= used /\ ceiling' = ceiling
  BY <1>0, <1>2 DEF gasVars, GasInv
<1>3. ASSUME used' >= used, ceiling' = ceiling, ~Settled', UNCHANGED <<emissions, prepaid, gates>>
      PROVE  QueueInv'
  BY <1>0, <1>3, QueueKept
<1>4. ASSUME Running, Quiet PROVE ~Settled' /\ UNCHANGED gates
  BY <1>4 DEF Running, Quiet, Settled
<1>5. CASE \/ \E n \in ComputeUnits : Compute(n) \/ SwallowedCharge(n)
           \/ \E n \in HostReadGas : HostRead(n)
  <2>1. PICK n \in ComputeUnits \cup HostReadGas : Charged(n) \/ SwallowedCharge(n)
    BY <1>5 DEF Compute, HostRead
  <2>2. /\ Running /\ charge(n) /\ Quiet /\ UNCHANGED <<emissions, prepaid>> /\ n \in Nat
    BY <2>1 DEF Charged, SwallowedCharge, Throws, Fails, Goes, runVars, collectorVars
  <2> QED BY <1>1, <1>3, <1>4, <2>2
<1>6. CASE \E a \in Args : Read(a) \/ StateDelete(a) \/ \E v \in Values \cup Unstorable : StateSet(a, v)
  <2>1. PICK a \in Args, n \in {ReadGas, DeleteGas, WriteGas} :
            Running /\ charge(n) /\ Quiet /\ UNCHANGED <<emissions, prepaid>>
    BY <1>6 DEF Read, StateDelete, StateSet, Throws, Fails, Goes, runVars, collectorVars
  <2>2. n \in Nat
    OBVIOUS
  <2> QED BY <1>1, <1>3, <1>4, <2>1, <2>2
<1>7. CASE (\E e \in ContractErrors : Throw(e)) \/ log \/ revert
  <2>1. Running /\ UNCHANGED gasVars /\ Quiet /\ UNCHANGED <<emissions, prepaid>>
    BY <1>7 DEF Throw, log, revert, Throws, Goes, runVars, collectorVars, Effects
  <2> QED BY <1>2, <1>3, <1>4, <2>1
<1>8. CASE Catch
  <2>1. /\ UNCHANGED gasVars \/ charge(1)
        /\ ~Settled' /\ UNCHANGED <<emissions, prepaid, gates>>
    BY <1>8 DEF Catch, Quiet, Settled, collectorVars
  <2> QED BY <1>1, <1>2, <1>3, <2>1
<1>9. CASE Uncaught \/ Machine
  <2>1. UNCHANGED gasVars /\ ~Settled' /\ UNCHANGED <<emissions, prepaid, gates>>
    BY <1>9 DEF Uncaught, Machine, depthGuard, nativeOverflow, TripGuard, TimePasses, wallClock,
                memoryLimit, Killed, Quiet, Effects, runVars, collectorVars, Settled, Running
  <2> QED BY <1>2, <1>3, <2>1
<1> QED BY <1>5, <1>6, <1>7, <1>8, <1>9

\* A call paid before it is queued: past the host-call bounds gate it was refused
\* where the queue is full, so what is paid is queued.
LEMMA PrepaidQueue ==
    ASSUME IInv, IInv', QueueInv, Running, ~CapRefuses,
           NEW action \in {"EXECUTE", "XCALL"}, NEW g \in Nat, NEW cost \in Nat,
           cost = CallCost([action |-> action, reserves |-> g]),
           cost >= EmissionGas + g, used + cost <= ceiling,
           Prepaid(action, cost, g)
    PROVE  QueueInv'
<1>0. /\ GasInv /\ GasInv' /\ ~Settled' /\ gates' = gates /\ charge(cost)
      /\ prepaid' = prepaid + cost
  BY DEF IInv, Prepaid, Quiet, Running, Settled
<1>1. used' = used + cost /\ ceiling' = ceiling /\ used' >= used
  BY <1>0, ChargeKeepsGas DEF charge
<1>2. CASE ensureRoom
  BY <1>0, <1>1, <1>2, QueueGrown DEF Prepaid
<1>3. CASE ~ensureRoom
  <2>1. ~gates.capFirst /\ UNCHANGED emissions
    BY <1>3 DEF CapRefuses, Prepaid
  <2>2. Reserved(emissions)' = Reserved(emissions)
    BY <2>1 DEF Reserved
  <2>3. FundedByCaller'
    <3>1. /\ Reserved(emissions) \in Nat /\ used \in Nat /\ used' \in Nat
          /\ Reserved(emissions) <= used /\ Reserved(emissions) <= ceiling
      BY <1>0, QueueSums DEF QueueInv, FundedByCaller, GasInv
    <3>2. \A a \in Nat, b \in Nat, c \in Nat : a <= b /\ c >= b => a <= c
      OBVIOUS
    <3>3. Reserved(emissions) <= used'
      BY <1>1, <3>1, <3>2, Zenon
    <3> QED BY <1>1, <2>2, <3>1, <3>3 DEF FundedByCaller
  <2>4. prepaid' \in Nat
    BY <1>0, SumOf DEF QueueInv
  <2>5. PaidMeansQueued' /\ AllOrNothing'
    BY <1>0, <2>1 DEF PaidMeansQueued, AllOrNothing
  <2> QED BY <2>1, <2>3, <2>4, <2>5 DEF QueueInv
<1> QED BY <1>2, <1>3

\* The emits of the gateway.
LEMMA EmitQueue ==
    ASSUME IInv, IInv', QueueInv,
           NEW ok \in BOOLEAN,
           \/ request(ok)
           \/ \E action \in PlainActions : Emit(action, ok)
           \/ \E g \in CallLimits : execute(ok, g) \/ crossExecute(ok, g)
    PROVE  QueueInv'
<1>0. /\ GasInv /\ GasInv' /\ used \in Nat /\ ceiling \in Nat
      /\ EmissionGas \in Nat /\ AttestGas \in Nat /\ XcallGas \in Nat
  BY DEF IInv, GasInv
<1>1. ASSUME Running, Refused PROVE QueueInv'
  <2>1. UNCHANGED gasVars /\ ~Settled' /\ UNCHANGED <<emissions, prepaid, gates>>
    BY <1>1 DEF Running, Refused, Throws, Quiet, Settled, collectorVars
  <2>2. used' >= used /\ ceiling' = ceiling
    BY <1>0, <2>1 DEF gasVars
  <2> QED BY <1>0, <2>1, <2>2, QueueKept
\* A charged emit of an action that reserves nothing: it fails, or it is queued.
<1>2. ASSUME NEW action \in PlainActions \cup {"ATTEST"}, NEW n \in Nat, NEW cost \in Nat,
             Running, Quiet, charge(n), UNCHANGED prepaid, cost >= EmissionGas,
             \/ UNCHANGED emissions
             \/ n = cost /\ ~Exceeds(cost) /\ add(action, 0)
      PROVE  QueueInv'
  <2>1. /\ ~Settled' /\ UNCHANGED gates /\ used' = used + n /\ used' >= used /\ ceiling' = ceiling
    BY <1>0, <1>2, ChargeKeepsGas DEF Running, Quiet, Settled, charge
  <2>2. CASE UNCHANGED emissions
    BY <1>0, <1>2, <2>1, <2>2, QueueKept
  <2>3. CASE n = cost /\ ~Exceeds(cost) /\ add(action, 0)
    <3>1. used + cost <= ceiling /\ cost >= EmissionGas + 0
      BY <1>0, <1>2, <2>3 DEF Exceeds
    <3>2. CallCost([action |-> action, reserves |-> 0]) = 0
      <4>1. action # "EXECUTE" /\ action # "XCALL"
        BY <1>2
      <4> QED BY <4>1 DEF CallCost
    <3>3. prepaid' = prepaid + CallCost([action |-> action, reserves |-> 0])
      BY <1>2, <3>2 DEF QueueInv
    <3>4. action \in PlainActions \cup {"EXECUTE", "XCALL", "ATTEST"} /\ 0 \in Nat
      BY <1>2
    <3>5. used' = used + cost
      BY <2>1, <2>3
    <3> QED BY <1>0, <1>2, <2>1, <2>3, <3>1, <3>3, <3>4, <3>5, QueueGrown
  <2> QED BY <1>2, <2>2, <2>3
<1>3. CASE request(ok)
  <2> DEFINE cost == AttestGas + EmissionGas
  <2>1. CASE ctx.isGuard \/ CapRefuses
    BY <1>1, <1>3, <2>1 DEF request
  <2>2. CASE ~(ctx.isGuard \/ CapRefuses)
    <3> DEFINE n == IF Exceeds(AttestGas) THEN AttestGas ELSE cost
    <3>1. /\ Running /\ charge(n) /\ Quiet /\ UNCHANGED prepaid
          /\ UNCHANGED emissions \/ (~Exceeds(cost) /\ add("ATTEST", 0))
      BY <1>3, <2>2 DEF request, Throws, Goes, runVars
    <3>2. n \in Nat /\ cost \in Nat /\ cost >= EmissionGas
      BY <1>0
    <3>3. ~Exceeds(cost) => n = cost
      BY <1>0 DEF Exceeds
    <3> HIDE DEF n, cost
    <3> QED BY <1>2, <3>1, <3>2, <3>3
  <2> QED BY <2>1, <2>2
<1>4. CASE \E action \in PlainActions : Emit(action, ok)
  <2>1. PICK action \in PlainActions : Emit(action, ok)
    BY <1>4
  <2>2. /\ Running /\ charge(EmissionGas) /\ Quiet /\ UNCHANGED prepaid
        /\ UNCHANGED emissions \/ (~Exceeds(EmissionGas) /\ add(action, 0))
    BY <2>1 DEF Emit, Throws, Goes, runVars
  <2>3. EmissionGas >= EmissionGas
    BY <1>0
  <2> QED BY <1>0, <1>2, <2>2, <2>3
<1>5. ASSUME NEW g \in CallLimits, execute(ok, g) PROVE QueueInv'
  <2> DEFINE cost == EmissionGas + g
  <2>1. Running /\ (Refused \/ (~(cost > Remaining) /\ ~CapRefuses /\ Prepaid("EXECUTE", cost, g)))
    BY <1>5 DEF execute
  <2>2. g \in Nat /\ cost \in Nat /\ cost >= EmissionGas + g
    BY <1>0, SumOf
  <2>3. CASE Refused
    BY <1>1, <2>1, <2>3
  <2>4. CASE ~(cost > Remaining) /\ ~CapRefuses /\ Prepaid("EXECUTE", cost, g)
    <3>1. used + cost <= ceiling
      BY <1>0, <2>2, <2>4 DEF Remaining
    <3>2. cost = CallCost([action |-> "EXECUTE", reserves |-> g])
      BY DEF CallCost
    <3> HIDE DEF cost
    <3> QED BY <2>1, <2>2, <2>4, <3>1, <3>2, PrepaidQueue
  <2> QED BY <2>1, <2>3, <2>4
<1>6. ASSUME NEW g \in CallLimits, crossExecute(ok, g) PROVE QueueInv'
  <2> DEFINE cost == EmissionGas + XcallGas + g
  <2>1. Running /\ (Refused \/ (~(cost > Remaining) /\ ~CapRefuses /\ Prepaid("XCALL", cost, g)))
    BY <1>6 DEF crossExecute
  <2>2. g \in Nat /\ cost \in Nat /\ cost >= EmissionGas + g
    BY <1>0
  <2>3. CASE Refused
    BY <1>1, <2>1, <2>3
  <2>4. CASE ~(cost > Remaining) /\ ~CapRefuses /\ Prepaid("XCALL", cost, g)
    <3>1. used + cost <= ceiling
      BY <1>0, <2>2, <2>4 DEF Remaining
    <3>2. cost = CallCost([action |-> "XCALL", reserves |-> g])
      BY DEF CallCost
    <3> HIDE DEF cost
    <3> QED BY <2>1, <2>2, <2>4, <3>1, <3>2, PrepaidQueue
  <2> QED BY <2>1, <2>3, <2>4
<1> QED BY <1>3, <1>4, <1>5, <1>6

\* The classifier and the return settle on the whole queue or on nothing.
LEMMA SettlesQueue ==
    ASSUME IInv, IInv', QueueInv, classifyError \/ Return
    PROVE  QueueInv'
<1>0. GasInv /\ GasInv' /\ UNCHANGED gasVars
  BY DEF IInv, classifyError, Return, SettleError
<1>1. used' >= used /\ ceiling' = ceiling
  BY <1>0 DEF gasVars, GasInv
<1>2. ASSUME NEW status, NEW g, status # "success", Settle(errorResult(status, g)) PROVE QueueInv'
  BY <1>0, <1>1, <1>2, QueueFails
<1>3. CASE classifyError
  <2>1. VerdictOf.status # "success"
    BY <1>3, VerdictFacts DEF classifyError
  <2> QED BY <1>2, <1>3, <2>1 DEF classifyError, SettleError
<1>4. CASE Return
  <2> DEFINE r == [status |-> "success", gasUsed |-> used, changes |-> changes,
                   deletes |-> deletes, emitted |-> emissions, logs |-> logs]
  <2>1. \/ SettleError("out_of_gas", ceiling) \/ SettleError("error", used)
        \/ Settle(r)
    BY <1>4 DEF Return
  <2>2. CASE Settle(r)
    <3>1. r.status = "success" /\ r.emitted = emissions
      OBVIOUS
    <3> HIDE DEF r
    <3> QED BY <1>0, <1>1, <2>2, <3>1, QueueSettled
  <2> QED BY <1>2, <2>1, <2>2 DEF SettleError
<1> QED BY <1>3, <1>4

\* Every step of a run keeps its queue paid for (gateway_emit, collector.js).
THEOREM QueueInvHolds == Spec => []QueueInv
<1>1. IInv /\ IInv' /\ QueueInv /\ [Next]_vars => QueueInv'
  <2> SUFFICES ASSUME IInv, IInv', QueueInv, [Next]_vars PROVE QueueInv'
    OBVIOUS
  <2>1. CASE RefuseCodeSize \/ Setup
    BY <2>1, SetupQueue
  <2>2. CASE Contract \/ Machine
    <3>1. CASE \E ok \in BOOLEAN :
                  \/ request(ok)
                  \/ \E action \in PlainActions : Emit(action, ok)
                  \/ \E g \in CallLimits : execute(ok, g) \/ crossExecute(ok, g)
      BY <3>1, EmitQueue
    <3>2. CASE Return
      BY <3>2, SettlesQueue
    <3> QED BY <2>2, <3>1, <3>2, QuietQueue DEF Contract
  <2>3. CASE classifyError
    BY <2>3, SettlesQueue
  <2>4. CASE Finished \/ UNCHANGED vars
    <3>1. UNCHANGED <<emissions, prepaid, gates, used, ceiling, phase, result>>
      BY <2>4 DEF Finished, vars, gasVars, collectorVars, runVars
    <3> QED BY <3>1 DEF QueueInv, FundedByCaller, PaidMeansQueued, AllOrNothing, Reserved,
                        CallCosts, Settled
  <2> QED BY <2>1, <2>2, <2>3, <2>4 DEF Next
<1> QED BY <1>1, InitQueueInv, IInvHolds, PTL DEF Spec

\* The fees and the budgets of everything a run has queued come out of its own
\* ceiling, for every price list and any sequence of calls ("total work per
\* top-level EXECUTE can never exceed the caller's own ceiling", same_chain.js).
THEOREM FundedByCallerHolds == Spec => []FundedByCaller
<1>1. QueueInv => FundedByCaller
  BY DEF QueueInv
<1> QED BY <1>1, QueueInvHolds, PTL

\* Past the host-call bounds gate the gas charged for calls of other contracts is
\* the cost of the calls in the queue: none is billed that is not queued.
THEOREM PaidMeansQueuedHolds == Spec => []PaidMeansQueued
<1>1. QueueInv => PaidMeansQueued
  BY DEF QueueInv
<1> QED BY <1>1, QueueInvHolds, PTL

\* A run hands over all it queued, within the cap, or nothing at all (execute.js).
THEOREM AllOrNothingHolds == Spec => []AllOrNothing
<1>1. QueueInv => AllOrNothing
  BY DEF QueueInv
<1> QED BY <1>1, QueueInvHolds, PTL
-------------------------------------------------------------------------------
(***************************************************************************)
(* The state a run writes (StateStore), for every set of names, every pair *)
(* of refusals and every limit: the running count of live keys is exact,   *)
(* what the indexer is told to write is what the contract read, and the    *)
(* overlay implements the bounded map of KeyValueStore.                    *)
(*                                                                         *)
(* The count is only right while the overlay is canonical.  A canonical    *)
(* overlay may stop being one, but it never becomes one again: no          *)
(* operation gives an overlay entry back to Clean.  So the implication is  *)
(* inductive with no more than the types and what the choke point gives.   *)
(***************************************************************************)
\* With the gate armed every key passed the choke point.
ChokePoint == normalizeKeys => Canonical

StoreInv == StoreTypeOK /\ ChokePoint /\ CountIsExact

\* A key that reaches the overlay under the gate is its string key.
LEMMA NormKeyIsString ==
  ASSUME NEW a \in Args, normalizeKeys, ~KeyThrows(a)
  PROVE  normKey(a) = StringKey(a.name)
  BY DEF normKey, KeyThrows, StringKey

\* A string key is a key of the overlay, and the only canonical one of its name.
LEMMA StringKeyIsKey ==
  ASSUME NEW n \in Names
  PROVE  /\ StringKey(n) \in Keys
         /\ StringKey(n).name = n
         /\ \A k \in Keys : k.type = "string" /\ k.nr = 0 /\ k.name = n => k = StringKey(n)
  BY StoreAssumption DEF StringKey, Keys

\* The live names are finitely many, so they can be counted.
LEMMA LiveFinite == IsFiniteSet(LiveNames) /\ Cardinality(LiveNames) \in Nat
  BY StoreAssumption, FS_Subset, FS_CardinalityType DEF LiveNames

\* What a contract reads has the type of a row: get() never shows the mark of
\* a key the overlay does not hold.
LEMMA ViewType ==
  ASSUME StoreTypeOK
  PROVE  View \in [Names -> Values \cup {Nil}]
  BY StringKeyIsKey DEF StoreTypeOK, View, get

\* Writing one string key into the overlay changes the view at its name only.
LEMMA ViewAfterWrite ==
  ASSUME StoreTypeOK, NEW n \in Names, NEW v \in Values \cup {Nil},
         dirty' = [dirty EXCEPT ![StringKey(n)] = v], base' = base
  PROVE  /\ View' = [View EXCEPT ![n] = v]
         /\ LiveNames' = IF v = Nil THEN LiveNames \ {n} ELSE LiveNames \cup {n}
<1>1. v # Clean
  BY StoreAssumption DEF Nil, Clean
<1>2. \A m \in Names : View'[m] = IF m = n THEN v ELSE View[m]
  BY <1>1, StringKeyIsKey DEF StoreTypeOK, View, get, StringKey
<1>3. View' = [View EXCEPT ![n] = v]
  BY <1>2 DEF View
<1>4. \A m : m \in LiveNames' <=> m \in IF v = Nil THEN LiveNames \ {n} ELSE LiveNames \cup {n}
  BY <1>2 DEF LiveNames
<1> QED
  BY <1>3, <1>4
-------------------------------------------------------------------------------
\* What set() does: only a storable value is written, and while the overlay
\* stays canonical the key written is the string key of its name.
LEMMA SetWrites ==
  ASSUME StoreInv, NEW a \in Args, NEW v \in Values \cup Unstorable, set(a, v)
  PROVE  /\ v \in Values
         /\ a.name \in Names
         /\ normalizeKeys \/ Canonical' => normKey(a) = StringKey(a.name)
         /\ Canonical' => Canonical
<1>1. v \in Values /\ a.name \in Names /\ ~KeyThrows(a)
  BY DEF set, setThrows, Args
<1>2. v # Clean
  BY <1>1, StoreAssumption
<1>3. normKey(a) \in Keys /\ dirty' = [dirty EXCEPT ![normKey(a)] = v]
  BY DEF set
<1>4. ASSUME Canonical' PROVE normKey(a).type = "string" /\ normKey(a).nr = 0
  BY <1>2, <1>3, <1>4 DEF Canonical, StoreInv, StoreTypeOK
<1>5. Canonical' => normKey(a) = StringKey(a.name)
  BY <1>1, <1>3, <1>4, StringKeyIsKey DEF normKey
<1>6. Canonical' => Canonical
  BY <1>3, <1>4 DEF Canonical, StoreInv, StoreTypeOK
<1> QED
  BY <1>1, <1>5, <1>6, NormKeyIsString

\* What delete() does: the same for the key it marks, when it marks one.
LEMMA DeleteMarks ==
  ASSUME StoreInv, NEW a \in Args, delete(a), has(normKey(a))
  PROVE  /\ a.name \in Names
         /\ dirty' = [dirty EXCEPT ![normKey(a)] = Nil]
         /\ keyCount' = keyCount - 1
         /\ normalizeKeys \/ Canonical' => normKey(a) = StringKey(a.name)
         /\ Canonical' => Canonical
<1>1. /\ a.name \in Names /\ ~KeyThrows(a) /\ normKey(a) \in Keys
      /\ dirty' = [dirty EXCEPT ![normKey(a)] = Nil] /\ keyCount' = keyCount - 1
  BY DEF delete, deleteThrows, Args
<1>2. ASSUME Canonical' PROVE normKey(a).type = "string" /\ normKey(a).nr = 0
  BY <1>1, <1>2 DEF Canonical, StoreInv, StoreTypeOK, Nil, Clean
<1>3. Canonical' => normKey(a) = StringKey(a.name)
  BY <1>1, <1>2, StringKeyIsKey DEF normKey
<1>4. Canonical' => Canonical
  BY <1>1, <1>2 DEF Canonical, StoreInv, StoreTypeOK
<1> QED
  BY <1>1, <1>3, <1>4, NormKeyIsString

\* Whether the key is live is whether its name is, on string keys.
LEMMA HasIsLive ==
  ASSUME NEW n \in Names
  PROVE  has(StringKey(n)) <=> n \in LiveNames
  BY DEF has, LiveNames, View

\* One set() preserves the invariant.
LEMMA SetStep ==
  ASSUME StoreInv, NEW a \in Args, NEW v \in Values \cup Unstorable, set(a, v)
  PROVE  StoreInv'
<1>0. /\ v \in Values /\ a.name \in Names
      /\ normalizeKeys \/ Canonical' => normKey(a) = StringKey(a.name)
      /\ Canonical' => Canonical
  BY SetWrites
<1> USE <1>0 DEF StoreInv
<1>1. StoreTypeOK'
  BY DEF StoreTypeOK, set
<1>2. ChokePoint'
  BY StringKeyIsKey DEF ChokePoint, Canonical, set, StoreTypeOK, StringKey
<1>3. ASSUME Canonical' PROVE keyCount' = Cardinality(LiveNames')
  <2> USE <1>3
  <2>1. LiveNames' = LiveNames \cup {a.name}
    BY ViewAfterWrite, StoreAssumption DEF set
  <2>2. keyCount' = IF a.name \in LiveNames THEN keyCount ELSE keyCount + 1
    BY HasIsLive DEF set
  <2>3. keyCount = Cardinality(LiveNames)
    BY DEF CountIsExact
  <2> QED
    BY <2>1, <2>2, <2>3, LiveFinite, FS_AddElement
<1> QED
  BY <1>1, <1>2, <1>3 DEF CountIsExact

\* One delete() preserves the invariant.
LEMMA DeleteStep ==
  ASSUME StoreInv, NEW a \in Args, delete(a)
  PROVE  StoreInv'
<1>1. CASE ~has(normKey(a))
  <2>1. UNCHANGED storeVars
    BY <1>1 DEF delete, storeVars
  <2> QED
    BY <2>1 DEF StoreInv, StoreTypeOK, ChokePoint, CountIsExact, Canonical, LiveNames, View, get,
                storeVars
<1>2. CASE has(normKey(a))
  <2> USE <1>2, DeleteMarks DEF StoreInv
  <2>1. StoreTypeOK'
    BY DEF StoreTypeOK, delete
  <2>2. ChokePoint'
    BY StringKeyIsKey DEF ChokePoint, Canonical, delete, StoreTypeOK, StringKey
  <2>3. ASSUME Canonical' PROVE keyCount' = Cardinality(LiveNames')
    <3> USE <2>3
    <3>1. LiveNames' = LiveNames \ {a.name}
      BY ViewAfterWrite DEF delete
    <3>2. a.name \in LiveNames
      BY HasIsLive
    <3>3. keyCount = Cardinality(LiveNames)
      BY DEF CountIsExact
    <3> QED
      BY <3>1, <3>2, <3>3, LiveFinite, FS_RemoveElement
  <2> QED
    BY <2>1, <2>2, <2>3 DEF CountIsExact
<1> QED
  BY <1>1, <1>2
-------------------------------------------------------------------------------
\* The invariant holds when the overlay is made: the count starts at the number
\* of rows in the snapshot.
LEMMA StoreInvInit == StoreInit => StoreInv
<1> SUFFICES ASSUME StoreInit PROVE StoreInv
  OBVIOUS
<1>1. LiveNames = Snapshot
  BY StringKeyIsKey DEF LiveNames, View, get, Snapshot, StoreInit
<1>2. IsFiniteSet(Snapshot)
  BY StoreAssumption, FS_Subset DEF Snapshot
<1>3. StoreTypeOK
  BY <1>2, FS_CardinalityType, StoreAssumption DEF StoreTypeOK, StoreInit
<1> QED
  BY <1>1, <1>3 DEF StoreInv, ChokePoint, CountIsExact, Canonical, StoreInit

\* No operation, and no stuttering, breaks it.
LEMMA StoreInvStep == StoreInv /\ [StoreNext]_storeVars => StoreInv'
<1> SUFFICES ASSUME StoreInv, [StoreNext]_storeVars PROVE StoreInv'
  OBVIOUS
<1>1. CASE StoreNext
  BY <1>1, SetStep, DeleteStep DEF StoreNext
<1>2. CASE UNCHANGED storeVars
  BY <1>2 DEF StoreInv, StoreTypeOK, ChokePoint, CountIsExact, Canonical, LiveNames, View, get,
              storeVars
<1> QED
  BY <1>1, <1>2

\* The inductive invariant holds throughout.
LEMMA StoreInvariant == StoreSpec => []StoreInv
  BY StoreInvInit, StoreInvStep, PTL DEF StoreSpec

\* The state manager keeps its types: get() and keyCount are what their users
\* in state.js take them for.
THEOREM StoreTypes == StoreSpec => []StoreTypeOK
  BY StoreInvariant, PTL DEF StoreInv

\* keyCount, kept up to date by keyCount++ in set() and keyCount-- in delete(),
\* is the number of live keys whatever was set, overwritten, deleted and
\* created again, for any number of names and any limit.
THEOREM CountExact == StoreSpec => []CountIsExact
  BY StoreInvariant, PTL DEF StoreInv
-------------------------------------------------------------------------------
\* A canonical overlay has one entry for a name: the row written for it, the
\* row removed, or neither, according to that entry alone.
LEMMA RowsOfName ==
  ASSUME StoreTypeOK, Canonical, NEW n \in Names
  PROVE  LET d == dirty[StringKey(n)] IN
         /\ {c \in changes : c.key.name = n}
              = IF d \in {Clean, Nil} THEN {} ELSE {[key |-> StringKey(n), value |-> d]}
         /\ {k \in deletes : k.name = n} = IF d = Nil THEN {StringKey(n)} ELSE {}
<1>1. \A k \in Keys : k.name = n /\ dirty[k] # Clean => k = StringKey(n)
  BY StringKeyIsKey DEF Canonical
<1>2. StringKey(n) \in Keys /\ StringKey(n).name = n
  BY StringKeyIsKey
<1>3. {k \in deletes : k.name = n} = IF dirty[StringKey(n)] = Nil THEN {StringKey(n)} ELSE {}
  BY <1>1, <1>2 DEF deletes, Nil, Clean
<1>4. ASSUME NEW c \in changes, c.key.name = n
      PROVE  /\ c = [key |-> StringKey(n), value |-> dirty[StringKey(n)]]
             /\ dirty[StringKey(n)] \notin {Clean, Nil}
  BY <1>1, <1>4 DEF changes
<1>5. dirty[StringKey(n)] \notin {Clean, Nil} =>
        [key |-> StringKey(n), value |-> dirty[StringKey(n)]] \in changes
  BY <1>2 DEF changes
<1> QED
  BY <1>2, <1>3, <1>4, <1>5

\* Two sets with one element between them.
LEMMA AtMostOne ==
  ASSUME NEW C, NEW D, (C = {} /\ (D = {} \/ \E x : D = {x})) \/ (D = {} /\ \E x : C = {x})
  PROVE  Cardinality(C) + Cardinality(D) <= 1
<1>1. ASSUME NEW S, S = {} PROVE Cardinality(S) = 0
  BY <1>1, FS_EmptySet
<1>2. ASSUME NEW S, \E x : S = {x} PROVE Cardinality(S) = 1
  BY <1>2, FS_Singleton
<1>3. /\ Cardinality(C) = 0 \/ Cardinality(C) = 1
      /\ Cardinality(D) = 0 \/ Cardinality(D) = 1
      /\ Cardinality(C) = 0 \/ Cardinality(D) = 0
  BY <1>1, <1>2
<1> QED
  BY <1>3

\* Applying getChanges() to the snapshot gives what the contract last read, row
\* by row, and no row is written twice or both written and removed: the order
\* in which the indexer applies the rows cannot matter.
THEOREM ChangesExact == StoreSpec => []ChangesAreTheView
<1>1. ASSUME StoreInv PROVE ChangesAreTheView
  <2> SUFFICES ASSUME normalizeKeys, NEW n \in Names
               PROVE  /\ Applied(n) = View[n]
                      /\ Cardinality({c \in changes : c.key.name = n})
                           + Cardinality({k \in deletes : k.name = n}) <= 1
    BY DEF ChangesAreTheView
  <2> DEFINE d == dirty[StringKey(n)]
             C == {c \in changes : c.key.name = n}
             D == {k \in deletes : k.name = n}
  <2>1. /\ C = IF d \in {Clean, Nil} THEN {} ELSE {[key |-> StringKey(n), value |-> d]}
        /\ D = IF d = Nil THEN {StringKey(n)} ELSE {}
    BY <1>1, RowsOfName DEF StoreInv, ChokePoint
  <2>2. View[n] = IF d # Clean THEN d ELSE base[n]
    BY StringKeyIsKey DEF View, get
  <2>3. Cardinality(C) + Cardinality(D) <= 1
    <3> HIDE DEF C, D
    <3>1. (C = {} /\ (D = {} \/ \E x : D = {x})) \/ (D = {} /\ \E x : C = {x})
      BY <2>1 DEF Nil, Clean
    <3> QED
      BY <3>1, AtMostOne
  <2>4. Applied(n) = View[n]
    <3>1. CASE d \notin {Clean, Nil}
      <4>1. C = {[key |-> StringKey(n), value |-> d]}
        BY <2>1, <3>1
      <4>2. \E c \in changes : c.key.name = n
        BY <4>1
      <4>3. (CHOOSE c \in changes : c.key.name = n) \in C
        BY <4>2
      <4> QED
        BY <2>2, <3>1, <4>1, <4>2, <4>3 DEF Applied
    <3>2. CASE d = Nil
      BY <2>1, <2>2, <3>2 DEF Applied, Nil, Clean
    <3>3. CASE d = Clean
      BY <2>1, <2>2, <3>3 DEF Applied, Nil, Clean
    <3> QED
      BY <3>1, <3>2, <3>3
  <2> QED
    BY <2>3, <2>4
<1> QED
  BY <1>1, StoreInvariant, PTL
-------------------------------------------------------------------------------
(***************************************************************************)
(* The refinement: a set() is a put, a delete() of a live key a removal,   *)
(* and a delete() of any other key no step at all.                         *)
(***************************************************************************)
\* The fresh overlay is the snapshot: a legal store.
LEMMA RefinesInit == StoreInit => KV!Init
<1> SUFFICES ASSUME StoreInit PROVE KV!Init
  OBVIOUS
<1>1. View \in [Names -> Values \cup {Nil}]
  BY StoreInvInit, ViewType DEF StoreInv
<1> QED
  BY <1>1 DEF KV!Init, StoreInit

\* Under the gate the live names of the promised store are the counted ones.
LEMMA RefinesLive == ASSUME normalizeKeys PROVE KV!Live = LiveNames
  BY DEF KV!Live, LiveNames

\* Both modules count with the same operator.
LEMMA SameCount == ASSUME NEW S PROVE KV!Cardinality(S) = Cardinality(S)
  BY DEF KV!Cardinality, Cardinality

\* A set() that does not throw is a put with room for it, because the count the
\* limit is compared with is exact.
LEMMA SetRefines ==
  ASSUME StoreInv, NEW a \in Args, NEW v \in Values \cup Unstorable, set(a, v), normalizeKeys
  PROVE  KV!Put(a.name, v) /\ a.name \in Names /\ v \in Values
<1>1. v \in Values /\ a.name \in Names /\ normKey(a) = StringKey(a.name)
  BY SetWrites
<1>2. View' = [View EXCEPT ![a.name] = v] /\ normalizeKeys'
  BY <1>1, ViewAfterWrite DEF set, StoreInv
<1>3. keyCount = Cardinality(LiveNames)
  BY DEF StoreInv, ChokePoint, CountIsExact
<1>4. a.name \in LiveNames \/ Cardinality(LiveNames) < MaxStateKeys
  BY <1>1, <1>3, HasIsLive, LiveFinite, StoreAssumption DEF set, setThrows
<1> QED
  BY <1>1, <1>2, <1>4, RefinesLive, SameCount DEF KV!Put

\* A delete() of a live key is a removal; of any other, nothing changes.
LEMMA DeleteRefines ==
  ASSUME StoreInv, NEW a \in Args, delete(a), normalizeKeys
  PROVE  (KV!Remove(a.name) /\ a.name \in Names) \/ UNCHANGED storeVars
<1>1. CASE has(normKey(a))
  <2>1. a.name \in Names /\ normKey(a) = StringKey(a.name)
        /\ dirty' = [dirty EXCEPT ![StringKey(a.name)] = Nil]
    BY <1>1, DeleteMarks
  <2>2. View' = [View EXCEPT ![a.name] = Nil] /\ normalizeKeys'
    BY <2>1, ViewAfterWrite DEF delete, StoreInv
  <2> QED
    BY <1>1, <2>1, <2>2, HasIsLive, RefinesLive DEF KV!Remove
<1>2. CASE ~has(normKey(a))
  BY <1>2 DEF delete, storeVars
<1> QED
  BY <1>1, <1>2

\* Every step of the overlay is a step of the promised store or none.
LEMMA RefinesStep ==
  StoreInv /\ [StoreNext]_storeVars =>
    [KV!Next]_(IF normalizeKeys THEN View ELSE base)
<1> SUFFICES ASSUME StoreInv, [StoreNext]_storeVars
             PROVE  KV!Next \/ UNCHANGED (IF normalizeKeys THEN View ELSE base)
  OBVIOUS
<1>1. CASE UNCHANGED storeVars
  BY <1>1 DEF storeVars, View, get
<1>2. CASE StoreNext /\ ~normalizeKeys
  BY <1>2 DEF StoreNext, set, delete
<1>3. ASSUME NEW a \in Args, NEW v \in Values \cup Unstorable, set(a, v), normalizeKeys
      PROVE  KV!Next
  BY <1>3, SetRefines DEF KV!Next
<1>4. ASSUME NEW a \in Args, delete(a), normalizeKeys
      PROVE  KV!Next \/ UNCHANGED storeVars
  BY <1>4, DeleteRefines DEF KV!Next
<1> QED
  BY <1>1, <1>2, <1>3, <1>4 DEF StoreNext

\* StateManager implements the bounded map of KeyValueStore once keys are
\* canonical: reads see the last write, and a new name is only taken while
\* fewer than limits.maxStateKeys are live.
THEOREM StoreRefinesMap == StoreSpec => ImplementsStore
  BY StoreInvariant, RefinesInit, RefinesStep, PTL DEF StoreSpec, ImplementsStore, KV!Spec
===============================================================================
