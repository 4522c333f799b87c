----------------------------- MODULE BuiltinMeters ----------------------------
(***************************************************************************)
(* The gas of the built-ins that the harness wraps                         *)
(* (src/index/runtime/harness_part_1.js to _5.js, and the rules of         *)
(* src/index/armed_harness that edit them): what each wrapper charges      *)
(* before it calls the native, what it charges once it sees the result,    *)
(* and the set algebra past the per-element activation, which pays for the *)
(* keys a set-like argument really yields.                                 *)
(*                                                                         *)
(* A call is a built-in with the size of its receiver n, the size (or the  *)
(* number) m of its argument and the size r of its result.  Receivers and  *)
(* arguments are genuine arrays, strings and sets, except for the set-like *)
(* argument, whose size and keys are contract code.  The natives that walk *)
(* a receiver and call back are SparseProbe's.                             *)
(***************************************************************************)
EXTENDS SparseProbe, FiniteSets

CONSTANTS
    Sizes,              \* sizes of receivers, arguments and results
    GateSets,           \* the gates that are open
    Budgets,            \* gas left when the calls begin
    BPE,                \* BYTES_PER_ELEMENT
    GROW_THRESHOLD,     \* __GROW_THRESHOLD
    TALLY_BATCH,        \* keys that are charged at once (256)
    MaxCalls            \* bound

ASSUME SizesAssumption == Sizes \subseteq Nat /\ Budgets \subseteq Nat
ASSUME MetersAssumption == BPE \in Nat /\ GROW_THRESHOLD \in Nat /\ TALLY_BATCH \in Nat \ {0}
ASSUME CallsAssumption == MaxCalls \in Nat

VARIABLES
    gates,          \* the gates of this execution
    gasLeft,
    wrapper,        \* the call under way
    nativeWork,     \* what the natives walked and built so far (history)
    gasPaid,
    unpaid,         \* work of the calls whose own charge found no gas (history)
    lastLike,       \* the last set-like argument: claim, keys and charge
    callsLeft

meterVars == <<gates, gasLeft, wrapper, nativeWork, gasPaid, unpaid, lastLike, callsLeft>>

AllGates == {"upgrade", "pkg3", "iterSet", "applyLength", "stringResult", "perElement"}
-------------------------------------------------------------------------------
Larger(a, b) == IF a > b THEN a ELSE b

\* __allocGas: a size of one is free.
allocGas(n) == IF n > 1 THEN n ELSE 0
gasOver(n) == IF n > GROW_THRESHOLD THEN n ELSE 0

\* lg: how often 1 is doubled before it is not below n.
Lg(n) == Cardinality({k \in 0 .. n - 1 : 2^k < n})

\* A wrapper's charges, and the work its native does.
Meter(before, after, work) == [before |-> before, after |-> after, work |-> work]
Before(charge, work) == Meter(charge, 0, work)
After(charge, work) == Meter(0, charge, work)
When(open, charge) == IF open THEN charge ELSE 0

fill(g, n, m, r) == Before(allocGas(n), n)
\* Array.from: the source has a length, a size, or only an iterator.
fromLength(g, n, m, r) == Before(allocGas(m), m)
fromSize(g, n, m, r) == Before(When("upgrade" \in g, allocGas(m)), m)
fromIterator(g, n, m, r) == After(When("upgrade" \in g, allocGas(r)), r)
repeat(g, n, m, r) == Before(allocGas(m * n), m * n)
pad(g, n, m, r) == Before(allocGas(m), IF m > n THEN m ELSE 0)

\* The binary and collection constructors, by what they are given.
meterBinaryCtor(g, n, m, r) == Before(When("upgrade" \in g, allocGas(m * BPE)), m * BPE)
binaryFromIterator(g, n, m, r) == After(When("upgrade" \in g, allocGas(r * BPE)), r * BPE)
\* The constructor adds through the metered add or set, one unit each.
meterCollectionCtor(g, n, m, r) == Meter(When("pkg3" \in g, allocGas(m)), m, m)
collectionFromIterator(g, n, m, r) == After(m + When("pkg3" \in g, allocGas(r)), m)
meterCollectionMutator(g, n, m, r) == Before(1, 1)
meterGlobalFn(g, n, m, r) == Before(When("upgrade" \in g, allocGas(m)), m)

\* indexOf, slice, split, trim...; the typed arrays' only past the flag day.
meterLen(g, n, m, r) == Before(allocGas(n), n)
typedMeterLen(g, n, m, r) == Before(When("upgrade" \in g, allocGas(n)), n)
\* Without a comparator; m is the length of the strings that are compared.
msort(g, n, m, r) ==
    Before(IF "upgrade" \in g /\ n > 1 THEN allocGas(n * Lg(n) + m) ELSE allocGas(n), n * Lg(n))
tasort(g, n, m, r) ==
    Before(When("upgrade" \in g, IF n > 1 THEN allocGas(n * Lg(n)) ELSE allocGas(n)), n * Lg(n))
\* join and flat of a flat array: the depth guard pays for its scan of it.
nativeDepthScan(n) == 1 + allocGas(n)
ajoin(g, n, m, r) ==
    IF "upgrade" \in g THEN Meter(nativeDepthScan(n), allocGas(r), n + r)
    ELSE Before(allocGas(n), n + r)
typedJoin(g, n, m, r) == After(When("upgrade" \in g, allocGas(r)), r)
taset(g, n, m, r) == Before(When("upgrade" \in g, allocGas(m)), m)
mreplace(g, n, m, r) ==
    IF "upgrade" \in g THEN After(allocGas(Larger(n, r)), Larger(n, r))
    ELSE Before(allocGas(n), Larger(n, r))
concat(g, n, m, r) == Before(allocGas(n + m), n + m)
meterObjStatic(g, n, m, r) == After(allocGas(r), r)

\* The helpers of the metering transform.
arrspread(g, n, m, r) == After(gasOver(m), m)
objspread(g, n, m, r) == After(IF "perElement" \in g THEN m ELSE gasOver(m), m)

setAlgebra(g, n, m, r) ==
    Before(When("iterSet" \in g \/ "perElement" \in g, allocGas(n + m)), n + m)
iterToArray(g, n, m, r) == After(When("iterSet" \in g, allocGas(r)), r)
iterDrop(g, n, m, r) == Before(When("iterSet" \in g, allocGas(m)), m)
\* A unit for every call of the callback, or of the helper's next.
iterCallback(g, n, m, r) == Before(When("perElement" \in g, n), n)
fnApply(g, n, m, r) == Before(When("applyLength" \in g, gasOver(m)), m)
meterStringResult(g, n, m, r) == After(When({"applyLength", "stringResult"} \subseteq g, allocGas(r)), r)
\* m segments.
stringRaw(g, n, m, r) ==
    LET result == IF "perElement" \in g THEN "stringResult" \in g
                  ELSE {"applyLength", "stringResult"} \subseteq g
    IN  Meter(When("perElement" \in g, allocGas(m)), When(result, allocGas(r)), m + r)
resize(g, n, m, r) == Before(When("applyLength" \in g, allocGas(m)), m)

Meters(g, n, m, r) ==
    [fill |-> fill(g, n, m, r), fromLength |-> fromLength(g, n, m, r), fromSize |-> fromSize(g, n, m, r),
     fromIterator |-> fromIterator(g, n, m, r), repeat |-> repeat(g, n, m, r), pad |-> pad(g, n, m, r),
     binaryCtor |-> meterBinaryCtor(g, n, m, r), binaryFromIterator |-> binaryFromIterator(g, n, m, r),
     collectionCtor |-> meterCollectionCtor(g, n, m, r),
     collectionFromIterator |-> collectionFromIterator(g, n, m, r),
     collectionMutator |-> meterCollectionMutator(g, n, m, r), globalFn |-> meterGlobalFn(g, n, m, r),
     meterLen |-> meterLen(g, n, m, r), typedMeterLen |-> typedMeterLen(g, n, m, r),
     sort |-> msort(g, n, m, r), typedSort |-> tasort(g, n, m, r), join |-> ajoin(g, n, m, r),
     typedJoin |-> typedJoin(g, n, m, r), typedSet |-> taset(g, n, m, r), replace |-> mreplace(g, n, m, r),
     concat |-> concat(g, n, m, r), objStatic |-> meterObjStatic(g, n, m, r),
     arrspread |-> arrspread(g, n, m, r), objspread |-> objspread(g, n, m, r),
     setAlgebra |-> setAlgebra(g, n, m, r), toArray |-> iterToArray(g, n, m, r),
     drop |-> iterDrop(g, n, m, r), iterCallback |-> iterCallback(g, n, m, r), apply |-> fnApply(g, n, m, r),
     html |-> meterStringResult(g, n, m, r), raw |-> stringRaw(g, n, m, r), resize |-> resize(g, n, m, r)]
-------------------------------------------------------------------------------
NoCall == [at |-> "none"]
OutOfGas == [at |-> "fault"]

\* All of n, or the gas of the execution is gone.
Charge(n) == gasLeft' = Larger(gasLeft - n, 0) /\ gasPaid' = gasPaid + (IF n <= gasLeft THEN n ELSE gasLeft)
Pays(n) == n <= gasLeft

\* The contract calls a wrapped built-in.
CallBuiltin(n, m, r) ==
    /\ wrapper = NoCall /\ callsLeft > 0
    /\ callsLeft' = callsLeft - 1
    /\ LET meters == Meters(gates, n, m, r)
       IN  \E name \in DOMAIN meters :
              /\ Charge(meters[name].before)
              /\ wrapper' = IF Pays(meters[name].before)
                            THEN [at |-> "native", static |-> name = "objStatic",
                                  after |-> meters[name].after, work |-> meters[name].work]
                            ELSE OutOfGas
    /\ UNCHANGED <<gates, nativeWork, unpaid, lastLike>>

RunNative ==
    /\ wrapper.at = "native"
    /\ nativeWork' = nativeWork + wrapper.work
    /\ wrapper' = [wrapper EXCEPT !.at = "after"]
    /\ UNCHANGED <<gates, gasLeft, gasPaid, unpaid, lastLike, callsLeft>>

\* The object statics drop the error of their own charge.
ChargeAfter ==
    /\ wrapper.at = "after"
    /\ Charge(wrapper.after)
    /\ wrapper' = IF Pays(wrapper.after) \/ wrapper.static THEN NoCall ELSE OutOfGas
    /\ unpaid' = unpaid + (IF Pays(wrapper.after) THEN 0 ELSE wrapper.work)
    /\ UNCHANGED <<gates, nativeWork, lastLike, callsLeft>>
-------------------------------------------------------------------------------
(***************************************************************************)
(* __pemMeterSetMethod with a set-like argument: claim is its size when it *)
(* is a number, keys() yields as long as the contract likes.               *)
(***************************************************************************)
CallSetLike(n, claim) ==
    /\ "perElement" \in gates
    /\ wrapper = NoCall /\ callsLeft > 0
    /\ callsLeft' = callsLeft - 1
    /\ Charge(allocGas(n + claim))
    /\ wrapper' = IF Pays(allocGas(n + claim))
                  THEN [at |-> "keys", n |-> n, claim |-> claim, walked |-> 0, pending |-> 0,
                        paid |-> allocGas(n + claim)]
                  ELSE OutOfGas
    /\ UNCHANGED <<gates, nativeWork, unpaid, lastLike>>

\* A batch that is charged before its last key is counted.
TallyShort(c) ==
    IF c.walked + 1 <= c.claim THEN [pending |-> c.pending, due |-> 0]
    ELSE IF c.pending + 1 = TALLY_BATCH THEN [pending |-> 0, due |-> c.pending]
    ELSE [pending |-> c.pending + 1, due |-> 0]

\* __pemCountedKeys: what one more key adds.
Tally(c) ==
    IF c.walked + 1 <= c.claim THEN [pending |-> c.pending, due |-> 0]
    ELSE IF c.pending + 1 = TALLY_BATCH THEN [pending |-> 0, due |-> TALLY_BATCH]
    ELSE [pending |-> c.pending + 1, due |-> 0]

\* The native asks for a key.
NextKey(most) ==
    /\ wrapper.at = "keys" /\ wrapper.walked < most
    /\ LET t == Tally(wrapper)
       IN  /\ Charge(t.due)
           /\ wrapper' = IF Pays(t.due)
                         THEN [wrapper EXCEPT !.walked = @ + 1, !.pending = t.pending, !.paid = @ + t.due]
                         ELSE OutOfGas
           /\ nativeWork' = nativeWork + (IF Pays(t.due) THEN 1 ELSE 0)
           /\ unpaid' = unpaid + (IF Pays(t.due) THEN 0 ELSE t.due - 1)
    /\ UNCHANGED <<gates, lastLike, callsLeft>>

\* The keys are at an end, the native wants no more, or contract code threw: the
\* finally block charges what is pending.
KeysEnd ==
    /\ wrapper.at = "keys"
    /\ Charge(wrapper.pending)
    /\ wrapper' = IF Pays(wrapper.pending) THEN NoCall ELSE OutOfGas
    /\ lastLike' = IF Pays(wrapper.pending)
                   THEN [n |-> wrapper.n, claim |-> wrapper.claim, walked |-> wrapper.walked,
                         paid |-> wrapper.paid + wrapper.pending]
                   ELSE lastLike
    /\ nativeWork' = nativeWork + wrapper.n
    /\ unpaid' = unpaid + (IF Pays(wrapper.pending) THEN 0 ELSE wrapper.pending)
    /\ UNCHANGED <<gates, callsLeft>>

MetersInit ==
    /\ gates \in GateSets /\ gasLeft \in Budgets
    /\ wrapper = NoCall /\ nativeWork = 0 /\ gasPaid = 0 /\ unpaid = 0
    /\ lastLike = [n |-> 0, claim |-> 0, walked |-> 0, paid |-> 0]
    /\ callsLeft = MaxCalls

MetersNext ==
    \/ \E n, m, r \in Sizes : CallBuiltin(n, m, r)
    \/ RunNative \/ ChargeAfter
    \/ \E n, claim \in Sizes : CallSetLike(n, claim)
    \/ NextKey(2 * TALLY_BATCH + 1) \/ KeysEnd

MetersSpec == MetersInit /\ [][MetersNext]_meterVars
-------------------------------------------------------------------------------
\* A call leaves at most this much of its work free.
FreeWork == Larger(2, GROW_THRESHOLD)

\* The call under way has not paid for this.
Unsettled ==
    CASE wrapper.at = "after" -> wrapper.work
      [] wrapper.at = "keys" -> wrapper.pending
      [] OTHER -> 0

\* Past every gate the work of the natives is bounded by the gas: at any moment,
\* through any sequence of calls, it exceeds what was paid by the free part of
\* each call, the call under way and the calls whose own charge ran out of gas.
WorkIsPaid ==
    gates = AllGates =>
        nativeWork <= gasPaid + FreeWork * (MaxCalls - callsLeft) + Unsettled + unpaid

\* "the total is size(this) + max(claim, keys walked)" (per_element_meter.js),
\* of which one unit is free, whether the walk ended or threw.
KeysArePaid ==
    lastLike.paid = allocGas(lastLike.n + lastLike.claim) + Larger(lastLike.walked - lastLike.claim, 0)

BuiltinsPaid == WorkIsPaid /\ KeysArePaid

\* What the natives behind the wrappers walk is charged, whatever contract code
\* answers in between, and the harness leaves no trace of how it measured
\* (harness_part_1.js to _5.js, per_element_meter.js).
NativeWorkCharged == BuiltinsPaid /\ ProbeLeavesNoTrace /\ WalkIsPaid
===============================================================================
