----------------------------- MODULE NativeStack ------------------------------
(***************************************************************************)
(* The hooks of the armed native stack rule                                *)
(* (src/index/native_stack/harness_hooks.js, joined to the harness by      *)
(* harness_rule.js): a budget of depth units that every metered function,  *)
(* apply, spread call and bind draws on, and the sighting of the engine's  *)
(* own overflow error.                                                     *)
(*                                                                         *)
(* The hooks are globals, so the contract may also call them by hand, with *)
(* any token or site it has, and a native may call them for it, as the     *)
(* valueOf of an argument, say, and go on to call contract code; what the  *)
(* contract cannot do is name the token of a frame the metering transform  *)
(* made.  The native stack itself and where each value came from are       *)
(* history variables.                                                      *)
(***************************************************************************)
EXTENDS Integers, Sequences, FiniteSets

CONSTANTS
    NR_LIMIT,       \* __NR_DEPTH_LIMIT
    Weights,        \* weights of the contract's functions
    ArgCounts,      \* numbers of arguments pushed by an apply or a spread
    CALL_UNITS, ARGS_PER_UNIT, BOUND_ARGS_MAX,
    Sites,          \* call sites with a spread, by the id the transform gave them
    MaxByHand,      \* bound: calls of the hooks the contract makes itself
    MaxCopies       \* bound: applies under way that copy an array-like

ASSUME LimitAssumption == NR_LIMIT \in Nat
ASSUME WeightsAssumption == Weights \subseteq Nat /\ ArgCounts \subseteq Nat
ASSUME UnitsAssumption == CALL_UNITS \in Nat /\ ARGS_PER_UNIT \in Nat \ {0} /\ BOUND_ARGS_MAX \in Nat
ASSUME HandAssumption == MaxByHand \in Nat

VARIABLES
    stackDepth,     \* __stackDepth
    acts,           \* __nstActs, __nstTokens: depth at entry and token
    holds,          \* __nstHolds
    applyAct,       \* __nstApplyAct
    faulted,        \* __stackPoison
    bound,          \* __nstBound of the function bound last
    flying,         \* the value being thrown
    kept,           \* the value the contract caught last
    frames,         \* the native stack
    byHand,         \* tokens of the frames the contract pushed by hand
    handsLeft

nstVars == <<stackDepth, acts, holds, applyAct, faulted, bound, flying, kept, frames, byHand,
             handsLeft>>
-------------------------------------------------------------------------------
ActN == Len(acts)
Front1(s) == SubSeq(s, 1, Len(s) - 1)
Last1(s) == s[Len(s)]

\* __nstUnits
Units(n, base) == base + n \div ARGS_PER_UNIT

\* __nstReserve
Fits(u) == stackDepth + u <= NR_LIMIT

\* __nstFault: nothing of the contract runs after it.
Fault ==
    /\ faulted' = TRUE
    /\ frames' = <<>>
    /\ flying' = [flying EXCEPT !.thrown = FALSE]
    /\ UNCHANGED <<stackDepth, acts, holds, applyAct, bound, kept, byHand, handsLeft>>

\* __nstRelease: what the top hold leaves of depth and holds.
Releases(id) == holds # <<>> /\ Last1(holds).i = id /\ Last1(holds).a = ActN
DepthReleased(id) == IF Releases(id) THEN Last1(holds).p ELSE stackDepth
HoldsReleased(id) == IF Releases(id) THEN Front1(holds) ELSE holds

\* The holds of the innermost frame go, from the top.
HoldsBelow ==
    LET rest == {n \in 0 .. Len(holds) : \A k \in n + 1 .. Len(holds) : holds[k].a >= ActN}
    IN  SubSeq(holds, 1, CHOOSE n \in rest : \A m \in rest : n <= m)

\* Mutant: any token unwinds the innermost frame.
UnwindsAny(token) == acts # <<>>
\* __nstDepthExit(token, 0): only the innermost token unwinds.
Unwinds(token) == acts # <<>> /\ Last1(acts).token = token
DepthExit(token) ==
    IF Unwinds(token)
    THEN /\ stackDepth' = Last1(acts).depth
         /\ acts' = Front1(acts)
         /\ holds' = HoldsBelow
    ELSE UNCHANGED <<stackDepth, acts, holds>>

\* A new object, told from every token that something still holds.
FreshToken ==
    LET held == {acts[k].token : k \in DOMAIN acts} \cup {frames[k].token : k \in DOMAIN frames}
                  \cup byHand
    IN  CHOOSE t \in 1 .. Cardinality(held) + 1 : t \notin held

\* __nstDepthEnter
Enter(u, token) ==
    /\ acts' = Append(acts, [depth |-> stackDepth, token |-> token])
    /\ stackDepth' = stackDepth + u

\* __nstHold, after its own release.
Hold(id, u) ==
    /\ holds' = Append(HoldsReleased(id), [i |-> id, a |-> ActN, p |-> DepthReleased(id)])
    /\ stackDepth' = DepthReleased(id) + u
-------------------------------------------------------------------------------
(***************************************************************************)
(* Thrown values.  The engine's overflow is a real error with RangeError's *)
(* prototype and V8's text; the constructors record what they build        *)
(* (__nstWrapError), and a value once seen by a hook is never fresh again. *)
(***************************************************************************)
Thrown(origin, fresh, real, text) ==
    [thrown |-> TRUE, origin |-> origin, fresh |-> fresh, real |-> real, text |-> text]
Nothing == [Thrown("none", FALSE, FALSE, FALSE) EXCEPT !.thrown = FALSE]

EngineErrors == {Thrown("overflow", TRUE, TRUE, TRUE), Thrown("engine", TRUE, TRUE, FALSE)}
BuiltErrors  == {Thrown("built", FALSE, TRUE, TRUE)}
LookAlikes   == {Thrown("object", TRUE, FALSE, TRUE)}
Seen(e) == [e EXCEPT !.fresh = FALSE]

\* __nstIsOverflow
IsOverflow(e) == e.fresh /\ e.real /\ e.text
-------------------------------------------------------------------------------
(***************************************************************************)
(* The native stack: functions of the contract, applies and spread calls.  *)
(* live is what all frames up to this one were charged.  An apply of an    *)
(* array-like is first a frame that copies it, with the units it reserved  *)
(* and does not hold yet.  A length that is read, or an iterable that is   *)
(* spread, comes before the wrapper has done anything: the contract code   *)
(* that runs there runs as if the frame below had called it.               *)
(***************************************************************************)
LiveUnits == IF frames = <<>> THEN 0 ELSE Last1(frames).live

Frame(kind, u) ==
    [kind |-> kind, live |-> LiveUnits + u, token |-> 0, p |-> stackDepth, q |-> applyAct,
     id |-> 0, units |-> 0, hook |-> FALSE, leaked |-> FALSE]

Runs == ~faulted /\ ~flying.thrown
InFunction == Runs /\ frames # <<>> /\ Last1(frames).kind = "fn"

\* A metered function is called, by the host, by the contract or by a native.
EnterFunction(w) ==
    /\ Runs
    /\ IF ~Fits(w) THEN Fault
       ELSE /\ Enter(w, FreshToken)
            /\ frames' = Append(frames, [Frame("fn", w) EXCEPT !.token = FreshToken])
            /\ UNCHANGED <<holds, applyAct, faulted, bound, flying, kept, byHand, handsLeft>>

\* Function.prototype.apply; one reached from another apply with no function of
\* the contract in between adds its arguments only.
ApplyUnits(n) == Units(n, IF applyAct = ActN THEN 0 ELSE CALL_UNITS)

ApplyHolds(below, u) ==
    /\ frames' = Append(below, Frame("apply", u))
    /\ stackDepth' = stackDepth + u
    /\ applyAct' = ActN
    /\ UNCHANGED <<acts, holds, faulted, bound, flying, kept, byHand, handsLeft>>

\* With no arguments or an array.
Apply(n) ==
    /\ Runs /\ frames # <<>>
    /\ IF ~Fits(ApplyUnits(n)) THEN Fault ELSE ApplyHolds(frames, ApplyUnits(n))

\* With an array-like: the units are reserved, then the elements are read one by
\* one, which may run contract code, and then the units are held.
ApplyLike(n) ==
    /\ Runs /\ frames # <<>>
    /\ Cardinality({j \in DOMAIN frames : frames[j].kind = "copies"}) < MaxCopies
    /\ IF ~Fits(ApplyUnits(n)) THEN Fault
       ELSE /\ frames' = Append(frames, [Frame("copies", 0) EXCEPT !.units = ApplyUnits(n)])
            /\ UNCHANGED <<stackDepth, acts, holds, applyAct, faulted, bound, flying, kept, byHand,
                           handsLeft>>

Copied ==
    /\ Runs /\ frames # <<>> /\ Last1(frames).kind = "copies"
    /\ ApplyHolds(Front1(frames), Last1(frames).units)

\* f(...args): __arrspread(segments, 1, id), then the call.
SpreadCall(id, n) ==
    /\ InFunction
    /\ LET u == Units(n, CALL_UNITS)
       IN  IF DepthReleased(id) + u > NR_LIMIT THEN Fault
           ELSE /\ Hold(id, u)
                /\ frames' = Append(frames, [Frame("spread", u) EXCEPT !.id = id])
                /\ UNCHANGED <<acts, applyAct, faulted, bound, flying, kept, byHand, handsLeft>>

\* Function.prototype.bind of the function bound last, or of a fresh one.
Bind(k, fresh) ==
    /\ InFunction
    /\ LET base == IF fresh THEN 0 ELSE bound
       IN  IF base + k > BOUND_ARGS_MAX THEN Fault
           ELSE /\ bound' = base + k
                /\ UNCHANGED <<stackDepth, acts, holds, applyAct, faulted, flying, kept, frames,
                               byHand, handsLeft>>

Pop == frames' = Front1(frames)

\* The finally of the depth guard.
LeaveFunction ==
    /\ DepthExit(Last1(frames).token)
    /\ Pop
    /\ UNCHANGED <<applyAct, faulted, bound, kept, byHand, handsLeft>>

\* Mutant: the activation of the apply around it is not put back.
LeaveApplyHalf ==
    /\ stackDepth' = Last1(frames).p
    /\ Pop
    /\ UNCHANGED <<applyAct, acts, holds, faulted, bound, kept, byHand, handsLeft>>

\* The finally of the apply wrapper.
LeaveApply ==
    /\ stackDepth' = Last1(frames).p
    /\ applyAct' = Last1(frames).q
    /\ Pop
    /\ UNCHANGED <<acts, holds, faulted, bound, kept, byHand, handsLeft>>

\* The innermost frame returns; a spread call that does gives its hold back
\* (__arrspread mode 2).
Return ==
    /\ Runs /\ frames # <<>>
    /\ UNCHANGED flying
    /\ \/ Last1(frames).kind = "fn" /\ LeaveFunction
       \/ Last1(frames).kind = "apply" /\ LeaveApply
       \/ /\ Last1(frames).kind = "spread"
          /\ stackDepth' = DepthReleased(Last1(frames).id)
          /\ holds' = HoldsReleased(Last1(frames).id)
          /\ Pop
          /\ UNCHANGED <<acts, applyAct, faulted, bound, kept, byHand, handsLeft>>
-------------------------------------------------------------------------------
(***************************************************************************)
(* Throwing.                                                               *)
(***************************************************************************)
\* The contract throws what it built, or rethrows what it caught after it gave
\* it V8's text; the engine throws anywhere.
Throw(e) ==
    /\ Runs /\ frames # <<>>
    /\ e \in EngineErrors \/ Last1(frames).kind = "fn"
    /\ flying' = e
    /\ UNCHANGED <<stackDepth, acts, holds, applyAct, faulted, bound, kept, frames, byHand,
                   handsLeft>>

Rethrow == kept.thrown /\ Throw([kept EXCEPT !.text = TRUE])

\* A catch or finally of the contract: __gas(1, e) comes first.
Catch ==
    /\ flying.thrown /\ frames # <<>> /\ Last1(frames).kind = "fn"
    /\ IF IsOverflow(flying) THEN Fault
       ELSE /\ kept' = Seen(flying)
            /\ flying' = Nothing
            /\ UNCHANGED <<stackDepth, acts, holds, applyAct, faulted, bound, frames, byHand,
                           handsLeft>>

\* The value leaves the innermost frame.  The depth guard looks at it first
\* (__depth_exit(e)); a spread call leaves its hold behind.
Unwind ==
    /\ flying.thrown
    /\ IF frames = <<>>
       THEN /\ kept' = flying /\ flying' = Nothing
            /\ UNCHANGED <<stackDepth, acts, holds, applyAct, faulted, bound, frames, byHand,
                           handsLeft>>
       ELSE \/ /\ Last1(frames).kind = "fn"
               /\ IF IsOverflow(flying) THEN Fault
                  ELSE LeaveFunction /\ flying' = Seen(flying)
            \/ Last1(frames).kind = "apply" /\ LeaveApply /\ UNCHANGED flying
            \/ /\ Last1(frames).kind = "copies"
               /\ Pop
               /\ UNCHANGED <<stackDepth, acts, holds, applyAct, faulted, bound, flying, kept,
                              byHand, handsLeft>>
            \/ /\ Last1(frames).kind = "spread"
               /\ frames' = [Front1(frames) EXCEPT ![Len(frames) - 1].leaked = TRUE]
               /\ UNCHANGED <<stackDepth, acts, holds, applyAct, faulted, bound, flying, kept,
                              byHand, handsLeft>>
-------------------------------------------------------------------------------
(***************************************************************************)
(* The contract calls a hook by hand, or a native does for it.  Under a     *)
(* native a hook may give back the units of that native, and then contract *)
(* code may run: the hooks keep the functions covered, and of the natives  *)
(* above the innermost one nothing is counted from then on.                *)
(***************************************************************************)
ByHand == Runs /\ frames # <<>> /\ handsLeft > 0

InnermostFunction ==
    LET above == {n \in 0 .. Len(frames) : \A k \in n + 1 .. Len(frames) : frames[k].kind # "fn"}
    IN  CHOOSE n \in above : \A m \in above : n <= m

HookUsed ==
    /\ handsLeft' = handsLeft - 1
    /\ frames' = [j \in DOMAIN frames |->
          IF j <= InnermostFunction THEN frames[j]
          ELSE [frames[j] EXCEPT !.live = frames[InnermostFunction].live, !.hook = TRUE]]

HandEnter(w) ==
    /\ ByHand
    /\ IF ~Fits(w) THEN Fault
       ELSE /\ Enter(w, FreshToken)
            /\ byHand' = byHand \cup {FreshToken}
            /\ HookUsed
            /\ UNCHANGED <<holds, applyAct, faulted, bound, flying, kept>>

HandExit(token) ==
    /\ ByHand
    /\ DepthExit(token)
    /\ HookUsed
    /\ UNCHANGED <<applyAct, faulted, bound, flying, kept, byHand>>

HandHold(id, n) ==
    /\ ByHand
    /\ LET u == Units(n, CALL_UNITS)
       IN  IF DepthReleased(id) + u > NR_LIMIT THEN Fault
           ELSE /\ Hold(id, u)
                /\ HookUsed
                /\ UNCHANGED <<acts, applyAct, faulted, bound, flying, kept, byHand>>

HandRelease(id) ==
    /\ ByHand
    /\ stackDepth' = DepthReleased(id)
    /\ holds' = HoldsReleased(id)
    /\ HookUsed
    /\ UNCHANGED <<acts, applyAct, faulted, bound, flying, kept, byHand>>
-------------------------------------------------------------------------------
StackInit ==
    /\ stackDepth = 0 /\ acts = <<>> /\ holds = <<>> /\ applyAct = -1
    /\ faulted = FALSE /\ bound = 0 /\ flying = Nothing /\ kept = Nothing
    /\ frames = <<>> /\ byHand = {} /\ handsLeft = MaxByHand 

StackNext ==
    \/ \E w \in Weights : EnterFunction(w) \/ HandEnter(w)
    \/ \E n \in ArgCounts : Apply(n) \/ ApplyLike(n)
    \/ Copied
    \/ \E n \in ArgCounts, id \in Sites : SpreadCall(id, n) \/ HandHold(id, n)
    \/ \E k \in 1 .. BOUND_ARGS_MAX, fresh \in BOOLEAN : Bind(k, fresh)
    \/ Return
    \/ \E e \in EngineErrors \cup BuiltErrors \cup LookAlikes : Throw(e)
    \/ Rethrow \/ Catch \/ Unwind
    \/ \E token \in byHand : HandExit(token)
    \/ \E id \in Sites : HandRelease(id)

StackSpec == StackInit /\ [][StackNext]_nstVars
-------------------------------------------------------------------------------
(***************************************************************************)
(* Properties.                                                             *)
(***************************************************************************)

\* While anything runs, the budget covers every function on the native stack, and
\* every apply and spread call under which no hook was called by hand: "contract
\* code can never lower the depth below a frame that is still live"
\* (harness_hooks.js), whatever it calls by hand and however calls end.  What is on
\* the stack stays within the limit; the depth itself may pass it, when the
\* elements of an array-like take units after the apply reserved its own.
BudgetCoversStack == Runs => LiveUnits <= stackDepth /\ LiveUnits <= NR_LIMIT

\* Without calls by hand, the budget is exactly what is on the stack, but for the
\* holds that a throw left behind in a function that is still running: "restore
\* the depth the frame was entered at when it returns, which also drops any
\* argument hold it leaked by throwing" (harness_hooks.js).
BudgetIsExact ==
    handsLeft = MaxByHand /\ Runs /\ (\A i \in DOMAIN frames : ~frames[i].leaked) => stackDepth = LiveUnits

\* "Only the RangeError V8 itself raised counts as an overflow, never a value a
\* contract built or reshaped", and none gets past a catch, a finally or a frame
\* (harness_hooks.js).
OverflowIsTerminal ==
    /\ kept.origin # "overflow"
    /\ faulted /\ flying.origin # "none" => flying.origin = "overflow"

\* An apply is charged for its arguments only where another apply is under way and
\* no function of the contract runs in between ("with no contract frame in
\* between", harness_hooks.js), whatever was thrown through the applies before; a
\* hook called by hand under a native that is still there can feign it.
DiscountIsDue ==
    /\ Runs /\ frames # <<>> /\ applyAct = ActN
    /\ \A j \in DOMAIN frames : ~frames[j].hook
    => \E j \in DOMAIN frames : j > InnermostFunction /\ frames[j].kind = "apply"

StackAccounted == BudgetCoversStack /\ BudgetIsExact /\ OverflowIsTerminal
===============================================================================
