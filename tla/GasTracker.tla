------------------------------ MODULE GasTracker ------------------------------
(***************************************************************************)
(* The gas a run uses against its ceiling: gas.js.  A charge is added      *)
(* before it is checked, so `used` may pass the ceiling by one charge; the *)
(* flag `exhausted` remembers that it did, whoever caught the error.       *)
(***************************************************************************)
EXTENDS Integers

CONSTANTS
    GasCeiling,     \* the ceiling this VM was built with
    Requests,       \* opts.gasCeiling: what callers reserve for a run
    UsedBound       \* bound: gas a run uses up before it stops being followed

ASSUME GasAssumption ==
    /\ GasCeiling \in Nat \ {0}
    /\ Requests \subseteq Int
    /\ UsedBound \in Nat

VARIABLES ceiling, used, exhausted

gasVars == <<ceiling, used, exhausted>>

\* A reservation that is not a positive amount below the ceiling is ignored.
effectiveCeiling(requested, configured) ==
    IF requested > 0 /\ requested < configured THEN requested ELSE configured

GasInit ==
    /\ ceiling \in {effectiveCeiling(r, GasCeiling) : r \in Requests}
    /\ used = 0
    /\ exhausted = FALSE

GasTypeOK ==
    /\ ceiling \in 1..GasCeiling
    /\ used \in Nat
    /\ exhausted \in BOOLEAN

\* charge(n) throws GasExhaustedError.
Exceeds(n) == used + n > ceiling

\* Mutant: the flag follows the last charge only.
chargeForgets(n) ==
    /\ used + n <= UsedBound
    /\ used' = used + n
    /\ exhausted' = FALSE
    /\ UNCHANGED ceiling

charge(n) ==
    /\ used + n <= UsedBound
    /\ used' = used + n
    /\ exhausted' = (exhausted \/ Exceeds(n))
    /\ UNCHANGED ceiling
===============================================================================
