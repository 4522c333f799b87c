------------------------------- MODULE VmEntry --------------------------------
(***************************************************************************)
(* The XChainVM constructor and shutdown (src/index.js): the execution     *)
(* mode, the process-wide count of live subprocess executors and the slot  *)
(* that each of them gives back.                                           *)
(***************************************************************************)
EXTENDS Integers, FiniteSets

CONSTANTS
    Vms,                        \* the VMs the process builds
    Caps,                       \* config.maxLiveExecutors; 0 stands for none given
    DEFAULT_MAX_LIVE_EXECUTORS

ASSUME CapAssumption == Caps \subseteq Nat /\ DEFAULT_MAX_LIVE_EXECUTORS \in Nat \ {0}

VARIABLES
    liveExecutors,
    vms,        \* VM -> "none", "inProcess", "subprocess" (built), "failed"
    slots,      \* VM -> "none", "held", "released": the closure of its slot
    shut        \* the VMs that were shut down (history)

entryVars == <<liveExecutors, vms, slots, shut>>

EntryInit ==
    /\ liveExecutors = 0
    /\ vms = [v \in Vms |-> "none"]
    /\ slots = [v \in Vms |-> "none"]
    /\ shut = {}

Cap(configured) == IF configured > 0 THEN configured ELSE DEFAULT_MAX_LIVE_EXECUTORS

\* Mutant: the slot is given back by every call.
releaseEvery(v) ==
    /\ liveExecutors' = liveExecutors - 1
    /\ slots' = [slots EXCEPT ![v] = "released"]

\* The closure that reserveExecutorSlot returns.
releaseSlot(v) ==
    /\ liveExecutors' = liveExecutors - (IF slots[v] = "held" THEN 1 ELSE 0)
    /\ slots' = [slots EXCEPT ![v] = "released"]

\* An unknown mode throws before anything is reserved (assertExecutionMode).
ConstructBadMode(v) ==
    /\ vms[v] = "none"
    /\ vms' = [vms EXCEPT ![v] = "failed"]
    /\ UNCHANGED <<liveExecutors, slots, shut>>

ConstructInProcess(v) ==
    /\ vms[v] = "none"
    /\ vms' = [vms EXCEPT ![v] = "inProcess"]
    /\ UNCHANGED <<liveExecutors, slots, shut>>

\* reserveExecutorSlot throws EXECUTOR_CAP_REACHED, or the executor is built.
ConstructSubprocess(v, configured) ==
    /\ vms[v] = "none"
    /\ IF liveExecutors >= Cap(configured)
       THEN /\ vms' = [vms EXCEPT ![v] = "failed"]
            /\ UNCHANGED <<liveExecutors, slots>>
       ELSE /\ vms' = [vms EXCEPT ![v] = "subprocess"]
            /\ liveExecutors' = liveExecutors + 1
            /\ slots' = [slots EXCEPT ![v] = "held"]
    /\ UNCHANGED shut

\* The ProcessExecutor constructor throws: the slot is reserved and given back.
ConstructThrows(v, configured) ==
    /\ vms[v] = "none" /\ liveExecutors < Cap(configured)
    /\ vms' = [vms EXCEPT ![v] = "failed"]
    /\ slots' = [slots EXCEPT ![v] = "released"]
    /\ UNCHANGED <<liveExecutors, shut>>

\* shutdown(), which a host may call again; in-process it does nothing.
Shutdown(v) ==
    /\ vms[v] \in {"inProcess", "subprocess"}
    /\ IF vms[v] = "subprocess" THEN releaseSlot(v) ELSE UNCHANGED <<liveExecutors, slots>>
    /\ shut' = shut \cup {v}
    /\ UNCHANGED vms

EntryNext ==
    \E v \in Vms :
        \/ ConstructBadMode(v) \/ ConstructInProcess(v) \/ Shutdown(v)
        \/ \E c \in Caps : ConstructSubprocess(v, c) \/ ConstructThrows(v, c)

EntrySpec == EntryInit /\ [][EntryNext]_entryVars
-------------------------------------------------------------------------------
\* The count is the number of subprocess VMs that were built and not shut down,
\* whatever failed in between and however often each is shut down: a slot that
\* leaks makes a long-lived host refuse VMs, one given back twice lifts the cap.
SlotsExact == liveExecutors = Cardinality({v \in Vms : vms[v] = "subprocess"} \ shut)
===============================================================================
