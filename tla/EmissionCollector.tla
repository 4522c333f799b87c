-------------------------- MODULE EmissionCollector ---------------------------
(***************************************************************************)
(* The actions and log lines a run has queued: collector.js.  An action is *)
(* its type and the gas it reserves for the contract it will run (0 for    *)
(* most).                                                                  *)
(***************************************************************************)
EXTENDS Naturals, Sequences

CONSTANTS
    MaxEmissions,   \* limits.maxEmissions
    MaxLogs         \* the log cap (100 lines)

ASSUME CollectorAssumption == MaxEmissions \in Nat /\ MaxLogs \in Nat

VARIABLES emissions, logs

collectorVars == <<emissions, logs>>

CollectorInit == emissions = <<>> /\ logs = 0

\* ensureRoom() throws when it is false.
ensureRoom == Len(emissions) < MaxEmissions

\* Mutant: the cap is checked after the push.
addUncapped(action, reserves) ==
    emissions' = Append(emissions, [action |-> action, reserves |-> reserves])

add(action, reserves) ==
    /\ ensureRoom
    /\ emissions' = Append(emissions, [action |-> action, reserves |-> reserves])

addLog == logs' = IF logs < MaxLogs THEN logs + 1 ELSE logs
===============================================================================
