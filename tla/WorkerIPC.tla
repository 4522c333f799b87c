----------------------------- MODULE WorkerIPC -----------------------------
(***************************************************************************)
(* The processes and the IPC channels between the parent (ProcessExecutor) *)
(* and its forked workers (vm-worker.js).  Workers are numbered by the     *)
(* order in which they were forked; each has a channel in each direction.  *)
(* The operating system and node's child_process are external: they are    *)
(* modelled by what the parent and the worker rely on.                     *)
(***************************************************************************)
EXTENDS Naturals, Sequences

CONSTANTS
    MaxWorkers,   \* bound: forks that succeed in one behaviour
    Flaky,        \* the workers that may crash, hang or send odd frames
    MaxRogue      \* bound: odd frames (forged or repeated) in one behaviour

ASSUME WorkerAssumption ==
    /\ MaxWorkers \in Nat \ {0}
    /\ Flaky \subseteq 1..MaxWorkers
    /\ MaxRogue \in Nat

VARIABLES
    inbox,    \* inbox[w]: frames the parent sent, not yet handled by worker w
    outbox,   \* outbox[w]: frames worker w sent, not yet handled by the parent
    wstate,   \* wstate[w]: life of the process, its way of dying included
    killed    \* killed[w]: a SIGKILL from the parent is on its way to w

ipcVars == <<inbox, outbox, wstate, killed>>

Workers == 1..MaxWorkers

\* "self": a death isSelfInflicted() blames on the contract (a fatal signal or
\* a non-zero exit); "external": any other death (SIGKILL, exit 0, failed fork).
WorkerStates == {"absent", "starting", "up", "self", "external"}
Deaths == {"self", "external"}

Alive(w) == wstate[w] \in {"starting", "up"}

\* Snapshot tokens are positive; 0 stands for "no token" and "no snapshot".
NoToken == 0

\* A parent-to-worker frame.  An execute frame carries either a reference to
\* the worker's snapshot (ref) or its cross-chain data inline (val).
Frame(type, id, ref, val) == [type |-> type, id |-> id, ref |-> ref, val |-> val]

\* A worker-to-parent frame; tok is the token the worker echoes.
Reply(type, id, tok) == [type |-> type, id |-> id, tok |-> tok]

\* The random per-dispatch token.  A request is dispatched at most once, so
\* its id names its dispatch; what matters is that no worker can produce the
\* token before it received the dispatch (forged replies carry NoToken).
newDispatchToken(id) == id

IPCInit ==
    /\ outbox = [w \in Workers |-> <<>>]
    /\ killed = [w \in Workers |-> FALSE]

=============================================================================
